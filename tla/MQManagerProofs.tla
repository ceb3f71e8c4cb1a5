--------------------------- MODULE MQManagerProofs ---------------------------
(***************************************************************************)
(* Proofs about MQManager, for every set of jobs, every backlog and every  *)
(* value of MaxPending, MaxInflight and MaxAttempt.                        *)
(***************************************************************************)
EXTENDS MQManager, FiniteSetTheorems, SequenceTheorems, TLAPS

-----------------------------------------------------------------------------
(* The order of the keys of inflight_ *)

\* The keys of inflight_ are finitely many: they are below nextPublishTag_.
LEMMA BoundedTagsFinite ==
    ASSUME NEW n \in Nat, NEW tags, tags \subseteq 1..n
    PROVE  IsFiniteSet(tags) /\ Cardinality(tags) \in Nat
<1>1. IsFiniteSet(1..n)
  BY FS_Interval
<1>2. IsFiniteSet(tags)
  BY <1>1, FS_Subset
<1> QED BY <1>2, FS_CardinalityType

\* Ranks are unique, so by counting every rank up to the size is taken: the i-th
\* key of the ordered map exists, and every key is the i-th one for its rank i.
LEMMA TagAtOrder ==
    ASSUME NEW n \in Nat, NEW tags, tags \subseteq 1..n
    PROVE  /\ \A i \in 1..Cardinality(tags) :
                 /\ TagAt(tags, i) \in tags
                 /\ Cardinality({u \in tags : u <= TagAt(tags, i)}) = i
           /\ \A t \in tags : \E i \in 1..Cardinality(tags) : TagAt(tags, i) = t
<1> DEFINE Below(t) == {u \in tags : u <= t}
           rank == [t \in tags |-> Cardinality(Below(t))]
           size == Cardinality(tags)
<1>1. IsFiniteSet(tags) /\ size \in Nat
  BY BoundedTagsFinite
<1>2. ASSUME NEW t \in tags
      PROVE  /\ IsFiniteSet(Below(t))
             /\ Cardinality(Below(t)) \in 1..size
  <2>1. Below(t) \subseteq tags /\ t \in Below(t)
    OBVIOUS
  <2>2. /\ IsFiniteSet(Below(t))
        /\ Cardinality(Below(t)) <= size
        /\ Cardinality(Below(t)) \in Nat
    BY <1>1, <2>1, FS_Subset, FS_CardinalityType
  <2>3. Cardinality(Below(t)) # 0
    BY <2>1, <2>2, FS_EmptySet
  <2> QED BY <1>1, <2>2, <2>3
<1>3. ASSUME NEW s \in tags, NEW t \in tags, s < t
      PROVE  rank[s] < rank[t]
  <2>1. s \in Nat /\ t \in Nat /\ s < t /\ \A u \in tags : u \in Nat
    BY <1>3
  <2>2. \A u \in tags : u <= s => u <= t
    BY <2>1
  <2>3. t <= t /\ ~(t <= s)
    BY <2>1
  <2>4. Below(s) \subseteq Below(t) /\ t \in Below(t) /\ t \notin Below(s)
    BY <2>2, <2>3
  <2>5. /\ Cardinality(Below(s)) <= Cardinality(Below(t))
        /\ Cardinality(Below(t)) # Cardinality(Below(s))
    BY <1>2, <2>4, FS_Subset
  <2> QED BY <1>2, <2>5
<1>4. rank \in [tags -> 1..size]
  BY <1>2
<1>5. \A s, t \in tags : rank[s] = rank[t] => s = t
  BY <1>3, <1>4
<1>6. rank \in Injection(tags, 1..size)
  BY <1>4, <1>5 DEF Injection, IsInjective
<1>7. IsFiniteSet(1..size) /\ Cardinality(1..size) = size
  BY <1>1, FS_Interval
<1>8. rank \in Surjection(tags, 1..size)
  BY <1>6, <1>7, FS_Injection
<1>9. ASSUME NEW i \in 1..size
      PROVE  TagAt(tags, i) \in tags /\ Cardinality(Below(TagAt(tags, i))) = i
  <2>1. \E t \in tags : Cardinality(Below(t)) = i
    BY <1>8 DEF Surjection
  <2> QED BY <2>1 DEF TagAt
<1>10. ASSUME NEW t \in tags
       PROVE  \E i \in 1..size : TagAt(tags, i) = t
  <2>1. PICK i \in 1..size : i = rank[t]
    BY <1>4
  <2>2. TagAt(tags, i) \in tags /\ rank[TagAt(tags, i)] = rank[t]
    BY <1>9, <2>1
  <2> QED BY <1>5, <2>2
<1> QED BY <1>9, <1>10

LEMMA TagAtIsTag ==
    ASSUME NEW n \in Nat, NEW tags, tags \subseteq 1..n, NEW i \in 1..Cardinality(tags)
    PROVE  TagAt(tags, i) \in tags
BY TagAtOrder

-----------------------------------------------------------------------------
(* drainPending, disconnect and confirm keep the outbox well-typed and move *)
(* publications without losing or inventing a place                        *)

\* Publications in pending_ and inflight_ together.
Waiting == Len(pending_) + Cardinality(DOMAIN inflight_)

\* The loop of drainPending moves publications from pending_ to fresh tags.
LEMMA SendBatchMoves ==
    ASSUME AmqpTypeOK, nextPublishTag_ \in Nat \ {0},
           NEW waiting \in Seq(Publication), NEW frames \in Seq(ClientFrame),
           NEW flying, flying \in [DOMAIN flying -> Publication],
           DOMAIN flying \subseteq 1..(nextPublishTag_ - 1),
           NEW count \in 0..Len(waiting),
           SendBatch(waiting, flying, frames, count)
    PROVE  /\ OutboxTypeOK'
           /\ toBroker' \in Seq(ClientFrame)
           /\ Waiting' = Len(waiting) + Cardinality(DOMAIN flying)
<1> DEFINE fresh == nextPublishTag_..(nextPublishTag_ + count - 1)
<1>1. count \in Nat /\ Len(waiting) \in Nat /\ count <= Len(waiting)
  OBVIOUS
<1>2. /\ pending_' = SubSeq(waiting, count + 1, Len(waiting))
      /\ inflight_' = [t \in DOMAIN flying \cup fresh |->
                         IF t \in DOMAIN flying THEN flying[t]
                                                ELSE waiting[t - nextPublishTag_ + 1]]
      /\ nextPublishTag_' = nextPublishTag_ + count
      /\ toBroker' = Sent(frames \o [i \in 1..count |->
                             PublishFrame(waiting[i].queue, waiting[i].body)])
  BY DEF SendBatch
<1>3. pending_' \in Seq(Publication) /\ Len(pending_') = Len(waiting) - count
  BY <1>1, <1>2
<1>4. DOMAIN inflight_' = DOMAIN flying \cup fresh
  BY <1>2
<1>5. DOMAIN inflight_' \subseteq 1..(nextPublishTag_' - 1)
  BY <1>1, <1>2, <1>4
<1>6. ASSUME NEW t \in DOMAIN flying \cup fresh
      PROVE  inflight_'[t] \in Publication
  <2>1. CASE t \in DOMAIN flying
    BY <1>2, <2>1
  <2>2. CASE t \notin DOMAIN flying
    <3>1. t - nextPublishTag_ + 1 \in 1..Len(waiting)
      BY <1>1, <2>2
    <3>2. waiting[t - nextPublishTag_ + 1] \in Publication
      BY <3>1
    <3> QED BY <1>2, <2>2, <3>2
  <2> QED BY <2>1, <2>2
<1>7. inflight_' \in [DOMAIN inflight_' -> Publication]
  BY <1>2, <1>4, <1>6
<1>8. [i \in 1..count |-> PublishFrame(waiting[i].queue, waiting[i].body)] \in Seq(ClientFrame)
  <2>1. ASSUME NEW i \in 1..count
        PROVE  PublishFrame(waiting[i].queue, waiting[i].body) \in ClientFrame
    <3>1. waiting[i] \in Publication
      BY <1>1
    <3> QED BY <3>1 DEF Publication, PublishFrame, ClientFrame
  <2> QED BY <1>1, <2>1
<1>9. toBroker' \in Seq(ClientFrame)
  BY <1>2, <1>8 DEF Sent, AmqpTypeOK
<1>10. Cardinality(DOMAIN inflight_') = Cardinality(DOMAIN flying) + count
  <2>1. IsFiniteSet(DOMAIN flying) /\ Cardinality(DOMAIN flying) \in Nat
    BY BoundedTagsFinite
  <2>2. IsFiniteSet(fresh) /\ Cardinality(fresh) = count
    BY <1>1, FS_Interval
  <2>3. DOMAIN flying \cap fresh = {}
    OBVIOUS
  <2>4. Cardinality(DOMAIN flying \cap fresh) = 0
    BY <2>3, FS_EmptySet
  <2>5. Cardinality(DOMAIN flying \cup fresh)
          = Cardinality(DOMAIN flying) + Cardinality(fresh) - Cardinality(DOMAIN flying \cap fresh)
    BY <2>1, <2>2, FS_Union
  <2> QED BY <1>1, <1>4, <2>1, <2>2, <2>4, <2>5
<1>11. Waiting' = Len(waiting) + Cardinality(DOMAIN flying)
  <2>1. Cardinality(DOMAIN flying) \in Nat
    BY BoundedTagsFinite
  <2> QED BY <1>1, <1>3, <1>10, <2>1 DEF Waiting
<1> QED
  BY <1>1, <1>2, <1>3, <1>5, <1>7, <1>9, <1>11 DEF OutboxTypeOK

\* drainPending, whichever way it ends.
LEMMA DrainPendingMoves ==
    ASSUME AmqpTypeOK, ControlTypeOK, nextPublishTag_ \in Nat \ {0},
           NEW ready \in BOOLEAN,
           NEW waiting \in Seq(Publication), NEW frames \in Seq(ClientFrame),
           NEW flying, flying \in [DOMAIN flying -> Publication],
           DOMAIN flying \subseteq 1..(nextPublishTag_ - 1),
           DrainPending(ready, waiting, flying, frames)
    PROVE  /\ OutboxTypeOK'
           /\ toBroker' \in Seq(ClientFrame)
           /\ faults' \in 0..MaxFaults
           /\ producerReady_' \in BOOLEAN
           /\ recovering_' \in BOOLEAN
           /\ recoverQueued' \in BOOLEAN
           /\ Waiting' = Len(waiting) + Cardinality(DOMAIN flying)
<1>1. Cardinality(DOMAIN flying) \in Nat
  BY BoundedTagsFinite
<1>2. BatchSize(ready, waiting, flying) \in 0..Len(waiting)
  BY <1>1, InflightAssumption DEF BatchSize, Smaller
<1>3. PICK count \in 0..Len(waiting) : SendBatch(waiting, flying, frames, count)
  BY <1>2 DEF DrainPending
<1>4. /\ faults' \in 0..MaxFaults
      /\ producerReady_' \in BOOLEAN
      /\ recovering_' \in BOOLEAN
      /\ recoverQueued' \in BOOLEAN
  <2>1. CASE producerReady_' = ready /\ UNCHANGED <<faults, recovering_, recoverQueued>>
    BY <2>1 DEF AmqpTypeOK, ControlTypeOK
  <2>2. CASE Fault /\ ConnectionFailed
    <3>1. faults' \in 0..MaxFaults
      BY <2>2, BoundsAssumption DEF Fault, AmqpTypeOK
    <3> QED BY <2>2, <3>1 DEF ConnectionFailed, ControlTypeOK
  <2> QED BY <2>1, <2>2 DEF DrainPending
<1> QED BY <1>3, <1>4, SendBatchMoves

\* disconnect keeps every unconfirmed publication.
LEMMA ReclaimedMoves ==
    ASSUME OutboxTypeOK
    PROVE  Reclaimed \in Seq(Publication) /\ Len(Reclaimed) = Waiting
<1> DEFINE tags  == DOMAIN inflight_
           size  == Cardinality(tags)
           first == [i \in 1..size |-> inflight_[TagAt(tags, i)]]
<1>1. size \in Nat
  BY BoundedTagsFinite DEF OutboxTypeOK
<1>2. \A i \in 1..size : TagAt(tags, i) \in tags
  BY TagAtIsTag DEF OutboxTypeOK
<1>3. \A i \in 1..size : inflight_[TagAt(tags, i)] \in Publication
  BY <1>2 DEF OutboxTypeOK
<1>4. first \in Seq(Publication) /\ Len(first) = size
  BY <1>1, <1>3
<1>5. Reclaimed = first \o pending_
  BY DEF Reclaimed, InTagOrder
<1> QED BY <1>1, <1>4, <1>5 DEF OutboxTypeOK, Waiting

\* The acknowledgements a confirm causes are frames.
LEMMA CompletionAcksAreFrames ==
    ASSUME OutboxTypeOK, NEW tags, tags \subseteq DOMAIN inflight_
    PROVE  CompletionAcks(tags) \in Seq(ClientFrame)
<1> DEFINE owners == {t \in tags : /\ inflight_[t].source # NoDelivery
                                   /\ IsCurrent(inflight_[t].source.gen)}
           size == Cardinality(owners)
<1>1. owners \subseteq 1..(nextPublishTag_ - 1) /\ nextPublishTag_ - 1 \in Nat
  BY DEF OutboxTypeOK
<1>2. size \in Nat
  BY <1>1, BoundedTagsFinite
<1>3. \A i \in 1..size : TagAt(owners, i) \in owners
  BY <1>1, TagAtIsTag
<1>4. ASSUME NEW i \in 1..size
      PROVE  AckFrame(inflight_[TagAt(owners, i)].source.tag) \in ClientFrame
  <2>1. PICK t \in owners : t = TagAt(owners, i)
    BY <1>3
  <2>2. inflight_[t] \in Publication /\ inflight_[t].source # NoDelivery
    BY DEF OutboxTypeOK
  <2>3. inflight_[t].source \in [gen : Nat, tag : Nat \ {0}]
    BY <2>2 DEF Publication, Source
  <2>4. inflight_[t].source.tag \in Nat \ {0}
    BY <2>3
  <2> QED BY <2>1, <2>4 DEF AckFrame, ClientFrame
<1>5. CompletionAcks(tags) = [i \in 1..size |->
                                 AckFrame(inflight_[TagAt(owners, i)].source.tag)]
  BY DEF CompletionAcks, InTagOrder
<1> QED BY <1>2, <1>4, <1>5

-----------------------------------------------------------------------------
(* Every action preserves the types and the count of places in use *)

\* The inductive invariant.
Inv == TypeOK /\ OutstandingExact

\* The parts of the count are numbers.
LEMMA CountsAreNat ==
    ASSUME TypeOK
    PROVE  /\ outstanding_ \in Nat /\ Reserved \in Nat
           /\ Len(submitted) \in Nat /\ Len(pending_) \in Nat
           /\ Cardinality(DOMAIN inflight_) \in Nat
<1>1. Cardinality(DOMAIN inflight_) \in Nat
  BY BoundedTagsFinite DEF TypeOK, OutboxTypeOK
<1>2. Reserved \in Nat
  BY DEF Reserved
<1> QED BY <1>1, <1>2 DEF TypeOK, QueueTypeOK, OutboxTypeOK

\* The parts of the type invariant that drainPending needs.
LEMMA OutboxParts ==
    ASSUME TypeOK
    PROVE  /\ AmqpTypeOK /\ ControlTypeOK
           /\ producerReady_ \in BOOLEAN
           /\ nextPublishTag_ \in Nat \ {0}
           /\ pending_ \in Seq(Publication)
           /\ inflight_ \in [DOMAIN inflight_ -> Publication]
           /\ DOMAIN inflight_ \subseteq 1..(nextPublishTag_ - 1)
BY DEF TypeOK, ControlTypeOK, OutboxTypeOK

\* The count, with the outbox as one number: what an action that moves one
\* submitted publication to the outbox has to show.
LEMMA CountSplit ==
    ASSUME TypeOK, OutstandingExact, UNCHANGED <<outstanding_, publisher>>,
           Len(submitted') = Len(submitted) - 1,
           OutboxTypeOK', Waiting' = Len(pending_) + 1 + Cardinality(DOMAIN inflight_)
    PROVE  OutstandingExact'
<1> DEFINE s  == Len(submitted)
           p  == Len(pending_)
           f  == Cardinality(DOMAIN inflight_)
           s2 == Len(submitted')
           p2 == Len(pending_')
           f2 == Cardinality(DOMAIN inflight_')
<1>1. p2 \in Nat /\ f2 \in Nat
  BY BoundedTagsFinite DEF OutboxTypeOK
<1>2. Reserved' = Reserved
  BY DEF Reserved
<1>3. p2 + f2 = p + 1 + f /\ s2 = s - 1
  BY DEF Waiting
<1>4. outstanding_ \in Nat /\ Reserved \in Nat /\ s \in Nat /\ p \in Nat /\ f \in Nat
  BY CountsAreNat
<1>5. outstanding_ = Reserved + s + p + f
  BY DEF OutstandingExact
<1>6. outstanding_ = Reserved + s2 + p2 + f2
  <2> HIDE DEF s, p, f, s2, p2, f2
  <2> QED BY <1>1, <1>3, <1>4, <1>5
<1> QED BY <1>2, <1>6 DEF OutstandingExact

\* The same for an action that changes the outbox and outstanding_ by `gone`.
LEMMA OutboxCount ==
    ASSUME TypeOK, OutstandingExact, UNCHANGED <<publisher, submitted>>,
           OutboxTypeOK', NEW gone \in Nat, outstanding_' = outstanding_ - gone,
           Waiting' = Len(pending_) + Cardinality(DOMAIN inflight_) - gone
    PROVE  OutstandingExact'
<1> DEFINE s  == Len(submitted)
           p  == Len(pending_)
           f  == Cardinality(DOMAIN inflight_)
           p2 == Len(pending_')
           f2 == Cardinality(DOMAIN inflight_')
<1>1. p2 \in Nat /\ f2 \in Nat
  BY BoundedTagsFinite DEF OutboxTypeOK
<1>2. Reserved' = Reserved
  BY DEF Reserved
<1>3. p2 + f2 = p + f - gone
  BY DEF Waiting
<1>4. outstanding_ \in Nat /\ Reserved \in Nat /\ s \in Nat /\ p \in Nat /\ f \in Nat
  BY CountsAreNat
<1>5. outstanding_ = Reserved + s + p + f /\ outstanding_ <= MaxPending
  BY DEF OutstandingExact
<1>6. outstanding_' = Reserved + s + p2 + f2 /\ outstanding_' <= MaxPending
  <2> HIDE DEF s, p, f, p2, f2
  <2> QED BY <1>1, <1>3, <1>4, <1>5, PendingAssumption
<1> QED BY <1>2, <1>6 DEF OutstandingExact

\* The count is untouched by an action that touches none of its parts.
LEMMA CountUnchanged ==
    ASSUME OutstandingExact,
           UNCHANGED <<outstanding_, publisher, submitted, pending_, inflight_>>
    PROVE  OutstandingExact'
BY DEF OutstandingExact, Reserved

\* The parts of the type invariant are preserved when their variables are.
LEMMA TypesUnchanged ==
    ASSUME TypeOK
    PROVE  /\ UNCHANGED <<brokerVars, faults>> => AmqpTypeOK'
           /\ UNCHANGED <<handler_, setupVars, recoverVars, reconnectScheduled_, generation_>>
                  => ControlTypeOK'
           /\ UNCHANGED outboxVars => OutboxTypeOK'
           /\ UNCHANGED <<outstanding_, queueVars, retryTimers>> => QueueTypeOK'
           /\ UNCHANGED historyVars => HistoryTypeOK'
<1> USE DEF TypeOK
<1>1. UNCHANGED <<brokerVars, faults>> => AmqpTypeOK'
  BY DEF AmqpTypeOK, brokerVars, storeVars
<1>2. UNCHANGED <<handler_, setupVars, recoverVars, reconnectScheduled_, generation_>>
          => ControlTypeOK'
  BY DEF ControlTypeOK, setupVars, recoverVars
<1>3. UNCHANGED outboxVars => OutboxTypeOK'
  BY DEF OutboxTypeOK, outboxVars
<1>4. UNCHANGED <<outstanding_, queueVars, retryTimers>> => QueueTypeOK'
  BY DEF QueueTypeOK, queueVars
<1>5. UNCHANGED historyVars => HistoryTypeOK'
  BY DEF HistoryTypeOK, historyVars
<1> QED BY <1>1, <1>2, <1>3, <1>4, <1>5

\* The steps of a thread inside publish.
LEMMA PublishingPreserves ==
    ASSUME Inv, Publishing
    PROVE  Inv'
<1> USE DEF Inv, timerVars
<1>1. ASSUME NEW job \in Jobs, PublishLoad(job)
      PROVE  Inv'
  <2>1. /\ AmqpTypeOK' /\ ControlTypeOK' /\ OutboxTypeOK'
    BY <1>1, TypesUnchanged DEF PublishLoad
  <2>2. QueueTypeOK'
    BY <1>1 DEF PublishLoad, TypeOK, QueueTypeOK, Publisher
  <2>3. HistoryTypeOK'
    BY <1>1 DEF PublishLoad, TypeOK, HistoryTypeOK
  <2>4. OutstandingExact'
    BY <1>1 DEF PublishLoad, OutstandingExact, Reserved, outboxVars, Idle
  <2> QED BY <2>1, <2>2, <2>3, <2>4 DEF TypeOK
<1>2. ASSUME PublishReserve
      PROVE  Inv'
  <2>1. /\ AmqpTypeOK' /\ ControlTypeOK' /\ OutboxTypeOK' /\ HistoryTypeOK'
    BY <1>2, TypesUnchanged DEF PublishReserve
  <2>2. publisher \in [pc : {"cas"}, job : Jobs, count : Nat]
    BY <1>2 DEF PublishReserve, TypeOK, QueueTypeOK, Publisher, Idle
  <2>3. QueueTypeOK'
    BY <1>2, <2>2 DEF PublishReserve, TypeOK, QueueTypeOK, Publisher
  <2>4. OutstandingExact'
    <3>1. publisher.pc = "cas" /\ publisher.count \in Nat
      BY <2>2
    <3>2. CASE UNCHANGED outstanding_ /\ publisher'.pc \in {"cas", "idle"}
      BY <1>2, <3>1, <3>2 DEF PublishReserve, OutstandingExact, Reserved, outboxVars
    <3>3. CASE /\ publisher.count < MaxPending /\ publisher.count = outstanding_
               /\ outstanding_' = publisher.count + 1 /\ publisher'.pc = "enqueue"
      BY <1>2, <3>1, <3>3, CountsAreNat, PendingAssumption
         DEF PublishReserve, OutstandingExact, Reserved, outboxVars
    <3> QED BY <1>2, <2>2, <3>2, <3>3 DEF PublishReserve, CasSucceeds, Idle
  <2> QED BY <2>1, <2>3, <2>4 DEF TypeOK
<1>3. ASSUME PublishEnqueue
      PROVE  Inv'
  <2>1. /\ AmqpTypeOK' /\ ControlTypeOK' /\ OutboxTypeOK'
    BY <1>3, TypesUnchanged DEF PublishEnqueue
  <2>2. publisher.job \in Jobs
    BY <1>3 DEF PublishEnqueue, TypeOK, QueueTypeOK, Publisher, Idle
  <2>3. [queue |-> "main", body |-> FirstBody(publisher.job), source |-> NoDelivery]
          \in Publication
    BY <2>2, AttemptAssumption DEF Publication, FirstBody, Body, AllJobs, Queues, Source
  <2>4. QueueTypeOK'
    BY <1>3, <2>3 DEF PublishEnqueue, TypeOK, QueueTypeOK, Publisher
  <2>5. HistoryTypeOK'
    BY <1>3, <2>2 DEF PublishEnqueue, TypeOK, HistoryTypeOK
  <2>6. Len(submitted') = Len(submitted) + 1
    BY <1>3, <2>3 DEF PublishEnqueue, TypeOK, QueueTypeOK
  <2>7. OutstandingExact'
    <3>1. publisher.pc = "enqueue" /\ publisher'.pc = "idle"
      BY <1>3 DEF PublishEnqueue, Idle
    <3> QED BY <1>3, <2>6, <3>1, CountsAreNat
        DEF PublishEnqueue, OutstandingExact, Reserved, outboxVars
  <2> QED BY <2>1, <2>4, <2>5, <2>7 DEF TypeOK
<1> QED BY <1>1, <1>2, <1>3 DEF Publishing

\* The frames of an action are typed, and so is what it leaves on the wire.
LEMMA SentTypes ==
    ASSUME AmqpTypeOK, NEW frames \in Seq(ClientFrame)
    PROVE  Sent(frames) \in Seq(ClientFrame)
BY DEF Sent, AmqpTypeOK

\* A delivery that returns to its queue keeps its body.
LEMMA RequeuedTypes ==
    ASSUME AmqpTypeOK
    PROVE  Requeued \in Seq(Body)
<1>1. [i \in 1..Len(unacked) |-> unacked[i].body] \in Seq(Body)
  <2>1. unacked \in Seq(Delivery) /\ Len(unacked) \in Nat
    BY DEF AmqpTypeOK
  <2>2. \A i \in 1..Len(unacked) : unacked[i] \in Delivery
    BY <2>1
  <2>3. \A i \in 1..Len(unacked) : unacked[i].body \in Body
    BY <2>2 DEF Delivery
  <2> QED BY <2>1, <2>3
<1> QED BY <1>1 DEF Requeued, AmqpTypeOK

\* A closed connection leaves the broker well-typed.
LEMMA CloseLinkTypes ==
    ASSUME AmqpTypeOK, NEW state \in {"none", "up", "broken"},
           NEW unread \in Seq(BrokerFrame), CloseLink(state, unread), faults' \in 0..MaxFaults
    PROVE  AmqpTypeOK'
BY RequeuedTypes, EmptySeq DEF CloseLink, AmqpTypeOK

\* Functors and timers: the functor of schedulePublish moves one publication, a
\* retry timer adds one, disconnect loses none.
LEMMA LoopingPreserves ==
    ASSUME Inv, Looping
    PROVE  Inv'
<1> USE DEF Inv
<1>1. ASSUME RunSubmitted
      PROVE  Inv'
  <2> DEFINE item == Head(submitted)
             waiting == Append(pending_, item)
  <2>1. /\ submitted \in Seq(Publication) /\ submitted # <<>>
        /\ pending_ \in Seq(Publication)
    BY <1>1 DEF RunSubmitted, TypeOK, QueueTypeOK, OutboxTypeOK
  <2>2. /\ item \in Publication
        /\ Tail(submitted) \in Seq(Publication) /\ Len(Tail(submitted)) = Len(submitted) - 1
    BY <2>1
  <2>3. waiting \in Seq(Publication) /\ Len(waiting) = Len(pending_) + 1
    BY <2>1, <2>2
  <2>4. DrainPending(producerReady_, waiting, inflight_, <<>>)
    BY <1>1 DEF RunSubmitted
  <2>5. /\ OutboxTypeOK' /\ toBroker' \in Seq(ClientFrame) /\ faults' \in 0..MaxFaults
        /\ producerReady_' \in BOOLEAN /\ recovering_' \in BOOLEAN
        /\ recoverQueued' \in BOOLEAN
        /\ Waiting' = Len(waiting) + Cardinality(DOMAIN inflight_)
    BY <2>3, <2>4, DrainPendingMoves, OutboxParts, EmptySeq
  <2>6. AmqpTypeOK'
    BY <1>1, <2>5 DEF RunSubmitted, TypeOK, AmqpTypeOK, storeVars
  <2>7. ControlTypeOK'
    BY <1>1, <2>5 DEF RunSubmitted, TypeOK, ControlTypeOK, setupVars, timerVars
  <2>8. QueueTypeOK'
    BY <1>1, <2>2 DEF RunSubmitted, TypeOK, QueueTypeOK, timerVars
  <2>9. HistoryTypeOK'
    BY <1>1, TypesUnchanged DEF RunSubmitted
  <2>10. OutstandingExact'
    <3>1. /\ Len(submitted') = Len(submitted) - 1
          /\ UNCHANGED <<outstanding_, publisher>>
      BY <1>1, <2>2 DEF RunSubmitted
    <3>2. Waiting' = Len(pending_) + 1 + Cardinality(DOMAIN inflight_)
      BY <2>3, <2>5
    <3> HIDE DEF waiting, item
    <3> QED BY <2>5, <3>1, <3>2, CountSplit
  <2> QED BY <2>5, <2>6, <2>7, <2>8, <2>9, <2>10 DEF TypeOK
<1>2. ASSUME RunCompletion
      PROVE  Inv'
  <2> DEFINE done == Head(completions)
  <2>1. /\ done \in Completion /\ Tail(completions) \in Seq(Completion)
    BY <1>2 DEF RunCompletion, TypeOK, QueueTypeOK
  <2>2. Replacement(done) \in RetryTimer
    <3>1. /\ done.gen \in Nat /\ done.tag \in Nat \ {0} /\ done.body \in Body
      BY <2>1 DEF Completion
    <3>2. ASSUME done.body.attempt < MaxAttempt
          PROVE  [done.body EXCEPT !.attempt = @ + 1] \in Body
      BY <3>1, <3>2, AttemptAssumption DEF Body
    <3>3. \A queue \in Queues, body \in Body : Replaces(done, queue, body) \in RetryTimer
      BY <3>1 DEF Replaces, RetryTimer
    <3> HIDE DEF done
    <3> QED BY <3>1, <3>2, <3>3 DEF Replacement, Queues
  <2>3. <<AckFrame(done.tag)>> \in Seq(ClientFrame)
    BY <2>1 DEF Completion, AckFrame, ClientFrame
  <2>4. AmqpTypeOK'
    BY <1>2, <2>3, SentTypes DEF RunCompletion, TypeOK, AmqpTypeOK, storeVars
  <2>5. QueueTypeOK'
    BY <1>2, <2>1, <2>2 DEF RunCompletion, TypeOK, QueueTypeOK
  <2>6. /\ ControlTypeOK' /\ OutboxTypeOK' /\ HistoryTypeOK'
    BY <1>2, TypesUnchanged DEF RunCompletion
  <2>7. OutstandingExact'
    BY <1>2, CountUnchanged DEF RunCompletion, outboxVars
  <2> QED BY <2>4, <2>5, <2>6, <2>7 DEF TypeOK
<1>3. ASSUME RunRecover
      PROVE  Inv'
  <2>1. Reclaimed \in Seq(Publication) /\ Len(Reclaimed) = Waiting
    BY ReclaimedMoves DEF TypeOK
  <2>2. AmqpTypeOK'
    <3>1. CloseLink("none", <<>>) /\ AmqpTypeOK /\ faults' \in 0..MaxFaults
      BY <1>3 DEF RunRecover, TypeOK, AmqpTypeOK
    <3> QED BY <3>1, CloseLinkTypes, EmptySeq
  <2>3. ControlTypeOK'
    <3>1. /\ recoverQueued' = FALSE /\ producerReady_' = FALSE /\ reconnectScheduled_' = TRUE
          /\ connection_' = "none" /\ producerSetup' = "none" /\ consumerSetup' = "none"
          /\ generation_' = generation_ + 1 /\ UNCHANGED <<handler_, recovering_>>
      BY <1>3 DEF RunRecover
    <3>2. generation_' \in Nat
      BY <3>1 DEF TypeOK, ControlTypeOK
    <3> QED BY <3>1, <3>2, Zenon DEF TypeOK, ControlTypeOK
  <2>4. OutboxTypeOK' /\ DOMAIN inflight_' = {}
    BY <1>3, <2>1 DEF RunRecover, OutboxTypeOK
  <2>5. QueueTypeOK' /\ HistoryTypeOK'
    BY <1>3, TypesUnchanged DEF RunRecover
  <2>6. Cardinality(DOMAIN inflight_') = 0
    BY <2>4, FS_EmptySet
  <2>7. OutstandingExact'
    BY <1>3, <2>1, <2>6, CountsAreNat 
       DEF RunRecover, OutstandingExact, Reserved, Waiting, queueVars
  <2> QED BY <2>2, <2>3, <2>4, <2>5, <2>7 DEF TypeOK
<1>4. ASSUME ReconnectTimerFires
      PROVE  Inv'
  <2>1. /\ AmqpTypeOK' /\ OutboxTypeOK' /\ QueueTypeOK' /\ HistoryTypeOK'
    BY <1>4, TypesUnchanged DEF ReconnectTimerFires
  <2>2. ControlTypeOK'
    BY <1>4 DEF ReconnectTimerFires, Connect, TypeOK, ControlTypeOK
  <2>3. OutstandingExact'
    BY <1>4, CountUnchanged DEF ReconnectTimerFires, outboxVars, queueVars
  <2> QED BY <2>1, <2>2, <2>3 DEF TypeOK
<1>5. ASSUME NEW timer \in retryTimers, RetryTimerFires(timer)
      PROVE  Inv'
  <2> DEFINE item == [queue |-> timer.queue, body |-> timer.body,
                      source |-> [gen |-> timer.gen, tag |-> timer.tag]]
  <2>1. timer \in RetryTimer
    BY DEF TypeOK, QueueTypeOK
  <2>2. item \in Publication /\ <<RejectFrame(timer.tag)>> \in Seq(ClientFrame)
    BY <2>1 DEF RetryTimer, Publication, Source, RejectFrame, ClientFrame
  <2>3. toBroker' \in Seq(ClientFrame)
    BY <1>5, <2>2, SentTypes DEF RetryTimerFires, GivenBack, TypeOK, AmqpTypeOK
  <2>4. AmqpTypeOK'
    BY <1>5, <2>3 DEF RetryTimerFires, TypeOK, AmqpTypeOK, storeVars
  <2>5. /\ submitted \in Seq(Publication)
        /\ Append(submitted, item) \in Seq(Publication)
        /\ Len(Append(submitted, item)) = Len(submitted) + 1
    BY <2>2 DEF TypeOK, QueueTypeOK
  <2>6. QueueTypeOK'
    <3>1. /\ retryTimers' \subseteq retryTimers /\ UNCHANGED <<publisher, completions>>
          /\ \/ UNCHANGED <<outstanding_, submitted>>
             \/ outstanding_' = outstanding_ + 1 /\ submitted' = Append(submitted, item)
      BY <1>5 DEF RetryTimerFires
    <3> HIDE DEF item
    <3> QED BY <3>1, <2>5 DEF TypeOK, QueueTypeOK
  <2>7. /\ ControlTypeOK' /\ OutboxTypeOK' /\ HistoryTypeOK'
    BY <1>5, TypesUnchanged DEF RetryTimerFires
  <2>8. OutstandingExact'
    <3>1. CASE UNCHANGED <<outstanding_, submitted>>
      BY <1>5, <3>1, CountUnchanged DEF RetryTimerFires, outboxVars
    <3>2. CASE /\ outstanding_ < MaxPending /\ outstanding_' = outstanding_ + 1
               /\ submitted' = Append(submitted, item)
      <4>1. UNCHANGED <<publisher, pending_, inflight_>>
        BY <1>5 DEF RetryTimerFires, outboxVars
      <4>2. Len(submitted') = Len(submitted) + 1
        BY <2>5, <3>2
      <4>3. Reserved' = Reserved
        BY <4>1 DEF Reserved
      <4> QED BY <3>2, <4>1, <4>2, <4>3, CountsAreNat, PendingAssumption DEF OutstandingExact
    <3> QED BY <1>5, <3>1, <3>2 DEF RetryTimerFires
  <2> QED BY <2>4, <2>6, <2>7, <2>8 DEF TypeOK
<1> QED BY <1>1, <1>2, <1>3, <1>4, <1>5 DEF Looping

\* None of the connection callbacks but the last touches the outbox.
LEMMA ConnectingPreserves ==
    ASSUME Inv, Connecting
    PROVE  Inv'
<1> USE DEF Inv
<1>1. ASSUME OnConnected
      PROVE  Inv'
  <2>1. AmqpTypeOK'
    BY <1>1 DEF OnConnected, OpenLink, TypeOK, AmqpTypeOK
  <2>2. ControlTypeOK'
    BY <1>1, Zenon DEF OnConnected, TypeOK, ControlTypeOK, recoverVars, timerVars
  <2>3. OutboxTypeOK' /\ QueueTypeOK' /\ HistoryTypeOK'
    BY <1>1, TypesUnchanged DEF OnConnected, timerVars
  <2>4. OutstandingExact'
    BY <1>1, CountUnchanged DEF OnConnected, outboxVars, queueVars
  <2> QED BY <2>1, <2>2, <2>3, <2>4 DEF TypeOK
<1>2. ASSUME OnError \/ OnLost
      PROVE  Inv'
  <2>1. AmqpTypeOK'
    <3>1. UNCHANGED brokerVars /\ faults' \in 0..MaxFaults
      BY <1>2, BoundsAssumption DEF OnError, OnLost, Fault, TypeOK, AmqpTypeOK
    <3> QED BY <3>1 DEF TypeOK, AmqpTypeOK, brokerVars, storeVars
  <2>2. ControlTypeOK'
    BY <1>2, Zenon
       DEF OnError, OnLost, ConnectionFailed, TypeOK, ControlTypeOK, setupVars, timerVars
  <2>3. OutboxTypeOK' /\ QueueTypeOK' /\ HistoryTypeOK'
    BY <1>2, TypesUnchanged DEF OnError, OnLost, timerVars
  <2>4. OutstandingExact'
    BY <1>2, CountUnchanged DEF OnError, OnLost, outboxVars, queueVars
  <2> QED BY <2>1, <2>2, <2>3, <2>4 DEF TypeOK
<1>3. ASSUME ProducerMainDeclared \/ ProducerDeadDeclared
      PROVE  Inv'
  <2>1. AmqpTypeOK'
    BY <1>3 DEF ProducerMainDeclared, ProducerDeadDeclared, DeclareOnProducer, TypeOK,
                AmqpTypeOK, Queues
  <2>2. ControlTypeOK'
    BY <1>3, Zenon DEF ProducerMainDeclared, ProducerDeadDeclared, DeclareOnProducer,
                TypeOK, ControlTypeOK, recoverVars, timerVars
  <2>3. OutboxTypeOK' /\ QueueTypeOK' /\ HistoryTypeOK'
    BY <1>3, TypesUnchanged
       DEF ProducerMainDeclared, ProducerDeadDeclared, DeclareOnProducer, timerVars
  <2>4. OutstandingExact'
    BY <1>3, CountUnchanged DEF ProducerMainDeclared, ProducerDeadDeclared,
                DeclareOnProducer, outboxVars, queueVars
  <2> QED BY <2>1, <2>2, <2>3, <2>4 DEF TypeOK
<1>4. ASSUME ProducerConfirmSelected
      PROVE  Inv'
  <2>1. DrainPending(TRUE, pending_, inflight_, <<>>)
    BY <1>4 DEF ProducerConfirmSelected
  <2>2. /\ OutboxTypeOK' /\ toBroker' \in Seq(ClientFrame) /\ faults' \in 0..MaxFaults
        /\ producerReady_' \in BOOLEAN /\ recovering_' \in BOOLEAN
        /\ recoverQueued' \in BOOLEAN
        /\ Waiting' = Len(pending_) + Cardinality(DOMAIN inflight_)
    BY <2>1, DrainPendingMoves, OutboxParts, EmptySeq
  <2>3. AmqpTypeOK'
    BY <1>4, <2>2 DEF ProducerConfirmSelected, TypeOK, AmqpTypeOK, storeVars
  <2>4. ControlTypeOK'
    BY <1>4, <2>2, Zenon DEF ProducerConfirmSelected, TypeOK, ControlTypeOK, timerVars
  <2>5. QueueTypeOK' /\ HistoryTypeOK'
    BY <1>4, TypesUnchanged DEF ProducerConfirmSelected, timerVars
  <2>6. OutstandingExact'
    <3>1. /\ UNCHANGED <<publisher, submitted>> /\ outstanding_' = outstanding_ - 0
          /\ Waiting' = Len(pending_) + Cardinality(DOMAIN inflight_) - 0
      BY <1>4, <2>2, CountsAreNat DEF ProducerConfirmSelected, queueVars
    <3> QED BY <2>2, <3>1, OutboxCount
  <2> QED BY <2>2, <2>3, <2>4, <2>5, <2>6 DEF TypeOK
<1>5. ASSUME ConsumerStarted
      PROVE  Inv'
  <2>1. AmqpTypeOK'
    BY <1>5 DEF ConsumerStarted, TypeOK, AmqpTypeOK, Queues
  <2>2. ControlTypeOK'
    BY <1>5, Zenon DEF ConsumerStarted, TypeOK, ControlTypeOK, recoverVars, timerVars
  <2>3. OutboxTypeOK' /\ QueueTypeOK' /\ HistoryTypeOK'
    BY <1>5, TypesUnchanged DEF ConsumerStarted, timerVars
  <2>4. OutstandingExact'
    BY <1>5, CountUnchanged DEF ConsumerStarted, outboxVars, queueVars
  <2> QED BY <2>1, <2>2, <2>3, <2>4 DEF TypeOK
<1> QED BY <1>1, <1>2, <1>3, <1>4, <1>5 DEF Connecting

\* A delivery only reads the outbox; a confirm takes its tags out of it.
LEMMA ReceivingPreserves ==
    ASSUME Inv, Receiving
    PROVE  Inv'
<1> USE DEF Inv
<1>1. ASSUME NEW stored \in BOOLEAN, NEW result \in Disposition,
             Receives("deliver"), Delivered(stored, result),
             stored => Head(toClient).body.job \in Jobs, faults' \in 0..MaxFaults
      PROVE  Inv'
  <2> DEFINE frame == Head(toClient)
  <2>1. toClient \in Seq(BrokerFrame) /\ toClient # <<>>
    BY <1>1 DEF Receives, TypeOK, AmqpTypeOK
  <2>2. frame \in BrokerFrame /\ Tail(toClient) \in Seq(BrokerFrame)
    BY <2>1
  <2>3. frame.tag \in Nat \ {0} /\ frame.body \in Body
    BY <1>1, <2>2 DEF Receives, BrokerFrame
  <2>4. frame.body.job \in AllJobs
    BY <2>3 DEF Body
  <2>5. [gen |-> generation_, tag |-> frame.tag, result |-> result, body |-> frame.body]
          \in Completion
    BY <2>3 DEF Completion, TypeOK, ControlTypeOK
  <2>6. AmqpTypeOK'
    BY <1>1, <2>2 DEF Delivered, TypeOK, AmqpTypeOK, storeVars
  <2>7. QueueTypeOK'
    <3>1. completions' \in Seq(Completion)
      BY <1>1, <2>5 DEF Delivered, TypeOK, QueueTypeOK
    <3> QED BY <1>1, <3>1 DEF Delivered, TypeOK, QueueTypeOK, timerVars
  <2>8. HistoryTypeOK'
    <3>1. database' \in SUBSET Jobs
      BY <1>1 DEF Delivered, TypeOK, HistoryTypeOK
    <3>2. failures' \in [AllJobs -> Nat]
      BY <1>1, <2>4 DEF Delivered, TypeOK, HistoryTypeOK
    <3> QED BY <1>1, <3>1, <3>2 DEF Delivered, TypeOK, HistoryTypeOK
  <2>9. ControlTypeOK' /\ OutboxTypeOK'
    BY <1>1, TypesUnchanged DEF Delivered, timerVars
  <2>10. OutstandingExact'
    BY <1>1, CountUnchanged DEF Delivered, outboxVars
  <2> QED BY <2>6, <2>7, <2>8, <2>9, <2>10 DEF TypeOK
<1>2. ASSUME Persisted \/ PersistFails \/ ParseFails
      PROVE  Inv'
  <2>1. CASE Persisted
    BY <1>1, <2>1 DEF Persisted, Disposition, TypeOK, AmqpTypeOK
  <2>2. CASE PersistFails
    <3>1. faults' \in 0..MaxFaults
      BY <2>2, BoundsAssumption DEF PersistFails, Fault, TypeOK, AmqpTypeOK
    <3> QED BY <1>1, <2>2, <3>1 DEF PersistFails, Disposition
  <2>3. CASE ParseFails
    BY <1>1, <2>3 DEF ParseFails, Disposition, TypeOK, AmqpTypeOK
  <2> QED BY <1>2, <2>1, <2>2, <2>3
<1>3. ASSUME OnAck
      PROVE  Inv'
  <2>1. toClient' \in Seq(BrokerFrame)
    BY <1>3 DEF OnAck, Receives, TypeOK, AmqpTypeOK
  <2>2. CASE UNCHANGED <<toBroker, faults, recoverVars, outboxVars, outstanding_, confirmed>>
    <3>1. AmqpTypeOK'
      BY <1>3, <2>1, <2>2 DEF OnAck, TypeOK, AmqpTypeOK, storeVars
    <3>2. ControlTypeOK' /\ OutboxTypeOK' /\ QueueTypeOK' /\ HistoryTypeOK'
      BY <1>3, <2>2, TypesUnchanged DEF OnAck, timerVars, historyVars
    <3>3. OutstandingExact'
      BY <1>3, <2>2, CountUnchanged DEF OnAck, outboxVars, queueVars
    <3> QED BY <3>1, <3>2, <3>3 DEF TypeOK
  <2>3. CASE Confirm(Head(toClient))
    <3> DEFINE tags == Confirmable(Head(toClient))
               rest == [t \in DOMAIN inflight_ \ tags |-> inflight_[t]]
               gone == Cardinality(tags)
    <3>1. /\ outstanding_' = outstanding_ - gone
          /\ confirmed' = confirmed \cup {inflight_[t].body.job : t \in tags}
          /\ DrainPending(producerReady_, pending_, rest, CompletionAcks(tags))
      BY <2>3 DEF Confirm
    <3>2. tags \subseteq DOMAIN inflight_
      BY DEF Confirmable
    <3>3. CompletionAcks(tags) \in Seq(ClientFrame)
      BY <3>2, CompletionAcksAreFrames DEF TypeOK
    <3>4. /\ DOMAIN rest = DOMAIN inflight_ \ tags
          /\ rest \in [DOMAIN rest -> Publication]
          /\ DOMAIN rest \subseteq 1..(nextPublishTag_ - 1)
      BY OutboxParts
    <3>5. /\ gone \in Nat
          /\ Cardinality(DOMAIN rest) = Cardinality(DOMAIN inflight_) - gone
      <4>1. IsFiniteSet(DOMAIN inflight_) /\ IsFiniteSet(tags) /\ gone \in Nat
        BY <3>2, OutboxParts, BoundedTagsFinite, FS_Subset, FS_CardinalityType
      <4>2. DOMAIN inflight_ \cap tags = tags
        BY <3>2
      <4> QED BY <3>4, <4>1, <4>2, FS_Difference
    <3>6. /\ OutboxTypeOK' /\ toBroker' \in Seq(ClientFrame) /\ faults' \in 0..MaxFaults
          /\ producerReady_' \in BOOLEAN /\ recovering_' \in BOOLEAN
          /\ recoverQueued' \in BOOLEAN
          /\ Waiting' = Len(pending_) + Cardinality(DOMAIN rest)
      <4> HIDE DEF rest, tags
      <4> QED BY <3>1, <3>3, <3>4, DrainPendingMoves, OutboxParts
    <3>7. AmqpTypeOK'
      BY <1>3, <2>1, <3>6 DEF OnAck, TypeOK, AmqpTypeOK, storeVars
    <3>8. ControlTypeOK'
      BY <1>3, <3>6, Zenon DEF OnAck, TypeOK, ControlTypeOK, setupVars, timerVars
    <3>9. outstanding_' \in Nat
      <4> DEFINE flying == Cardinality(DOMAIN inflight_)
                 left   == Cardinality(DOMAIN rest)
                 queued == Len(submitted)
                 kept   == Len(pending_)
      <4>1. left \in Nat /\ left = flying - gone
        BY <3>4, <3>5, OutboxParts, BoundedTagsFinite
      <4>2. /\ outstanding_ = Reserved + queued + kept + flying
            /\ Reserved \in Nat /\ queued \in Nat /\ kept \in Nat /\ flying \in Nat
        BY CountsAreNat DEF OutstandingExact
      <4> HIDE DEF flying, left, queued, kept, gone, rest
      <4> QED BY <3>1, <3>5, <4>1, <4>2
    <3>10. QueueTypeOK'
      BY <1>3, <3>9 DEF OnAck, TypeOK, QueueTypeOK, queueVars, timerVars
    <3>11. HistoryTypeOK'
      <4>1. \A t \in tags : inflight_[t].body.job \in AllJobs
        BY <3>2, OutboxParts DEF Publication, Body
      <4>2. confirmed' \in SUBSET AllJobs
        BY <3>1, <4>1 DEF TypeOK, HistoryTypeOK
      <4> QED BY <1>3, <4>2 DEF OnAck, TypeOK, HistoryTypeOK
    <3>12. OutstandingExact'
      <4>1. Waiting' = Len(pending_) + Cardinality(DOMAIN inflight_) - gone
        <5> HIDE DEF gone, rest
        <5> QED BY <3>5, <3>6, CountsAreNat
      <4>2. UNCHANGED <<publisher, submitted>>
        BY <1>3 DEF OnAck, queueVars
      <4> HIDE DEF gone
      <4> QED BY <3>1, <3>5, <3>6, <4>1, <4>2, OutboxCount
    <3> QED BY <3>6, <3>7, <3>8, <3>10, <3>11, <3>12 DEF TypeOK
  <2> QED BY <1>3, <2>2, <2>3 DEF OnAck
<1>4. ASSUME OnNackOrReturn
      PROVE  Inv'
  <2>1. toClient' \in Seq(BrokerFrame)
    BY <1>4 DEF OnNackOrReturn, Receives, TypeOK, AmqpTypeOK
  <2>2. AmqpTypeOK'
    BY <1>4, <2>1 DEF OnNackOrReturn, TypeOK, AmqpTypeOK, storeVars
  <2>3. ControlTypeOK'
    BY <1>4, Zenon DEF OnNackOrReturn, PublishRefused, ConnectionFailed, TypeOK,
                       ControlTypeOK, setupVars, timerVars
  <2>4. OutboxTypeOK' /\ QueueTypeOK' /\ HistoryTypeOK'
    BY <1>4, TypesUnchanged DEF OnNackOrReturn, timerVars
  <2>5. OutstandingExact'
    BY <1>4, CountUnchanged DEF OnNackOrReturn, outboxVars, queueVars
  <2> QED BY <2>2, <2>3, <2>4, <2>5 DEF TypeOK
<1> QED BY <1>2, <1>3, <1>4 DEF Receiving

\* The broker's own steps touch nothing of the handler.
LEMMA BrokeringPreserves ==
    ASSUME Inv, Brokering
    PROVE  Inv'
<1> USE DEF Inv
<1>1. /\ ControlTypeOK' /\ OutboxTypeOK' /\ QueueTypeOK' /\ HistoryTypeOK'
      /\ OutstandingExact'
  <2>1. UNCHANGED handlerVars
    BY DEF Brokering
  <2>2. ControlTypeOK' /\ OutboxTypeOK' /\ QueueTypeOK' /\ HistoryTypeOK'
    BY <2>1, TypesUnchanged DEF handlerVars, timerVars
  <2>3. OutstandingExact'
    BY <2>1, CountUnchanged DEF handlerVars, outboxVars, queueVars
  <2> QED BY <2>2, <2>3
<1>2. AmqpTypeOK
  BY DEF TypeOK
<1>3. ASSUME Fault
      PROVE  faults' \in 0..MaxFaults
  BY <1>2, <1>3, BoundsAssumption DEF Fault, AmqpTypeOK
<1>4. toBroker # <<>> =>
          Head(toBroker) \in ClientFrame /\ Tail(toBroker) \in Seq(ClientFrame)
  BY <1>2 DEF AmqpTypeOK
<1>5. \A f \in BrokerFrame : Append(toClient, f) \in Seq(BrokerFrame)
  BY <1>2 DEF AmqpTypeOK
<1>6. received + 1 \in Nat \ {0} /\ deliveries + 1 \in Nat \ {0}
  BY <1>2 DEF AmqpTypeOK
<1>7. CASE LinkBreaks
  <2>1. CloseLink("broken", toClient) /\ faults' \in 0..MaxFaults
    BY <1>3, <1>7 DEF LinkBreaks
  <2>2. AmqpTypeOK'
    BY <1>2, <2>1, CloseLinkTypes DEF AmqpTypeOK
  <2> QED BY <1>1, <2>2 DEF TypeOK
<1>8. CASE BrokerStores
  <2>1. Head(toBroker).queue \in Queues /\ Head(toBroker).body \in Body
    BY <1>4, <1>8 DEF BrokerStores, ClientFrame
  <2>2. mainQueue' \in Seq(Body)
    BY <1>2, <1>8, <2>1 DEF BrokerStores, AmqpTypeOK
  <2>3. deadQueue' \in SUBSET Body
    BY <1>2, <1>8, <2>1 DEF BrokerStores, AmqpTypeOK
  <2>4. /\ toBroker' \in Seq(ClientFrame) /\ received' \in Nat
        /\ unconfirmed' \in SUBSET (Nat \ {0})
    BY <1>2, <1>4, <1>6, <1>8 DEF BrokerStores, AmqpTypeOK
  <2>5. AmqpTypeOK'
    BY <1>2, <1>8, <2>2, <2>3, <2>4 DEF BrokerStores, AmqpTypeOK
  <2> QED BY <1>1, <2>5 DEF TypeOK
<1>9. CASE BrokerNacks
  <2>1. [type |-> "nack", tag |-> received + 1] \in BrokerFrame
    BY <1>6 DEF BrokerFrame
  <2>2. AmqpTypeOK'
    BY <1>2, <1>3, <1>4, <1>5, <1>6, <1>9, <2>1 DEF BrokerNacks, AmqpTypeOK
  <2> QED BY <1>1, <2>2 DEF TypeOK
<1>10. CASE BrokerReturns
  <2> DEFINE back == [type |-> "return"]
             conf == [type |-> "confirm", tag |-> received + 1, multiple |-> FALSE]
  <2>1. back \in BrokerFrame /\ conf \in BrokerFrame
    BY <1>6 DEF BrokerFrame
  <2>2. toClient' = toClient \o <<back, conf>>
    BY <1>10 DEF BrokerReturns
  <2>3. toClient' \in Seq(BrokerFrame)
    <3> HIDE DEF back, conf
    <3> QED BY <1>2, <2>1, <2>2 DEF AmqpTypeOK
  <2>4. AmqpTypeOK'
    BY <1>2, <1>4, <1>6, <1>10, <2>3 DEF BrokerReturns, AmqpTypeOK
  <2> QED BY <1>1, <2>4 DEF TypeOK
<1>11. CASE BrokerConfirmsSome
  <2>1. PICK tag \in unconfirmed, multiple \in BOOLEAN : BrokerConfirms(tag, multiple)
    BY <1>11 DEF BrokerConfirmsSome
  <2>2. unconfirmed' \subseteq unconfirmed
    BY <2>1 DEF BrokerConfirms
  <2>3. [type |-> "confirm", tag |-> tag, multiple |-> multiple] \in BrokerFrame
    BY <1>2 DEF BrokerFrame, AmqpTypeOK
  <2>4. AmqpTypeOK'
    BY <1>2, <1>5, <2>1, <2>2, <2>3 DEF BrokerConfirms, AmqpTypeOK
  <2> QED BY <1>1, <2>4 DEF TypeOK
<1>12. CASE BrokerAcked
  <2>1. unacked' \in Seq(Delivery)
    BY <1>2, <1>12, EmptySeq DEF BrokerAcked, AmqpTypeOK
  <2>2. AmqpTypeOK'
    BY <1>2, <1>4, <1>12, <2>1 DEF BrokerAcked, AmqpTypeOK
  <2> QED BY <1>1, <2>2 DEF TypeOK
<1>13. CASE BrokerRejected
  <2>1. unacked' \in Seq(Delivery)
    BY <1>2, <1>13, EmptySeq DEF BrokerRejected, AmqpTypeOK
  <2>2. mainQueue' \in Seq(Body)
    BY <1>2, <1>13, RequeuedTypes DEF BrokerRejected, AmqpTypeOK
  <2>3. AmqpTypeOK'
    BY <1>2, <1>4, <1>13, <2>1, <2>2 DEF BrokerRejected, AmqpTypeOK
  <2> QED BY <1>1, <2>3 DEF TypeOK
<1>14. CASE BrokerDelivers
  <2>1. Head(mainQueue) \in Body /\ Tail(mainQueue) \in Seq(Body)
    BY <1>2, <1>14 DEF BrokerDelivers, AmqpTypeOK
  <2>2. [type |-> "deliver", tag |-> deliveries + 1, body |-> Head(mainQueue)]
          \in BrokerFrame
    BY <1>6, <2>1 DEF BrokerFrame
  <2>3. [tag |-> deliveries + 1, body |-> Head(mainQueue)] \in Delivery
    BY <1>6, <2>1 DEF Delivery
  <2>4. unacked' \in Seq(Delivery)
    BY <1>14, <2>3 DEF BrokerDelivers
  <2>5. toClient' \in Seq(BrokerFrame)
    BY <1>5, <1>14, <2>2 DEF BrokerDelivers
  <2>6. AmqpTypeOK'
    BY <1>2, <1>6, <1>14, <2>1, <2>4, <2>5 DEF BrokerDelivers, AmqpTypeOK
  <2> QED BY <1>1, <2>6 DEF TypeOK
<1>15. CASE DeadQueueDeleted
  <2>1. AmqpTypeOK'
    BY <1>2, <1>3, <1>15 DEF DeadQueueDeleted, AmqpTypeOK
  <2> QED BY <1>1, <2>1 DEF TypeOK
<1> QED BY <1>7, <1>8, <1>9, <1>10, <1>11, <1>12, <1>13, <1>14, <1>15 DEF Brokering

\* A handler that starts has an empty outbox; one that ends takes its outbox along.
LEMMA LifecyclePreserves ==
    ASSUME Inv, Start \/ Shutdown \/ Crash
    PROVE  Inv'
<1> USE DEF Inv
<1>1. ASSUME Start
      PROVE  Inv'
  <2>1. /\ AmqpTypeOK' /\ OutboxTypeOK' /\ QueueTypeOK' /\ HistoryTypeOK'
    BY <1>1, TypesUnchanged DEF Start, timerVars
  <2>2. ControlTypeOK'
    BY <1>1, Zenon DEF Start, Connect, TypeOK, ControlTypeOK, timerVars
  <2>3. OutstandingExact'
    BY <1>1, CountUnchanged DEF Start, outboxVars, queueVars
  <2> QED BY <2>1, <2>2, <2>3 DEF TypeOK
<1>2. ASSUME NoHandler, Fault
      PROVE  Inv'
  <2>1. faults' \in 0..MaxFaults
    BY <1>2, BoundsAssumption DEF Fault, TypeOK, AmqpTypeOK
  <2>2. AmqpTypeOK'
    BY <1>2, <2>1, CloseLinkTypes, EmptySeq DEF NoHandler, TypeOK
  <2>3. ControlTypeOK'
    BY <1>2 DEF NoHandler, ControlTypeOK
  <2>4. OutboxTypeOK' /\ DOMAIN inflight_' = {}
    BY <1>2, EmptySeq DEF NoHandler, OutboxTypeOK
  <2>5. QueueTypeOK'
    BY <1>2, EmptySeq DEF NoHandler, QueueTypeOK, Publisher
  <2>6. HistoryTypeOK'
    BY <1>2 DEF NoHandler, TypeOK, HistoryTypeOK
  <2>7. Cardinality(DOMAIN inflight_') = 0
    BY <2>4, FS_EmptySet
  <2>8. OutstandingExact'
    BY <1>2, <2>7, PendingAssumption DEF NoHandler, OutstandingExact, Reserved, Idle
  <2> QED BY <2>2, <2>3, <2>4, <2>5, <2>6, <2>8 DEF TypeOK
<1> QED BY <1>1, <1>2 DEF Shutdown, Crash

\* The first state: an idle process and the backlog of an earlier release.
LEMMA InitHolds ==
    ASSUME Init
    PROVE  Inv
<1>1. PICK backlog \in [1..Cardinality(Legacy) -> {FirstBody(j) : j \in Legacy}] :
          AmqpInit(backlog)
  BY DEF Init
<1>2. backlog \in Seq(Body)
  <2>1. Cardinality(Legacy) \in Nat
    BY JobsAssumption, FS_CardinalityType
  <2>2. {FirstBody(j) : j \in Legacy} \subseteq Body
    BY AttemptAssumption DEF FirstBody, Body, AllJobs
  <2> QED BY <2>1, <2>2
<1>3. AmqpTypeOK
  BY <1>1, <1>2, BoundsAssumption, EmptySeq DEF AmqpInit, AmqpTypeOK, Queues
<1>4. ControlTypeOK
  BY DEF Init, ControlTypeOK
<1>5. OutboxTypeOK /\ DOMAIN inflight_ = {}
  BY EmptySeq DEF Init, OutboxTypeOK
<1>6. QueueTypeOK
  BY EmptySeq DEF Init, QueueTypeOK, Publisher
<1>7. HistoryTypeOK
  BY DEF Init, HistoryTypeOK
<1>8. Cardinality(DOMAIN inflight_) = 0
  BY <1>5, FS_EmptySet
<1>9. OutstandingExact
  BY <1>8, PendingAssumption DEF Init, OutstandingExact, Reserved, Idle
<1> QED BY <1>3, <1>4, <1>5, <1>6, <1>7, <1>9 DEF Inv, TypeOK

\* A step in which nothing changes.
LEMMA StutteringPreserves ==
    ASSUME Inv, UNCHANGED vars
    PROVE  Inv'
<1> USE DEF Inv
<1>1. UNCHANGED <<brokerVars, faults>> /\ UNCHANGED handlerVars
  BY DEF vars
<1>2. TypeOK'
  BY <1>1, TypesUnchanged DEF TypeOK, handlerVars, timerVars
<1>3. OutstandingExact'
  BY <1>1, CountUnchanged DEF handlerVars, outboxVars, queueVars
<1> QED BY <1>2, <1>3

-----------------------------------------------------------------------------
(* The theorems *)

\* Types and count together are inductive: what a confirm subtracts from
\* outstanding_ is only known to be at most outstanding_ because the count is exact,
\* and the count only makes sense while the keys of inflight_ are finitely many.
THEOREM InvCorrect == Spec => []Inv
<1>1. Init => Inv
  BY InitHolds
<1>2. Inv /\ [Next]_vars => Inv'
  BY PublishingPreserves, LoopingPreserves, ConnectingPreserves, ReceivingPreserves,
     BrokeringPreserves, LifecyclePreserves, StutteringPreserves DEF Next
<1> QED BY <1>1, <1>2, PTL DEF Spec

\* Every variable of MQManager::Handler and of the broker keeps its type.
THEOREM TypeCorrect == Spec => []TypeOK
<1>1. Inv => TypeOK
  BY DEF Inv
<1> QED BY <1>1, InvCorrect, PTL

\* MQManager::publish and completeDelivery admit at most MaxPending publications,
\* and every place is given back by exactly one confirm, whatever fails in between.
THEOREM OutstandingCorrect == Spec => []OutstandingExact
<1>1. Inv => OutstandingExact
  BY DEF Inv
<1> QED BY <1>1, InvCorrect, PTL

-----------------------------------------------------------------------------
(* Counting the entries of a sequence, or of inflight_, that lie in a set *)

Hits(f, P) == {i \in DOMAIN f : f[i] \in P}
HitCount(f, P) == Cardinality(Hits(f, P))

Bit(x, P) == IF x \in P THEN 1 ELSE 0

\* Where the entries of a concatenation come from.
LEMMA ConcatEntries ==
    ASSUME NEW S, NEW s \in Seq(S), NEW u \in Seq(S)
    PROVE  /\ s \o u \in Seq(S) /\ Len(s) \in Nat /\ Len(u) \in Nat
           /\ DOMAIN s = 1..Len(s) /\ DOMAIN u = 1..Len(u)
           /\ Len(s \o u) = Len(s) + Len(u) /\ DOMAIN (s \o u) = 1..(Len(s) + Len(u))
           /\ \A i \in 1..Len(s) : (s \o u)[i] = s[i]
           /\ \A k \in 1..Len(u) : (s \o u)[k + Len(s)] = u[k]
           /\ \A i \in DOMAIN (s \o u) :
                 \/ i \in DOMAIN s /\ (s \o u)[i] = s[i]
                 \/ \E k \in DOMAIN u : i = k + Len(s) /\ (s \o u)[i] = u[k]
<1>1. /\ s \o u \in Seq(S) /\ Len(s) \in Nat /\ Len(u) \in Nat
      /\ DOMAIN s = 1..Len(s) /\ DOMAIN u = 1..Len(u)
      /\ Len(s \o u) = Len(s) + Len(u) /\ DOMAIN (s \o u) = 1..(Len(s) + Len(u))
  OBVIOUS
<1>2. \A i \in 1..Len(s) : (s \o u)[i] = s[i]
  OBVIOUS
<1>3. ASSUME NEW k \in 1..Len(u)
      PROVE  (s \o u)[k + Len(s)] = u[k]
  BY <1>1
<1>4. ASSUME NEW i \in DOMAIN (s \o u)
      PROVE  \/ i \in DOMAIN s /\ (s \o u)[i] = s[i]
             \/ \E k \in DOMAIN u : i = k + Len(s) /\ (s \o u)[i] = u[k]
  <2>1. CASE i <= Len(s)
    BY <1>1, <1>2, <2>1
  <2>2. CASE i > Len(s)
    <3>1. i - Len(s) \in 1..Len(u) /\ i = (i - Len(s)) + Len(s)
      BY <1>1, <2>2
    <3> QED BY <1>1, <1>3, <3>1
  <2> QED BY <1>1, <2>1, <2>2
<1> QED BY <1>1, <1>2, <1>3, <1>4

\* Moving every element of a finite set of integers by the same distance.
LEMMA ShiftCount ==
    ASSUME NEW A, IsFiniteSet(A), A \subseteq Int, NEW d \in Int, NEW B,
           B = {a + d : a \in A}
    PROVE  IsFiniteSet(B) /\ Cardinality(B) = Cardinality(A)
<1> DEFINE move == [a \in A |-> a + d]
<1>1. move \in [A -> B]
  OBVIOUS
<1>2. \A a, b \in A : move[a] = move[b] => a = b
  OBVIOUS
<1>3. \A b \in B : \E a \in A : move[a] = b
  OBVIOUS
<1>4. move \in Bijection(A, B)
  BY <1>1, <1>2, <1>3 DEF Bijection, Injection, IsInjective, Surjection
<1> QED BY <1>4, FS_Bijection DEF ExistsBijection

\* The size of a disjoint union.
LEMMA DisjointCount ==
    ASSUME NEW A, IsFiniteSet(A), NEW B, IsFiniteSet(B), A \cap B = {}
    PROVE  /\ IsFiniteSet(A \cup B)
           /\ Cardinality(A \cup B) = Cardinality(A) + Cardinality(B)
           /\ Cardinality(A) \in Nat /\ Cardinality(B) \in Nat
<1>1. Cardinality(A) \in Nat /\ Cardinality(B) \in Nat
  BY FS_CardinalityType
<1>2. Cardinality(A \cap B) = 0
  BY FS_EmptySet
<1>3. /\ IsFiniteSet(A \cup B)
      /\ Cardinality(A \cup B) = Cardinality(A) + Cardinality(B) - Cardinality(A \cap B)
  BY FS_Union
<1> QED BY <1>1, <1>2, <1>3

\* The entries of a sequence that lie in a set are finitely many.
LEMMA HitsFinite ==
    ASSUME NEW S, NEW s \in Seq(S), NEW P
    PROVE  IsFiniteSet(Hits(s, P)) /\ HitCount(s, P) \in Nat /\ Hits(s, P) \subseteq 1..Len(s)
<1>1. Hits(s, P) \subseteq 1..Len(s) /\ Len(s) \in Nat
  BY DEF Hits
<1> QED BY <1>1, BoundedTagsFinite DEF HitCount

\* An entry that lies in the set is counted.
LEMMA HitCountPositive ==
    ASSUME NEW S, NEW s \in Seq(S), NEW P, NEW i \in DOMAIN s, s[i] \in P
    PROVE  HitCount(s, P) >= 1
<1>1. i \in Hits(s, P)
  BY DEF Hits
<1>2. IsFiniteSet(Hits(s, P)) /\ HitCount(s, P) \in Nat
  BY HitsFinite
<1>3. HitCount(s, P) # 0
  BY <1>1, <1>2, FS_EmptySet DEF HitCount
<1> QED BY <1>2, <1>3

\* Nothing lies in the set, nothing is counted.
LEMMA HitCountZero ==
    ASSUME NEW f, NEW P, \A i \in DOMAIN f : f[i] \notin P
    PROVE  HitCount(f, P) = 0
<1>1. Hits(f, P) = {}
  BY DEF Hits
<1> QED BY <1>1, FS_EmptySet DEF HitCount

\* Concatenation adds the counts.
LEMMA HitCountConcat ==
    ASSUME NEW S, NEW s \in Seq(S), NEW u \in Seq(S), NEW P
    PROVE  HitCount(s \o u, P) = HitCount(s, P) + HitCount(u, P)
<1> DEFINE A == Hits(s, P)
           B == {i + Len(s) : i \in Hits(u, P)}
<1>1. Len(s) \in Nat /\ Len(u) \in Nat /\ s \o u \in Seq(S) /\ Len(s \o u) = Len(s) + Len(u)
  OBVIOUS
<1>2. IsFiniteSet(A) /\ A \subseteq 1..Len(s)
  BY HitsFinite
<1>3. IsFiniteSet(Hits(u, P)) /\ Hits(u, P) \subseteq 1..Len(u)
  BY HitsFinite
<1>4. IsFiniteSet(B) /\ Cardinality(B) = HitCount(u, P)
  BY <1>1, <1>3, ShiftCount DEF HitCount
<1>5. A \cap B = {}
  BY <1>1, <1>2, <1>3
<1>6. Hits(s \o u, P) = A \cup B
  <2>1. ASSUME NEW i \in Hits(s \o u, P)
        PROVE  i \in A \cup B
    <3>1. i \in 1..(Len(s) + Len(u)) /\ (s \o u)[i] \in P
      BY <1>1 DEF Hits
    <3>2. CASE i <= Len(s)
      BY <1>1, <3>1, <3>2 DEF Hits
    <3>3. CASE i > Len(s)
      <4>1. i - Len(s) \in 1..Len(u) /\ (s \o u)[i] = u[i - Len(s)]
        BY <1>1, <3>1, <3>3
      <4>2. i - Len(s) \in Hits(u, P) /\ i = (i - Len(s)) + Len(s)
        BY <1>1, <3>1, <4>1 DEF Hits
      <4> QED BY <4>2
    <3> QED BY <1>1, <3>1, <3>2, <3>3
  <2>2. ASSUME NEW i \in A
        PROVE  i \in Hits(s \o u, P)
    BY <1>1 DEF Hits
  <2>3. ASSUME NEW i \in Hits(u, P)
        PROVE  i + Len(s) \in Hits(s \o u, P)
    <3>1. i \in 1..Len(u) /\ u[i] \in P
      BY DEF Hits
    <3>2. (s \o u)[i + Len(s)] = u[i] /\ i + Len(s) \in 1..(Len(s) + Len(u))
      BY <1>1, <3>1
    <3> QED BY <1>1, <3>1, <3>2 DEF Hits
  <2> QED BY <2>1, <2>2, <2>3
<1> QED BY <1>2, <1>4, <1>5, <1>6, DisjointCount DEF HitCount

\* One entry.
LEMMA HitCountSingle ==
    ASSUME NEW x, NEW P
    PROVE  HitCount(<<x>>, P) = Bit(x, P)
<1>1. Hits(<<x>>, P) = IF x \in P THEN {1} ELSE {}
  BY DEF Hits
<1> QED BY <1>1, FS_EmptySet, FS_Singleton DEF HitCount, Bit

\* Append adds the last entry, Tail takes the first one away.
LEMMA HitCountAppend ==
    ASSUME NEW S, NEW s \in Seq(S), NEW x \in S, NEW P
    PROVE  HitCount(Append(s, x), P) = HitCount(s, P) + Bit(x, P)
<1>0. <<x>> \in Seq(S)
  OBVIOUS
<1>1. PICK u \in Seq(S) : u = <<x>>
  BY <1>0
<1>2. Append(s, x) = s \o u
  BY <1>1
<1>3. HitCount(u, P) = Bit(x, P)
  BY <1>1, HitCountSingle
<1>4. HitCount(s \o u, P) = HitCount(s, P) + HitCount(u, P)
  BY HitCountConcat
<1> QED BY <1>2, <1>3, <1>4

LEMMA HitCountTail ==
    ASSUME NEW S, NEW s \in Seq(S), s # <<>>, NEW P
    PROVE  HitCount(s, P) = Bit(Head(s), P) + HitCount(Tail(s), P)
<1>0. <<Head(s)>> \in Seq(S)
  OBVIOUS
<1>1. PICK u \in Seq(S) : u = <<Head(s)>>
  BY <1>0
<1>2. Tail(s) \in Seq(S) /\ s = u \o Tail(s)
  BY <1>1
<1>3. HitCount(u, P) = Bit(Head(s), P)
  BY <1>1, HitCountSingle
<1>4. HitCount(u \o Tail(s), P) = HitCount(u, P) + HitCount(Tail(s), P)
  BY <1>2, HitCountConcat
<1> QED BY <1>2, <1>3, <1>4

\* The entries of inflight_ that lie in a set are finitely many.
LEMMA InflightHitsFinite ==
    ASSUME NEW n \in Nat, NEW f, DOMAIN f \subseteq 1..n, NEW P
    PROVE  IsFiniteSet(Hits(f, P)) /\ HitCount(f, P) \in Nat /\ Hits(f, P) \subseteq 1..n
<1>1. Hits(f, P) \subseteq 1..n
  BY DEF Hits
<1> QED BY <1>1, BoundedTagsFinite DEF HitCount

-----------------------------------------------------------------------------
(* What becomes of each publication in drainPending, disconnect and confirm *)

\* Every publication stays, in pending_ or under a fresh tag of inflight_; every
\* frame is an old one, one of the caller's, or the publish of a waiting publication.
LEMMA SendBatchItems ==
    ASSUME TypeOK, NEW waiting \in Seq(Publication), NEW frames \in Seq(ClientFrame),
           NEW flying, DOMAIN flying \subseteq 1..(nextPublishTag_ - 1),
           NEW count \in 0..Len(waiting), SendBatch(waiting, flying, frames, count)
    PROVE  /\ \A i \in DOMAIN pending_' : \E k \in DOMAIN waiting : pending_'[i] = waiting[k]
           /\ \A t \in DOMAIN inflight_' :
                 \/ t \in DOMAIN flying /\ inflight_'[t] = flying[t]
                 \/ \E k \in 1..count : /\ t = nextPublishTag_ + k - 1
                                        /\ inflight_'[t] = waiting[k]
           /\ \A t \in DOMAIN flying : t \in DOMAIN inflight_' /\ inflight_'[t] = flying[t]
           /\ \A k \in DOMAIN waiting :
                 \/ \E i \in DOMAIN pending_' : pending_'[i] = waiting[k]
                 \/ \E t \in DOMAIN inflight_' : inflight_'[t] = waiting[k]
           /\ \A i \in DOMAIN toBroker' :
                 \/ i \in DOMAIN toBroker /\ toBroker'[i] = toBroker[i]
                 \/ \E k \in DOMAIN frames : toBroker'[i] = frames[k]
                 \/ \E k \in DOMAIN waiting :
                       toBroker'[i] = PublishFrame(waiting[k].queue, waiting[k].body)
<1> DEFINE n == nextPublishTag_
           fresh == n..(n + count - 1)
           sends == [i \in 1..count |-> PublishFrame(waiting[i].queue, waiting[i].body)]
<1>1. /\ count \in Nat /\ Len(waiting) \in Nat /\ count <= Len(waiting)
      /\ n \in Nat \ {0} /\ DOMAIN waiting = 1..Len(waiting)
      /\ toBroker \in Seq(ClientFrame)
  BY DEF TypeOK, OutboxTypeOK, AmqpTypeOK
<1>2. /\ pending_' = SubSeq(waiting, count + 1, Len(waiting))
      /\ inflight_' = [t \in DOMAIN flying \cup fresh |->
                         IF t \in DOMAIN flying THEN flying[t] ELSE waiting[t - n + 1]]
      /\ toBroker' = Sent(frames \o sends)
  BY DEF SendBatch
<1>3. DOMAIN pending_' = 1..(Len(waiting) - count)
      /\ \A i \in DOMAIN pending_' : pending_'[i] = waiting[i + count]
  BY <1>1, <1>2
<1>4. \A i \in DOMAIN pending_' : i + count \in DOMAIN waiting
  BY <1>1, <1>3
<1>5. DOMAIN inflight_' = DOMAIN flying \cup fresh
  BY <1>2
<1>6. \A t \in DOMAIN flying : t \in DOMAIN inflight_' /\ inflight_'[t] = flying[t]
  BY <1>2, <1>5
<1>7. ASSUME NEW k \in 1..count
      PROVE  /\ n + k - 1 \in DOMAIN inflight_' /\ n + k - 1 \notin DOMAIN flying
             /\ inflight_'[n + k - 1] = waiting[k]
  <2>1. n + k - 1 \in fresh /\ n + k - 1 \notin DOMAIN flying /\ (n + k - 1) - n + 1 = k
    BY <1>1
  <2> QED BY <1>2, <1>5, <2>1
<1>8. ASSUME NEW t \in DOMAIN inflight_', t \notin DOMAIN flying
      PROVE  \E k \in 1..count : t = n + k - 1 /\ inflight_'[t] = waiting[k]
  <2>1. t \in fresh
    BY <1>5, <1>8
  <2>2. t - n + 1 \in 1..count /\ t = n + (t - n + 1) - 1
    BY <1>1, <2>1
  <2> QED BY <1>7, <2>2
<1>9. ASSUME NEW k \in DOMAIN waiting
      PROVE  \/ \E i \in DOMAIN pending_' : pending_'[i] = waiting[k]
             \/ \E t \in DOMAIN inflight_' : inflight_'[t] = waiting[k]
  <2>1. CASE k <= count
    <3>1. k \in 1..count
      BY <1>1, <2>1
    <3> QED BY <1>7, <3>1
  <2>2. CASE k > count
    <3>1. k - count \in DOMAIN pending_' /\ (k - count) + count = k
      BY <1>1, <1>3, <2>2
    <3> QED BY <1>3, <3>1
  <2> QED BY <1>1, <2>1, <2>2
<1>10. ASSUME NEW i \in DOMAIN toBroker'
       PROVE  \/ i \in DOMAIN toBroker /\ toBroker'[i] = toBroker[i]
              \/ \E k \in DOMAIN frames : toBroker'[i] = frames[k]
              \/ \E k \in DOMAIN waiting :
                    toBroker'[i] = PublishFrame(waiting[k].queue, waiting[k].body)
  <2>1. CASE link # "up"
    BY <1>2, <2>1 DEF Sent
  <2>2. CASE link = "up"
    <3>1. toBroker' = toBroker \o (frames \o sends)
      BY <1>2, <2>2 DEF Sent
    <3>2. \A k \in 1..count : waiting[k] \in Publication
      BY <1>1
    <3>3. \A k \in 1..count :
             PublishFrame(waiting[k].queue, waiting[k].body) \in ClientFrame
      BY <3>2 DEF Publication, PublishFrame, ClientFrame
    <3>4. sends \in Seq(ClientFrame) /\ Len(sends) = count
      BY <1>1, <3>3
    <3>5. /\ frames \o sends \in Seq(ClientFrame) /\ Len(frames) \in Nat
          /\ Len(frames \o sends) = Len(frames) + count
          /\ DOMAIN toBroker = 1..Len(toBroker) /\ Len(toBroker) \in Nat
      <4> HIDE DEF sends
      <4> QED BY <1>1, <3>4
    <3>6. DOMAIN toBroker' = 1..(Len(toBroker) + Len(frames) + count)
      <4>1. PICK more \in Seq(ClientFrame) : more = frames \o sends
        BY <3>5
      <4>2. /\ toBroker' = toBroker \o more /\ Len(more) = Len(frames) + count
        BY <3>1, <3>5, <4>1
      <4>3. DOMAIN (toBroker \o more) = 1..(Len(toBroker) + Len(more))
        BY <1>1
      <4> QED BY <1>1, <3>5, <4>2, <4>3
    <3>7. CASE i <= Len(toBroker)
      <4> HIDE DEF sends
      <4> QED BY <1>1, <3>1, <3>5, <3>6, <3>7
    <3>8. CASE i > Len(toBroker) /\ i <= Len(toBroker) + Len(frames)
      <4>1. i - Len(toBroker) \in DOMAIN frames
        BY <3>5, <3>6, <3>8
      <4>2. toBroker'[i] = frames[i - Len(toBroker)]
        <5> HIDE DEF sends
        <5> QED BY <1>1, <3>1, <3>4, <3>5, <3>6, <3>8
      <4> QED BY <4>1, <4>2
    <3>9. CASE i > Len(toBroker) + Len(frames)
      <4>1. i - Len(toBroker) - Len(frames) \in 1..count
        BY <1>1, <3>5, <3>6, <3>9
      <4>2. toBroker'[i] = sends[i - Len(toBroker) - Len(frames)]
        <5> HIDE DEF sends
        <5> QED BY <1>1, <3>1, <3>4, <3>5, <3>6, <3>9
      <4>3. i - Len(toBroker) - Len(frames) \in DOMAIN waiting
        BY <1>1, <4>1
      <4> QED BY <4>1, <4>2, <4>3
    <3> QED BY <3>5, <3>6, <3>7, <3>8, <3>9
  <2> QED BY <2>1, <2>2
<1> QED BY <1>3, <1>4, <1>6, <1>8, <1>9, <1>10

\* The counts of pending_ and inflight_ together are not changed.
LEMMA SendBatchCounts ==
    ASSUME TypeOK, NEW waiting \in Seq(Publication), NEW frames,
           NEW flying, DOMAIN flying \subseteq 1..(nextPublishTag_ - 1),
           NEW count \in 0..Len(waiting), SendBatch(waiting, flying, frames, count), NEW P
    PROVE  HitCount(pending_', P) + HitCount(inflight_', P)
               = HitCount(waiting, P) + HitCount(flying, P)
<1> DEFINE n == nextPublishTag_
           fresh == n..(n + count - 1)
           low   == {i \in 1..count : waiting[i] \in P}
           moved == {i + (n - 1) : i \in low}
           high  == {i + count : i \in Hits(pending_', P)}
<1>1. /\ count \in Nat /\ Len(waiting) \in Nat /\ count <= Len(waiting)
      /\ n \in Nat \ {0} /\ DOMAIN waiting = 1..Len(waiting)
  BY DEF TypeOK, OutboxTypeOK
<1>2. /\ pending_' = SubSeq(waiting, count + 1, Len(waiting))
      /\ inflight_' = [t \in DOMAIN flying \cup fresh |->
                         IF t \in DOMAIN flying THEN flying[t] ELSE waiting[t - n + 1]]
  BY DEF SendBatch
<1>3. /\ pending_' \in Seq(Publication)
      /\ DOMAIN pending_' = 1..(Len(waiting) - count)
      /\ \A i \in DOMAIN pending_' : pending_'[i] = waiting[i + count]
  BY <1>1, <1>2
<1>4. IsFiniteSet(Hits(pending_', P)) /\ Hits(pending_', P) \subseteq 1..(Len(waiting) - count)
  BY <1>3, HitsFinite DEF Hits
<1>5. IsFiniteSet(high) /\ Cardinality(high) = HitCount(pending_', P)
  <2>1. PICK hits : hits = Hits(pending_', P)
    OBVIOUS
  <2>2. hits \subseteq Int /\ count \in Int /\ high = {i + count : i \in hits}
    BY <1>1, <1>4, <2>1
  <2> HIDE DEF high
  <2> QED BY <1>4, <2>1, <2>2, ShiftCount DEF HitCount
<1>6. IsFiniteSet(low) /\ low \subseteq 1..count
  BY <1>1, BoundedTagsFinite
<1>7. IsFiniteSet(moved) /\ Cardinality(moved) = Cardinality(low)
  <2>1. PICK d \in Int : d = n - 1
    BY <1>1
  <2>2. low \subseteq Int /\ moved = {i + d : i \in low}
    BY <1>6, <2>1
  <2> HIDE DEF moved, low
  <2> QED BY <1>6, <2>2, ShiftCount
<1>8. Hits(waiting, P) = low \cup high /\ low \cap high = {}
  <2>1. low \cap high = {}
    BY <1>1, <1>3, <1>4
  <2>2. ASSUME NEW i \in Hits(waiting, P)
        PROVE  i \in low \cup high
    <3>1. i \in 1..Len(waiting) /\ waiting[i] \in P
      BY <1>1 DEF Hits
    <3>2. CASE i <= count
      BY <1>1, <3>1, <3>2
    <3>3. CASE i > count
      <4>1. i - count \in DOMAIN pending_' /\ (i - count) + count = i
        BY <1>1, <1>3, <3>1, <3>3
      <4>2. i - count \in Hits(pending_', P)
        BY <1>3, <3>1, <4>1 DEF Hits
      <4> QED BY <4>1, <4>2
    <3> QED BY <1>1, <3>1, <3>2, <3>3
  <2>3. low \subseteq Hits(waiting, P)
    BY <1>1 DEF Hits
  <2>4. ASSUME NEW i \in Hits(pending_', P)
        PROVE  i + count \in Hits(waiting, P)
    <3>1. i \in DOMAIN pending_' /\ pending_'[i] \in P
      BY DEF Hits
    <3>2. i + count \in DOMAIN waiting /\ waiting[i + count] \in P
      BY <1>1, <1>3, <3>1
    <3> QED BY <3>2 DEF Hits
  <2> QED BY <2>1, <2>2, <2>3, <2>4
<1>9. Hits(inflight_', P) = Hits(flying, P) \cup moved /\ Hits(flying, P) \cap moved = {}
  <2>1. \A k \in 1..count : /\ n + k - 1 \in DOMAIN inflight_' /\ n + k - 1 \notin DOMAIN flying
                            /\ inflight_'[n + k - 1] = waiting[k]
    <3>1. ASSUME NEW k \in 1..count
          PROVE  n + k - 1 \in fresh /\ n + k - 1 \notin DOMAIN flying /\ (n + k - 1) - n + 1 = k
      BY <1>1
    <3> QED BY <1>2, <3>1
  <2>2. Hits(flying, P) \subseteq Hits(inflight_', P)
    BY <1>2 DEF Hits
  <2>3. ASSUME NEW i \in low
        PROVE  i + (n - 1) \in Hits(inflight_', P) /\ i + (n - 1) \notin Hits(flying, P)
    <3>1. i \in 1..count /\ waiting[i] \in P /\ i + (n - 1) = n + i - 1
      BY <1>1
    <3> QED BY <2>1, <3>1 DEF Hits
  <2>4. ASSUME NEW t \in Hits(inflight_', P), t \notin Hits(flying, P)
        PROVE  t \in moved
    <3>1. t \in DOMAIN inflight_' /\ inflight_'[t] \in P
      BY DEF Hits
    <3>2. t \notin DOMAIN flying
      BY <1>2, <2>4, <3>1 DEF Hits
    <3>3. t \in fresh
      BY <1>2, <3>1, <3>2
    <3>4. t - n + 1 \in 1..count /\ t = (t - n + 1) + (n - 1) /\ t = n + (t - n + 1) - 1
      BY <1>1, <3>3
    <3>5. t - n + 1 \in low
      BY <2>1, <3>1, <3>4
    <3> QED BY <3>4, <3>5
  <2> QED BY <2>2, <2>3, <2>4
<1>10. IsFiniteSet(Hits(flying, P))
  BY <1>1, InflightHitsFinite
<1>11. HitCount(waiting, P) = Cardinality(low) + Cardinality(high)
  BY <1>5, <1>6, <1>8, DisjointCount DEF HitCount
<1>12. HitCount(inflight_', P) = HitCount(flying, P) + Cardinality(moved)
  BY <1>7, <1>9, <1>10, DisjointCount DEF HitCount
<1>13. /\ Cardinality(low) \in Nat /\ Cardinality(high) \in Nat
       /\ HitCount(flying, P) \in Nat
  BY <1>5, <1>6, <1>10, FS_CardinalityType DEF HitCount
<1> HIDE DEF low, high, moved
<1> QED BY <1>5, <1>7, <1>11, <1>12, <1>13

\* drainPending sends some prefix of the waiting publications, none while it may not
\* publish, and fails only on an open connection.
LEMMA DrainPendingSends ==
    ASSUME TypeOK, NEW ready \in BOOLEAN,
           NEW waiting \in Seq(Publication), NEW frames,
           NEW flying, DOMAIN flying \subseteq 1..(nextPublishTag_ - 1),
           DrainPending(ready, waiting, flying, frames)
    PROVE  /\ \E count \in 0..Len(waiting) :
                 /\ SendBatch(waiting, flying, frames, count)
                 /\ count # 0 => connection_ = "open" /\ ~recovering_
           /\ recovering_ => recovering_'
           /\ recoverQueued' = recoverQueued \/ connection_ = "open"
<1>1. Cardinality(DOMAIN flying) \in Nat
  BY BoundedTagsFinite DEF TypeOK, OutboxTypeOK
<1>2. /\ BatchSize(ready, waiting, flying) \in 0..Len(waiting)
      /\ BatchSize(ready, waiting, flying) # 0 => connection_ = "open" /\ ~recovering_
  BY <1>1, InflightAssumption DEF BatchSize, Smaller, MayPublish
<1>3. CASE /\ SendBatch(waiting, flying, frames, BatchSize(ready, waiting, flying))
           /\ UNCHANGED <<recovering_, recoverQueued>>
  BY <1>2, <1>3
<1>4. CASE \E count \in 0..(BatchSize(ready, waiting, flying) - 1) :
              SendBatch(waiting, flying, frames, count) /\ ConnectionFailed
  <2>1. PICK count \in 0..(BatchSize(ready, waiting, flying) - 1) :
              SendBatch(waiting, flying, frames, count) /\ ConnectionFailed
    BY <1>4
  <2>2. count \in 0..Len(waiting) /\ BatchSize(ready, waiting, flying) # 0
    BY <1>2, <2>1
  <2>3. connection_ = "open" /\ ~recovering_ /\ recovering_'
    BY <1>2, <2>1, <2>2 DEF ConnectionFailed
  <2> QED BY <2>1, <2>2, <2>3
<1> QED BY <1>3, <1>4 DEF DrainPending

\* disconnect keeps each publication, and adds none.
LEMMA ReclaimedItems ==
    ASSUME TypeOK
    PROVE  /\ \A i \in DOMAIN Reclaimed :
                 \/ \E t \in DOMAIN inflight_ : Reclaimed[i] = inflight_[t]
                 \/ \E k \in DOMAIN pending_ : Reclaimed[i] = pending_[k]
           /\ \A t \in DOMAIN inflight_ : \E i \in DOMAIN Reclaimed : Reclaimed[i] = inflight_[t]
           /\ \A k \in DOMAIN pending_ : \E i \in DOMAIN Reclaimed : Reclaimed[i] = pending_[k]
<1> DEFINE tags  == DOMAIN inflight_
           size  == Cardinality(tags)
           first == [i \in 1..size |-> inflight_[TagAt(tags, i)]]
<1>1. tags \subseteq 1..(nextPublishTag_ - 1) /\ nextPublishTag_ - 1 \in Nat
  BY DEF TypeOK, OutboxTypeOK
<1>2. size \in Nat
  BY <1>1, BoundedTagsFinite
<1>3. /\ \A i \in 1..size : TagAt(tags, i) \in tags
      /\ \A t \in tags : \E i \in 1..size : TagAt(tags, i) = t
  BY <1>1, TagAtOrder
<1>4. first \in Seq(Publication) /\ Len(first) = size
  <2>1. \A t \in tags : inflight_[t] \in Publication
    BY DEF TypeOK, OutboxTypeOK
  <2>2. \A i \in 1..size : inflight_[TagAt(tags, i)] \in Publication
    BY <1>3, <2>1
  <2> QED BY <1>2, <2>2
<1>5. Reclaimed = first \o pending_ /\ pending_ \in Seq(Publication)
  BY DEF Reclaimed, InTagOrder, TypeOK, OutboxTypeOK
<1>6. /\ DOMAIN Reclaimed = 1..(size + Len(pending_)) /\ Len(pending_) \in Nat
      /\ DOMAIN pending_ = 1..Len(pending_)
      /\ \A i \in 1..size : Reclaimed[i] = first[i]
      /\ \A k \in 1..Len(pending_) : Reclaimed[k + size] = pending_[k]
  <2> HIDE DEF first
  <2> QED BY <1>2, <1>4, <1>5
<1>7. \A i \in 1..size : first[i] = inflight_[TagAt(tags, i)] /\ i \in DOMAIN Reclaimed
  BY <1>2, <1>6
<1>8. \A t \in tags : \E i \in DOMAIN Reclaimed : Reclaimed[i] = inflight_[t]
  BY <1>3, <1>6, <1>7
<1>9. ASSUME NEW k \in DOMAIN pending_
      PROVE  \E i \in DOMAIN Reclaimed : Reclaimed[i] = pending_[k]
  <2>1. k + size \in DOMAIN Reclaimed
    BY <1>2, <1>6
  <2> QED BY <1>6, <2>1
<1>10. ASSUME NEW i \in DOMAIN Reclaimed
       PROVE  \/ \E t \in DOMAIN inflight_ : Reclaimed[i] = inflight_[t]
              \/ \E k \in DOMAIN pending_ : Reclaimed[i] = pending_[k]
  <2>1. CASE i <= size
    <3>1. i \in 1..size
      BY <1>2, <1>6, <2>1
    <3> QED BY <1>3, <1>6, <1>7, <3>1
  <2>2. CASE i > size
    <3>1. i - size \in 1..Len(pending_) /\ (i - size) + size = i
      BY <1>2, <1>6, <2>2
    <3> QED BY <1>6, <3>1
  <2> QED BY <1>2, <1>6, <2>1, <2>2
<1> QED BY <1>8, <1>9, <1>10

-----------------------------------------------------------------------------
(* The steps that settle a delivery, as one sum of counts *)

Deliveries(tag) == {f \in BrokerFrame : f.type = "deliver" /\ f.tag = tag}
Dones(tag)      == {c \in Completion : c.gen = generation_ /\ c.tag = tag}
Timers(tag)     == {t \in retryTimers : t.gen = generation_ /\ t.tag = tag}
Owners(tag)     == {p \in Publication : p.source = [gen |-> generation_, tag |-> tag]}
Answers(tag)    == {f \in ClientFrame : f.type \in {"ack", "reject"} /\ f.tag = tag}

\* A publication that replaces a delivery of the present connection.
Bound(item) == item.source # NoDelivery /\ item.source.gen = generation_

\* The sum of Settlers, term by term.
LEMMA SettlersSum ==
    ASSUME TypeOK, NEW tag
    PROVE  Settlers(tag) = HitCount(toClient, Deliveries(tag))
                           + HitCount(completions, Dones(tag))
                           + Cardinality(Timers(tag))
                           + HitCount(submitted, Owners(tag))
                           + HitCount(pending_, Owners(tag))
                           + HitCount(inflight_, Owners(tag))
                           + HitCount(toBroker, Answers(tag))
<1>1. {i \in DOMAIN toClient : toClient[i].type = "deliver" /\ toClient[i].tag = tag}
          = Hits(toClient, Deliveries(tag))
  <2>1. \A i \in DOMAIN toClient : toClient[i] \in BrokerFrame
    BY DEF TypeOK, AmqpTypeOK
  <2> QED BY <2>1 DEF Hits, Deliveries
<1>2. {i \in DOMAIN completions : completions[i].gen = generation_ /\ completions[i].tag = tag}
          = Hits(completions, Dones(tag))
  <2>1. \A i \in DOMAIN completions : completions[i] \in Completion
    BY DEF TypeOK, QueueTypeOK
  <2> QED BY <2>1 DEF Hits, Dones
<1>3. {i \in DOMAIN submitted : submitted[i].source = [gen |-> generation_, tag |-> tag]}
          = Hits(submitted, Owners(tag))
  <2>1. \A i \in DOMAIN submitted : submitted[i] \in Publication
    BY DEF TypeOK, QueueTypeOK
  <2> QED BY <2>1 DEF Hits, Owners
<1>4. {i \in DOMAIN pending_ : pending_[i].source = [gen |-> generation_, tag |-> tag]}
          = Hits(pending_, Owners(tag))
  <2>1. \A i \in DOMAIN pending_ : pending_[i] \in Publication
    BY DEF TypeOK, OutboxTypeOK
  <2> QED BY <2>1 DEF Hits, Owners
<1>5. {i \in DOMAIN inflight_ : inflight_[i].source = [gen |-> generation_, tag |-> tag]}
          = Hits(inflight_, Owners(tag))
  <2>1. \A i \in DOMAIN inflight_ : inflight_[i] \in Publication
    BY DEF TypeOK, OutboxTypeOK
  <2> QED BY <2>1 DEF Hits, Owners
<1>6. {i \in DOMAIN toBroker : toBroker[i].type \in {"ack", "reject"} /\ toBroker[i].tag = tag}
          = Hits(toBroker, Answers(tag))
  <2>1. \A i \in DOMAIN toBroker : toBroker[i] \in ClientFrame
    BY DEF TypeOK, AmqpTypeOK
  <2> QED BY <2>1 DEF Hits, Answers
<1> QED BY <1>1, <1>2, <1>3, <1>4, <1>5, <1>6 DEF Settlers, Count, HitCount, Timers

\* The terms are numbers.
LEMMA SettlerTerms ==
    ASSUME TypeOK, IsFiniteSet(retryTimers), NEW tag
    PROVE  /\ HitCount(toClient, Deliveries(tag)) \in Nat
           /\ HitCount(completions, Dones(tag)) \in Nat
           /\ IsFiniteSet(Timers(tag)) /\ Cardinality(Timers(tag)) \in Nat
           /\ HitCount(submitted, Owners(tag)) \in Nat
           /\ HitCount(pending_, Owners(tag)) \in Nat
           /\ HitCount(inflight_, Owners(tag)) \in Nat
           /\ HitCount(toBroker, Answers(tag)) \in Nat
<1>1. /\ toClient \in Seq(BrokerFrame) /\ completions \in Seq(Completion)
      /\ submitted \in Seq(Publication) /\ pending_ \in Seq(Publication)
      /\ toBroker \in Seq(ClientFrame)
      /\ DOMAIN inflight_ \subseteq 1..(nextPublishTag_ - 1) /\ nextPublishTag_ - 1 \in Nat
  BY DEF TypeOK, AmqpTypeOK, QueueTypeOK, OutboxTypeOK
<1>2. Timers(tag) \subseteq retryTimers
  BY DEF Timers
<1>3. IsFiniteSet(Timers(tag)) /\ Cardinality(Timers(tag)) \in Nat
  BY <1>2, FS_Subset, FS_CardinalityType
<1>4. HitCount(inflight_, Owners(tag)) \in Nat
  BY <1>1, InflightHitsFinite
<1> QED BY <1>1, <1>3, <1>4, HitsFinite

\* A publication replaces a current delivery exactly when it owns that delivery's tag.
LEMMA BoundOwns ==
    ASSUME NEW item \in Publication
    PROVE  /\ Bound(item) => item.source.tag \in Nat \ {0} /\ item \in Owners(item.source.tag)
           /\ \A tag \in Nat \ {0} : item \in Owners(tag) => Bound(item) /\ item.source.tag = tag
<1>1. item.source \in Source
  BY DEF Publication
<1>2. ASSUME Bound(item)
      PROVE  item.source.tag \in Nat \ {0} /\ item \in Owners(item.source.tag)
  <2>1. item.source \in [gen : Nat, tag : Nat \ {0}] /\ item.source.gen = generation_
    BY <1>1, <1>2 DEF Bound, Source
  <2> QED BY <2>1 DEF Owners
<1>3. ASSUME NEW tag \in Nat \ {0}, item \in Owners(tag)
      PROVE  Bound(item) /\ item.source.tag = tag
  <2>1. item.source = [gen |-> generation_, tag |-> tag]
    BY <1>3 DEF Owners
  <2>2. item.source.gen = generation_ /\ item.source.tag = tag
    BY <2>1
  <2>3. NoDelivery.tag = 0
    BY DEF NoDelivery
  <2> QED BY <2>2, <2>3 DEF Bound
<1> QED BY <1>2, <1>3

\* The acknowledgements of a confirm, one by one.
LEMMA CompletionAcksItems ==
    ASSUME TypeOK, NEW tags, tags \subseteq DOMAIN inflight_
    PROVE  \A k \in DOMAIN CompletionAcks(tags) : \E t \in tags :
               /\ Bound(inflight_[t])
               /\ CompletionAcks(tags)[k] = AckFrame(inflight_[t].source.tag)
<1> DEFINE owners == {t \in tags : /\ inflight_[t].source # NoDelivery
                                   /\ IsCurrent(inflight_[t].source.gen)}
           size == Cardinality(owners)
<1>1. owners \subseteq 1..(nextPublishTag_ - 1) /\ nextPublishTag_ - 1 \in Nat
  BY DEF TypeOK, OutboxTypeOK
<1>2. \A i \in 1..size : TagAt(owners, i) \in owners
  BY <1>1, TagAtIsTag
<1>3. CompletionAcks(tags) = [i \in 1..size |->
                                 AckFrame(inflight_[TagAt(owners, i)].source.tag)]
  BY DEF CompletionAcks, InTagOrder
<1>4. \A t \in owners : Bound(inflight_[t])
  BY DEF Bound, IsCurrent
<1> HIDE DEF size
<1>5. DOMAIN CompletionAcks(tags) = 1..size
  BY <1>3
<1>6. ASSUME NEW k \in 1..size
      PROVE  \E t \in tags : /\ Bound(inflight_[t])
                             /\ CompletionAcks(tags)[k] = AckFrame(inflight_[t].source.tag)
  <2>1. PICK t \in owners : t = TagAt(owners, k)
    BY <1>2
  <2>2. CompletionAcks(tags)[k] = AckFrame(inflight_[t].source.tag)
    BY <1>3, <2>1
  <2> QED BY <1>4, <2>2
<1> QED BY <1>5, <1>6

\* A confirm sends one acknowledgement for each replacement it takes out of inflight_.
LEMMA CompletionAcksCount ==
    ASSUME TypeOK, NEW tags, tags \subseteq DOMAIN inflight_, NEW tag \in Nat \ {0}
    PROVE  HitCount(CompletionAcks(tags), Answers(tag))
               = Cardinality({t \in tags : inflight_[t] \in Owners(tag)})
<1> DEFINE owners == {t \in tags : /\ inflight_[t].source # NoDelivery
                                   /\ IsCurrent(inflight_[t].source.gen)}
           size == Cardinality(owners)
           acks == CompletionAcks(tags)
           A == Hits(acks, Answers(tag))
           B == {t \in tags : inflight_[t] \in Owners(tag)}
           nth == [i \in A |-> TagAt(owners, i)]
<1>1. owners \subseteq 1..(nextPublishTag_ - 1) /\ nextPublishTag_ - 1 \in Nat
  BY DEF TypeOK, OutboxTypeOK
<1>2. /\ \A i \in 1..size : /\ TagAt(owners, i) \in owners
                            /\ Cardinality({u \in owners : u <= TagAt(owners, i)}) = i
      /\ \A t \in owners : \E i \in 1..size : TagAt(owners, i) = t
  BY <1>1, TagAtOrder
<1>3. acks = [i \in 1..size |-> AckFrame(inflight_[TagAt(owners, i)].source.tag)]
  BY DEF CompletionAcks, InTagOrder
<1>4. \A t \in tags : inflight_[t] \in Publication
  BY DEF TypeOK, OutboxTypeOK
<1>5. \A t \in owners : inflight_[t].source.tag \in Nat \ {0}
  <2>1. \A t \in owners : Bound(inflight_[t])
    BY DEF Bound, IsCurrent
  <2> QED BY <1>4, <2>1, BoundOwns
<1>6. \A t \in tags : t \in B <=> t \in owners /\ inflight_[t].source.tag = tag
  <2>1. ASSUME NEW t \in tags
        PROVE  t \in B <=> t \in owners /\ inflight_[t].source.tag = tag
    <3>1. t \in owners <=> Bound(inflight_[t])
      BY DEF Bound, IsCurrent
    <3>2. inflight_[t] \in Owners(tag) <=> Bound(inflight_[t]) /\ inflight_[t].source.tag = tag
      BY <1>4, BoundOwns
    <3> QED BY <3>1, <3>2
  <2> QED BY <2>1
<1> HIDE DEF size, owners, acks
<1>7. \A i \in 1..size : i \in A <=> TagAt(owners, i) \in B
  <2>1. ASSUME NEW i \in 1..size
        PROVE  i \in A <=> TagAt(owners, i) \in B
    <3>1. PICK t \in owners : t = TagAt(owners, i)
      BY <1>2
    <3>2. acks[i] = AckFrame(inflight_[t].source.tag) /\ i \in DOMAIN acks
      BY <1>3, <3>1
    <3>3. acks[i] \in Answers(tag) <=> inflight_[t].source.tag = tag
      BY <1>5, <3>2 DEF AckFrame, Answers, ClientFrame
    <3>4. t \in tags
      BY DEF owners
    <3> QED BY <1>6, <3>1, <3>2, <3>3, <3>4 DEF Hits
  <2> QED BY <2>1
<1>8. A \subseteq 1..size
  BY <1>3 DEF Hits
<1>9. nth \in [A -> B]
  BY <1>7, <1>8
<1>10. \A i, k \in A : nth[i] = nth[k] => i = k
  BY <1>2, <1>8
<1>11. \A t \in B : \E i \in A : nth[i] = t
  <2>1. ASSUME NEW t \in B
        PROVE  \E i \in A : nth[i] = t
    <3>1. t \in owners
      BY <1>6
    <3>2. PICK i \in 1..size : TagAt(owners, i) = t
      BY <1>2, <3>1
    <3> QED BY <1>7, <3>2
  <2> QED BY <2>1
<1>12. nth \in Bijection(A, B)
  <2> HIDE DEF A, B, nth
  <2> QED BY <1>9, <1>10, <1>11 DEF Bijection, Injection, IsInjective, Surjection
<1>13. IsFiniteSet(A)
  <2>1. size \in Nat
    BY <1>1, BoundedTagsFinite DEF size
  <2> QED BY <1>8, <2>1, BoundedTagsFinite
<1>14. Cardinality(B) = Cardinality(A)
  <2> HIDE DEF A, B, nth
  <2> QED BY <1>12, <1>13, FS_Bijection DEF ExistsBijection
<1> QED BY <1>14 DEF HitCount, acks

\* Entries that a confirm takes out of inflight_ are no longer counted there.
LEMMA RemovedCount ==
    ASSUME TypeOK, NEW tags, tags \subseteq DOMAIN inflight_, NEW P
    PROVE  HitCount(inflight_, P)
               = HitCount([t \in DOMAIN inflight_ \ tags |-> inflight_[t]], P)
                 + Cardinality({t \in tags : inflight_[t] \in P})
<1> DEFINE rest == [t \in DOMAIN inflight_ \ tags |-> inflight_[t]]
           A == Hits(rest, P)
           B == {t \in tags : inflight_[t] \in P}
<1>1. Hits(inflight_, P) = A \cup B /\ A \cap B = {}
  BY DEF Hits
<1>2. IsFiniteSet(Hits(inflight_, P))
  BY InflightHitsFinite DEF TypeOK, OutboxTypeOK
<1>3. IsFiniteSet(A) /\ IsFiniteSet(B)
  <2> HIDE DEF A, B
  <2> QED BY <1>1, <1>2, FS_Subset
<1>4. Cardinality(A \cup B) = Cardinality(A) + Cardinality(B)
  <2> HIDE DEF A, B
  <2> QED BY <1>1, <1>3, DisjointCount
<1> QED BY <1>1, <1>4 DEF HitCount

-----------------------------------------------------------------------------
(* The connection as the handler and the broker see it *)

\* Nothing is on the wire, and no delivery is waited for, unless the connection is up;
\* a handler without a connection has sent nothing, and one that does not exist has
\* neither a connection nor a way to get one but Start.
LinkShape ==
    /\ unacked # <<>> => Len(unacked) = 1 /\ link = "up"
    /\ toBroker # <<>> => link = "up"
    /\ link = "none" => toClient = <<>> /\ DOMAIN inflight_ = {} /\ nextPublishTag_ = 1
    /\ link # "up" => received = 0 /\ unconfirmed = {}
    /\ (link = "none") <=> (connection_ # "open")
    /\ reconnectScheduled_ => connection_ = "none"
    /\ ~handler_ => connection_ = "none" /\ ~recoverQueued /\ ~reconnectScheduled_

\* drainPending keeps the shape: it sends only on an open connection.
LEMMA DrainPendingShape ==
    ASSUME TypeOK, TypeOK', LinkShape, NEW ready \in BOOLEAN,
           NEW waiting \in Seq(Publication), NEW frames \in Seq(ClientFrame),
           NEW flying, DOMAIN flying \subseteq DOMAIN inflight_,
           DrainPending(ready, waiting, flying, frames),
           toClient' = toClient \/ (toClient # <<>> /\ toClient' = Tail(toClient)),
           UNCHANGED <<storeVars, connection_, reconnectScheduled_, handler_>>
    PROVE  LinkShape'
<1>1. DOMAIN flying \subseteq 1..(nextPublishTag_ - 1)
  BY DEF TypeOK, OutboxTypeOK
<1>2. PICK count \in 0..Len(waiting) :
          /\ SendBatch(waiting, flying, frames, count)
          /\ count # 0 => connection_ = "open" /\ ~recovering_
  BY <1>1, DrainPendingSends
<1>3. recoverQueued' = recoverQueued \/ connection_ = "open"
  BY <1>1, DrainPendingSends
<1>4. link = "none" => DOMAIN inflight_' = {} /\ nextPublishTag_' = 1
  <2>1. SUFFICES ASSUME link = "none"
                 PROVE  DOMAIN inflight_' = {} /\ nextPublishTag_' = 1
    OBVIOUS
  <2>2. count = 0 /\ DOMAIN flying = {} /\ nextPublishTag_ = 1
    BY <1>2, <2>1 DEF LinkShape
  <2>3. DOMAIN inflight_' = DOMAIN flying \cup nextPublishTag_..(nextPublishTag_ + count - 1)
    BY <1>2 DEF SendBatch
  <2>4. nextPublishTag_' = nextPublishTag_ + count
    BY <1>2 DEF SendBatch
  <2> QED BY <2>2, <2>3, <2>4
<1>5. link # "up" => toBroker' = toBroker
  BY <1>2 DEF SendBatch, Sent
<1> QED BY <1>3, <1>4, <1>5 DEF LinkShape, storeVars

\* Every step keeps the shape.
LEMMA LinkShapeStep ==
    ASSUME Inv, Inv', LinkShape, [Next]_vars
    PROVE  LinkShape'
<1> USE DEF Inv
<1>1. CASE Publishing
  BY <1>1 DEF Publishing, PublishLoad, PublishReserve, PublishEnqueue, LinkShape, brokerVars,
              storeVars, outboxVars, setupVars, timerVars, recoverVars
<1>2. CASE RunSubmitted
  <2>1. Append(pending_, Head(submitted)) \in Seq(Publication)
    BY <1>2 DEF RunSubmitted, TypeOK, QueueTypeOK, OutboxTypeOK
  <2>2. <<>> \in Seq(ClientFrame) /\ producerReady_ \in BOOLEAN
    BY EmptySeq DEF TypeOK, ControlTypeOK
  <2>3. UNCHANGED <<storeVars, connection_, reconnectScheduled_, handler_, toClient>>
    BY <1>2 DEF RunSubmitted, setupVars, timerVars
  <2>4. DrainPending(producerReady_, Append(pending_, Head(submitted)), inflight_, <<>>)
    BY <1>2 DEF RunSubmitted
  <2> QED BY <2>1, <2>2, <2>3, <2>4, DrainPendingShape
<1>3. CASE RunCompletion
  <2>1. UNCHANGED <<storeVars, toClient, setupVars, recoverVars, outboxVars, handler_,
                    reconnectScheduled_>>
    BY <1>3 DEF RunCompletion
  <2>2. link # "up" => toBroker' = toBroker
    BY <1>3 DEF RunCompletion, Sent
  <2> QED BY <2>1, <2>2 DEF LinkShape, storeVars, setupVars, recoverVars, outboxVars
<1>4. CASE RunRecover
  BY <1>4 DEF RunRecover, CloseLink, LinkShape
<1>5. CASE ReconnectTimerFires
  BY <1>5 DEF ReconnectTimerFires, Connect, LinkShape, brokerVars, storeVars, outboxVars
<1>6. ASSUME NEW timer \in retryTimers, RetryTimerFires(timer)
      PROVE  LinkShape'
  <2>1. UNCHANGED <<storeVars, toClient, setupVars, recoverVars, outboxVars, handler_,
                    reconnectScheduled_>>
    BY <1>6 DEF RetryTimerFires
  <2>2. link # "up" => toBroker' = toBroker
    BY <1>6 DEF RetryTimerFires, GivenBack, Sent
  <2> QED BY <2>1, <2>2 DEF LinkShape, storeVars, setupVars, recoverVars, outboxVars
<1>7. CASE OnConnected
  BY <1>7 DEF OnConnected, OpenLink, LinkShape, recoverVars, timerVars, outboxVars
<1>8. CASE OnError \/ OnLost
  BY <1>8 DEF OnError, OnLost, ConnectionFailed, LinkShape, brokerVars, storeVars, setupVars,
              timerVars, outboxVars
<1>9. CASE ProducerMainDeclared \/ ProducerDeadDeclared \/ ConsumerStarted
  BY <1>9 DEF ProducerMainDeclared, ProducerDeadDeclared, ConsumerStarted, DeclareOnProducer,
              LinkShape, recoverVars, timerVars, outboxVars
<1>10. CASE ProducerConfirmSelected
  <2>1. pending_ \in Seq(Publication) /\ <<>> \in Seq(ClientFrame)
    BY EmptySeq DEF TypeOK, OutboxTypeOK
  <2>2. UNCHANGED <<storeVars, connection_, reconnectScheduled_, handler_, toClient>>
    BY <1>10 DEF ProducerConfirmSelected, timerVars
  <2>3. DrainPending(TRUE, pending_, inflight_, <<>>)
    BY <1>10 DEF ProducerConfirmSelected
  <2> QED BY <2>1, <2>2, <2>3, DrainPendingShape
<1>11. CASE Persisted \/ PersistFails \/ ParseFails
  <2>1. PICK stored \in BOOLEAN, result \in Disposition : Delivered(stored, result)
    BY <1>11 DEF Persisted, PersistFails, ParseFails, Disposition
  <2>2. toClient # <<>>
    BY <1>11 DEF Persisted, PersistFails, ParseFails, Receives
  <2> QED BY <2>1, <2>2 DEF Delivered, LinkShape, storeVars, setupVars, recoverVars, timerVars,
              outboxVars
<1>12. CASE OnAck
  <2>1. toClient # <<>> /\ toClient' = Tail(toClient)
    BY <1>12 DEF OnAck, Receives
  <2>2. UNCHANGED <<storeVars, connection_, reconnectScheduled_, handler_>>
    BY <1>12 DEF OnAck, setupVars, timerVars
  <2>3. CASE UNCHANGED <<toBroker, recoverVars, outboxVars>>
    BY <2>1, <2>2, <2>3 DEF LinkShape, storeVars, recoverVars, outboxVars
  <2>4. CASE Confirm(Head(toClient))
    <3> DEFINE tags == Confirmable(Head(toClient))
               rest == [t \in DOMAIN inflight_ \ tags |-> inflight_[t]]
    <3>1. DrainPending(producerReady_, pending_, rest, CompletionAcks(tags))
      BY <2>4 DEF Confirm
    <3>2. tags \subseteq DOMAIN inflight_ /\ DOMAIN rest \subseteq DOMAIN inflight_
      BY DEF Confirmable
    <3>3. CompletionAcks(tags) \in Seq(ClientFrame)
      BY <3>2, CompletionAcksAreFrames DEF TypeOK
    <3>4. pending_ \in Seq(Publication) /\ producerReady_ \in BOOLEAN
      BY DEF TypeOK, OutboxTypeOK, ControlTypeOK
    <3> HIDE DEF tags, rest
    <3> QED BY <2>1, <2>2, <3>1, <3>2, <3>3, <3>4, DrainPendingShape
  <2> QED BY <1>12, <2>3, <2>4 DEF OnAck
<1>13. CASE OnNackOrReturn
  BY <1>13 DEF OnNackOrReturn, Receives, PublishRefused, ConnectionFailed, LinkShape,
               storeVars, setupVars, timerVars, outboxVars
<1>14. CASE Brokering
  <2>1. UNCHANGED <<connection_, reconnectScheduled_, handler_, recoverQueued, inflight_,
                    nextPublishTag_>>
    BY <1>14 DEF Brokering, handlerVars, setupVars, timerVars, recoverVars, outboxVars
  <2>2. CASE LinkBreaks
    BY <2>1, <2>2 DEF LinkBreaks, CloseLink, LinkShape
  <2>3. CASE BrokerStores \/ BrokerNacks \/ BrokerReturns \/ BrokerConfirmsSome
    BY <2>1, <2>3 DEF BrokerStores, BrokerNacks, BrokerReturns, BrokerConfirmsSome,
                      BrokerConfirms, LinkShape
  <2>4. CASE BrokerAcked \/ BrokerRejected
    BY <2>1, <2>4 DEF BrokerAcked, BrokerRejected, LinkShape
  <2>5. CASE BrokerDelivers
    BY <2>1, <2>5 DEF BrokerDelivers, LinkShape
  <2>6. CASE DeadQueueDeleted
    BY <2>1, <2>6 DEF DeadQueueDeleted, LinkShape
  <2> QED BY <1>14, <2>2, <2>3, <2>4, <2>5, <2>6 DEF Brokering
<1>15. CASE Start
  BY <1>15 DEF Start, Connect, LinkShape, brokerVars, storeVars, timerVars, outboxVars
<1>16. CASE Shutdown \/ Crash
  BY <1>16 DEF Shutdown, Crash, NoHandler, CloseLink, LinkShape
<1>17. CASE UNCHANGED vars
  BY <1>17 DEF vars, handlerVars, LinkShape, brokerVars, storeVars, setupVars, timerVars,
               recoverVars, outboxVars
<1> QED BY <1>1, <1>2, <1>3, <1>4, <1>5, <1>6, <1>7, <1>8, <1>9, <1>10, <1>11, <1>12, <1>13,
           <1>14, <1>15, <1>16, <1>17 DEF Next, Looping, Connecting, Receiving

-----------------------------------------------------------------------------
(* The bodies in circulation: where they come from and how often they failed *)

\* Exchanges publish was called for, but for the one it is still admitting.
KnownJobs ==
    Legacy \cup {job \in offered : publisher.pc = "idle" \/ publisher.job # job}

\* A body that may be delivered: each attempt it counts is a persist call that failed.
Circulating ==
    {b \in Body : b.job \in KnownJobs /\ failures[b.job] >= b.attempt}

\* A body that may be quarantined.
GivenUp ==
    {b \in Body : /\ b.job \in KnownJobs
                  /\ b.job \in Jobs => b.attempt = MaxAttempt /\ failures[b.job] > MaxAttempt}

Addressed == ({"main"} \X Circulating) \cup ({"dead"} \X GivenUp)

\* What executeMysql may have passed to done.
Judged ==
    {c \in Completion : /\ c.body \in Circulating
                        /\ c.result = "Ack" => c.body.job \in database
                        /\ c.result = "Retry" => failures[c.body.job] > c.body.attempt
                        /\ c.result = "Reject" => c.body.job \in Legacy}

\* Every body, wherever it is, is one that may be there.
BodiesKnown ==
    /\ publisher.pc # "idle" => publisher.job \in offered
    /\ \A i \in DOMAIN mainQueue : mainQueue[i] \in Circulating
    /\ \A i \in DOMAIN unacked : unacked[i].body \in Circulating
    /\ \A i \in DOMAIN toClient : toClient[i].type = "deliver" => toClient[i].body \in Circulating
    /\ \A i \in DOMAIN completions : completions[i] \in Judged
    /\ \A t \in retryTimers : <<t.queue, t.body>> \in Addressed
    /\ \A i \in DOMAIN submitted : <<submitted[i].queue, submitted[i].body>> \in Addressed
    /\ \A i \in DOMAIN pending_ : <<pending_[i].queue, pending_[i].body>> \in Addressed
    /\ \A t \in DOMAIN inflight_ : <<inflight_[t].queue, inflight_[t].body>> \in Addressed
    /\ \A i \in DOMAIN toBroker :
          toBroker[i].type = "publish" => <<toBroker[i].queue, toBroker[i].body>> \in Addressed
    /\ deadQueue \subseteq GivenUp
    /\ database \subseteq KnownJobs

\* What may be somewhere, may be there ever after.
LEMMA BodiesGrow ==
    ASSUME Inv, BodiesKnown, [Next]_vars
    PROVE  /\ KnownJobs \subseteq KnownJobs'
           /\ Circulating \subseteq Circulating'
           /\ GivenUp \subseteq GivenUp'
           /\ Addressed \subseteq Addressed'
           /\ Judged \subseteq Judged'
           /\ publisher'.pc # "idle" => publisher'.job \in offered'
<1>1. /\ KnownJobs \subseteq KnownJobs'
      /\ publisher'.pc # "idle" => publisher'.job \in offered'
  <2>0. Idle.pc = "idle"
    BY DEF Idle
  <2>1. CASE Publishing
    <3>1. ASSUME NEW job \in Jobs, PublishLoad(job)
          PROVE  <1>1!1 /\ <1>1!2
      <4>1. /\ job \notin offered /\ offered' = offered \cup {job}
            /\ publisher' \in {Idle, [pc |-> "cas", job |-> job, count |-> outstanding_]}
            /\ publisher.pc = "idle"
        BY <2>0, <3>1 DEF PublishLoad
      <4>2. publisher'.pc = "idle" \/ publisher'.job = job
        BY <2>0, <4>1
      <4> QED BY <4>1, <4>2 DEF KnownJobs
    <3>2. CASE PublishReserve
      <4>1. publisher \in [pc : {"cas"}, job : Jobs, count : Nat]
        BY <3>2 DEF PublishReserve, Inv, TypeOK, QueueTypeOK, Publisher, Idle
      <4>2. /\ publisher'.pc = "idle" \/ publisher'.job = publisher.job
            /\ publisher.pc = "cas" /\ offered' = offered
        BY <2>0, <3>2, <4>1 DEF PublishReserve, historyVars
      <4> QED BY <4>2 DEF KnownJobs, BodiesKnown
    <3>3. CASE PublishEnqueue
      BY <2>0, <3>3 DEF PublishEnqueue, KnownJobs
    <3> QED BY <2>1, <3>1, <3>2, <3>3 DEF Publishing
  <2>2. CASE UNCHANGED <<publisher, offered>>
    BY <2>2 DEF KnownJobs, BodiesKnown
  <2>3. CASE publisher' = Idle /\ offered' = offered
    BY <2>0, <2>3 DEF KnownJobs
  <2>4. CASE Looping
    BY <2>2, <2>4 DEF Looping, RunSubmitted, RunCompletion, RunRecover, ReconnectTimerFires,
                      RetryTimerFires, queueVars, historyVars
  <2>5. CASE Connecting
    BY <2>2, <2>5 DEF Connecting, OnConnected, OnError, OnLost, ProducerMainDeclared,
                      ProducerDeadDeclared, DeclareOnProducer, ProducerConfirmSelected,
                      ConsumerStarted, queueVars, historyVars
  <2>6. CASE Receiving
    BY <2>2, <2>6 DEF Receiving, Persisted, PersistFails, ParseFails, Delivered, OnAck,
                      OnNackOrReturn, queueVars, historyVars
  <2>7. CASE Brokering \/ Start \/ UNCHANGED vars
    BY <2>2, <2>7 DEF Brokering, Start, vars, handlerVars, queueVars, historyVars
  <2>8. CASE Shutdown \/ Crash
    BY <2>3, <2>8 DEF Shutdown, Crash, NoHandler
  <2> QED BY <2>1, <2>4, <2>5, <2>6, <2>7, <2>8 DEF Next
<1>2. \A job \in AllJobs : /\ failures[job] \in Nat /\ failures'[job] \in Nat
                           /\ failures'[job] >= failures[job]
  <2>0. failures \in [AllJobs -> Nat]
    BY DEF Inv, TypeOK, HistoryTypeOK
  <2>1. CASE failures' = failures
    BY <2>0, <2>1
  <2>2. CASE Persisted \/ PersistFails \/ ParseFails
    <3>1. PICK stored \in BOOLEAN, result \in Disposition : Delivered(stored, result)
      BY <2>2 DEF Persisted, PersistFails, ParseFails, Disposition
    <3>2. failures' = failures \/ \E job : failures' = [failures EXCEPT ![job] = @ + 1]
      BY <3>1 DEF Delivered
    <3> QED BY <2>0, <3>2
  <2>3. CASE Publishing
    BY <2>1, <2>3 DEF Publishing, PublishLoad, PublishReserve, PublishEnqueue, historyVars
  <2>4. CASE Looping
    BY <2>1, <2>4 DEF Looping, RunSubmitted, RunCompletion, RunRecover, ReconnectTimerFires,
                      RetryTimerFires, historyVars
  <2>5. CASE Connecting
    BY <2>1, <2>5 DEF Connecting, OnConnected, OnError, OnLost, ProducerMainDeclared,
                      ProducerDeadDeclared, DeclareOnProducer, ProducerConfirmSelected,
                      ConsumerStarted, historyVars
  <2>6. CASE OnAck \/ OnNackOrReturn
    BY <2>1, <2>6 DEF OnAck, OnNackOrReturn, historyVars
  <2>7. CASE Brokering \/ Start \/ UNCHANGED vars
    BY <2>1, <2>7 DEF Brokering, Start, vars, handlerVars, historyVars
  <2>8. CASE Shutdown \/ Crash
    BY <2>1, <2>8 DEF Shutdown, Crash, NoHandler
  <2> QED BY <2>2, <2>3, <2>4, <2>5, <2>6, <2>7, <2>8 DEF Next, Receiving
<1>3. \A b \in Body : b.job \in AllJobs /\ b.attempt \in Nat
  BY AttemptAssumption DEF Body
<1>4. database \subseteq database'
  BY DEF Next, Publishing, PublishLoad, PublishReserve, PublishEnqueue, Looping, RunSubmitted,
         RunCompletion, RunRecover, ReconnectTimerFires, RetryTimerFires, Connecting,
         OnConnected, OnError, OnLost, ProducerMainDeclared, ProducerDeadDeclared,
         DeclareOnProducer, ProducerConfirmSelected, ConsumerStarted, Receiving, Persisted,
         PersistFails, ParseFails, Delivered, OnAck, OnNackOrReturn, Brokering, Start,
         Shutdown, Crash, NoHandler, vars, handlerVars, historyVars
<1>5. Circulating \subseteq Circulating'
  <2>1. SUFFICES ASSUME NEW b \in Circulating
                 PROVE  b \in Circulating'
    OBVIOUS
  <2>2. b \in Body /\ b.job \in KnownJobs' /\ failures[b.job] >= b.attempt
    BY <1>1 DEF Circulating
  <2>3. failures'[b.job] >= b.attempt
    BY <1>2, <1>3, <2>2
  <2> QED BY <2>2, <2>3 DEF Circulating
<1>6. GivenUp \subseteq GivenUp'
  <2>1. SUFFICES ASSUME NEW b \in GivenUp
                 PROVE  b \in GivenUp'
    OBVIOUS
  <2>2. /\ b \in Body /\ b.job \in KnownJobs'
        /\ b.job \in Jobs => b.attempt = MaxAttempt /\ failures[b.job] > MaxAttempt
    BY <1>1 DEF GivenUp
  <2>3. b.job \in Jobs => failures'[b.job] > MaxAttempt
    BY <1>2, <1>3, <2>2, AttemptAssumption
  <2> QED BY <2>2, <2>3 DEF GivenUp
<1>7. Addressed \subseteq Addressed'
  BY <1>5, <1>6 DEF Addressed
<1>8. Judged \subseteq Judged'
  <2>1. SUFFICES ASSUME NEW c \in Judged
                 PROVE  c \in Judged'
    OBVIOUS
  <2>2. /\ c \in Completion /\ c.body \in Circulating'
        /\ c.result = "Ack" => c.body.job \in database'
        /\ c.result = "Retry" => failures[c.body.job] > c.body.attempt
        /\ c.result = "Reject" => c.body.job \in Legacy
    BY <1>4, <1>5 DEF Judged
  <2>3. c.result = "Retry" => failures'[c.body.job] > c.body.attempt
    <3>1. c.body \in Body
      BY <2>2 DEF Completion
    <3> QED BY <1>2, <1>3, <2>2, <3>1
  <2> QED BY <2>2, <2>3 DEF Judged
<1> QED BY <1>1, <1>5, <1>6, <1>7, <1>8

\* A delivery that returns to its queue joins the bodies there.
LEMMA RequeuedItems ==
    ASSUME TypeOK
    PROVE  /\ \A i \in DOMAIN Requeued :
                 \/ \E k \in DOMAIN unacked : Requeued[i] = unacked[k].body
                 \/ \E k \in DOMAIN mainQueue : Requeued[i] = mainQueue[k]
           /\ \A k \in DOMAIN unacked : \E i \in DOMAIN Requeued : Requeued[i] = unacked[k].body
           /\ \A k \in DOMAIN mainQueue : \E i \in DOMAIN Requeued : Requeued[i] = mainQueue[k]
<1> DEFINE front == [k \in 1..Len(unacked) |-> unacked[k].body]
<1>1. /\ unacked \in Seq(Delivery) /\ mainQueue \in Seq(Body)
      /\ Len(unacked) \in Nat /\ Len(mainQueue) \in Nat
      /\ \A k \in 1..Len(unacked) : unacked[k].body \in Body
  <2>1. unacked \in Seq(Delivery) /\ mainQueue \in Seq(Body)
    BY DEF TypeOK, AmqpTypeOK
  <2>2. \A k \in 1..Len(unacked) : unacked[k] \in Delivery
    BY <2>1
  <2>3. \A d \in Delivery : d.body \in Body
    BY DEF Delivery
  <2> QED BY <2>1, <2>2, <2>3
<1>2. front \in Seq(Body) /\ Len(front) = Len(unacked)
  BY <1>1
<1>3. Requeued = front \o mainQueue
  BY DEF Requeued
<1>4. /\ DOMAIN Requeued = 1..(Len(unacked) + Len(mainQueue))
      /\ DOMAIN unacked = 1..Len(unacked) /\ DOMAIN mainQueue = 1..Len(mainQueue)
      /\ \A k \in 1..Len(unacked) : Requeued[k] = front[k]
      /\ \A k \in 1..Len(mainQueue) : Requeued[k + Len(unacked)] = mainQueue[k]
  <2>1. DOMAIN unacked = 1..Len(unacked)
    BY <1>1
  <2>2. PICK q \in Seq(Body) : q = front
    BY <1>2
  <2>3. Requeued = q \o mainQueue /\ Len(q) = Len(unacked)
    BY <1>2, <1>3, <2>2
  <2>4. /\ DOMAIN (q \o mainQueue) = 1..(Len(q) + Len(mainQueue))
        /\ DOMAIN mainQueue = 1..Len(mainQueue)
        /\ \A k \in 1..Len(q) : (q \o mainQueue)[k] = q[k]
        /\ \A k \in 1..Len(mainQueue) : (q \o mainQueue)[k + Len(q)] = mainQueue[k]
    BY <1>1, ConcatEntries
  <2> HIDE DEF front
  <2> QED BY <2>1, <2>2, <2>3, <2>4
<1>5. \A k \in 1..Len(unacked) : k \in DOMAIN Requeued /\ front[k] = unacked[k].body
  BY <1>1, <1>4
<1>6. \A k \in 1..Len(mainQueue) : k + Len(unacked) \in DOMAIN Requeued
  BY <1>1, <1>4
<1>7. ASSUME NEW i \in DOMAIN Requeued
      PROVE  \/ \E k \in DOMAIN unacked : Requeued[i] = unacked[k].body
             \/ \E k \in DOMAIN mainQueue : Requeued[i] = mainQueue[k]
  <2>1. CASE i <= Len(unacked)
    <3>1. i \in 1..Len(unacked)
      BY <1>1, <1>4, <2>1
    <3> QED BY <1>4, <1>5, <3>1
  <2>2. CASE i > Len(unacked)
    <3>1. i - Len(unacked) \in 1..Len(mainQueue) /\ (i - Len(unacked)) + Len(unacked) = i
      BY <1>1, <1>4, <2>2
    <3> QED BY <1>4, <3>1
  <2> QED BY <1>1, <1>4, <2>1, <2>2
<1> HIDE DEF front
<1> QED BY <1>4, <1>5, <1>6, <1>7

\* drainPending only moves bodies.
LEMMA DrainPendingBodies ==
    ASSUME TypeOK, BodiesKnown, Addressed \subseteq Addressed', NEW ready \in BOOLEAN,
           NEW waiting \in Seq(Publication), NEW frames \in Seq(ClientFrame),
           NEW flying, DOMAIN flying \subseteq DOMAIN inflight_,
           DrainPending(ready, waiting, flying, frames),
           \A i \in DOMAIN waiting : <<waiting[i].queue, waiting[i].body>> \in Addressed,
           \A t \in DOMAIN flying : <<flying[t].queue, flying[t].body>> \in Addressed,
           \A k \in DOMAIN frames : frames[k].type # "publish"
    PROVE  /\ \A i \in DOMAIN pending_' :
                 <<pending_'[i].queue, pending_'[i].body>> \in Addressed'
           /\ \A t \in DOMAIN inflight_' :
                 <<inflight_'[t].queue, inflight_'[t].body>> \in Addressed'
           /\ \A i \in DOMAIN toBroker' : toBroker'[i].type = "publish" =>
                 <<toBroker'[i].queue, toBroker'[i].body>> \in Addressed'
<1>1. DOMAIN flying \subseteq 1..(nextPublishTag_ - 1)
  BY DEF TypeOK, OutboxTypeOK
<1>2. PICK count \in 0..Len(waiting) : SendBatch(waiting, flying, frames, count)
  BY <1>1, DrainPendingSends
<1>3. /\ \A i \in DOMAIN pending_' : \E k \in DOMAIN waiting : pending_'[i] = waiting[k]
      /\ \A t \in DOMAIN inflight_' :
            \/ t \in DOMAIN flying /\ inflight_'[t] = flying[t]
            \/ \E k \in 1..count : /\ t = nextPublishTag_ + k - 1
                                   /\ inflight_'[t] = waiting[k]
      /\ \A i \in DOMAIN toBroker' :
            \/ i \in DOMAIN toBroker /\ toBroker'[i] = toBroker[i]
            \/ \E k \in DOMAIN frames : toBroker'[i] = frames[k]
            \/ \E k \in DOMAIN waiting :
                  toBroker'[i] = PublishFrame(waiting[k].queue, waiting[k].body)
  BY <1>1, <1>2, SendBatchItems
<1>4. 1..count \subseteq DOMAIN waiting
  OBVIOUS
<1>5. \A i \in DOMAIN toBroker :
         toBroker[i].type = "publish" => <<toBroker[i].queue, toBroker[i].body>> \in Addressed
  BY DEF BodiesKnown
<1>6. \A queue, body : /\ PublishFrame(queue, body).queue = queue
                       /\ PublishFrame(queue, body).body = body
  BY DEF PublishFrame
<1> QED BY <1>3, <1>4, <1>5, <1>6

\* Every step keeps every body where it may be.
LEMMA BodiesKnownStep ==
    ASSUME Inv, Inv', BodiesKnown, [Next]_vars
    PROVE  BodiesKnown'
<1> USE DEF Inv
<1>0. /\ KnownJobs \subseteq KnownJobs' /\ Circulating \subseteq Circulating'
      /\ GivenUp \subseteq GivenUp' /\ Addressed \subseteq Addressed' /\ Judged \subseteq Judged'
      /\ publisher'.pc # "idle" => publisher'.job \in offered'
  BY BodiesGrow
\* The parts of the invariant an action does not touch.
<1> DEFINE StoreOK == /\ \A i \in DOMAIN mainQueue : mainQueue[i] \in Circulating
                      /\ \A i \in DOMAIN unacked : unacked[i].body \in Circulating
                      /\ deadQueue \subseteq GivenUp
           ClientOK == \A i \in DOMAIN toClient :
                          toClient[i].type = "deliver" => toClient[i].body \in Circulating
           DonesOK == \A i \in DOMAIN completions : completions[i] \in Judged
           TimersOK == \A t \in retryTimers : <<t.queue, t.body>> \in Addressed
           SubmittedOK == \A i \in DOMAIN submitted :
                             <<submitted[i].queue, submitted[i].body>> \in Addressed
           OutboxOK == /\ \A i \in DOMAIN pending_ :
                             <<pending_[i].queue, pending_[i].body>> \in Addressed
                       /\ \A t \in DOMAIN inflight_ :
                             <<inflight_[t].queue, inflight_[t].body>> \in Addressed
           WireOK == \A i \in DOMAIN toBroker : toBroker[i].type = "publish" =>
                        <<toBroker[i].queue, toBroker[i].body>> \in Addressed
           DatabaseOK == database \subseteq KnownJobs
<1>a. StoreOK /\ ClientOK /\ DonesOK /\ TimersOK /\ SubmittedOK /\ OutboxOK /\ WireOK /\ DatabaseOK
  BY DEF BodiesKnown
<1>b. SUFFICES /\ StoreOK' /\ ClientOK' /\ DonesOK' /\ TimersOK'
               /\ SubmittedOK' /\ OutboxOK' /\ WireOK' /\ DatabaseOK'
  BY <1>0 DEF BodiesKnown
<1>c. /\ UNCHANGED <<mainQueue, unacked, deadQueue>> => StoreOK'
      /\ UNCHANGED toClient => ClientOK'
      /\ UNCHANGED completions => DonesOK'
      /\ UNCHANGED retryTimers => TimersOK'
      /\ UNCHANGED submitted => SubmittedOK'
      /\ UNCHANGED <<pending_, inflight_>> => OutboxOK'
      /\ UNCHANGED toBroker => WireOK'
      /\ UNCHANGED database => DatabaseOK'
  BY <1>0, <1>a
<1>d. ClientOK /\ toClient # <<>> /\ toClient' = Tail(toClient) => ClientOK'
  <2>1. toClient \in Seq(BrokerFrame)
    BY DEF TypeOK, AmqpTypeOK
  <2>2. ASSUME toClient # <<>>, toClient' = Tail(toClient), NEW i \in DOMAIN toClient'
        PROVE  i + 1 \in DOMAIN toClient /\ toClient'[i] = toClient[i + 1]
    BY <2>1, <2>2
  <2> QED BY <1>0, <2>2
<1>e. ASSUME NEW frames \in Seq(ClientFrame), \A k \in DOMAIN frames : frames[k].type # "publish",
             toBroker' \in {toBroker, Sent(frames)}
      PROVE  WireOK'
  <2>1. toBroker \in Seq(ClientFrame)
    BY DEF TypeOK, AmqpTypeOK
  <2>2. CASE toBroker' = toBroker
    BY <1>c, <2>2
  <2>3. CASE toBroker' = toBroker \o frames
    <3>1. ASSUME NEW i \in DOMAIN toBroker'
          PROVE  \/ i \in DOMAIN toBroker /\ toBroker'[i] = toBroker[i]
                 \/ \E k \in DOMAIN frames : toBroker'[i] = frames[k]
      <4>1. /\ i \in 1..(Len(toBroker) + Len(frames))
            /\ Len(toBroker) \in Nat /\ Len(frames) \in Nat
        BY <2>1, <2>3
      <4>2. CASE i <= Len(toBroker)
        BY <2>1, <2>3, <4>1, <4>2
      <4>3. CASE i > Len(toBroker)
        <5>1. i - Len(toBroker) \in DOMAIN frames /\ toBroker'[i] = frames[i - Len(toBroker)]
          BY <2>1, <2>3, <4>1, <4>3
        <5> QED BY <5>1
      <4> QED BY <4>1, <4>2, <4>3
    <3> QED BY <1>0, <1>a, <1>e, <3>1
  <2> QED BY <1>e, <2>2, <2>3 DEF Sent
<1>f. CloseLink("none", <<>>) \/ CloseLink("broken", toClient) => StoreOK' /\ ClientOK' /\ WireOK'
  <2>1. SUFFICES ASSUME CloseLink("none", <<>>) \/ CloseLink("broken", toClient)
                 PROVE  StoreOK' /\ ClientOK' /\ WireOK'
    OBVIOUS
  <2>2. /\ mainQueue' = Requeued /\ unacked' = <<>> /\ deadQueue' = deadQueue
        /\ toBroker' = <<>> /\ (toClient' = toClient \/ toClient' = <<>>)
    BY <2>1 DEF CloseLink
  <2>3. \A i \in DOMAIN Requeued :
            \/ \E k \in DOMAIN unacked : Requeued[i] = unacked[k].body
            \/ \E k \in DOMAIN mainQueue : Requeued[i] = mainQueue[k]
    BY RequeuedItems
  <2>4. StoreOK'
    BY <1>0, <1>a, <2>2, <2>3
  <2>5. ClientOK' /\ WireOK'
    BY <1>0, <1>a, <2>2
  <2> QED BY <2>4, <2>5
<1> HIDE DEF StoreOK, ClientOK, DonesOK, TimersOK, SubmittedOK, OutboxOK, WireOK, DatabaseOK
<1>1. CASE Publishing
  <2>1. UNCHANGED <<mainQueue, unacked, deadQueue, toClient, completions, retryTimers, pending_,
                    inflight_, toBroker, database>>
    BY <1>1 DEF Publishing, PublishLoad, PublishReserve, PublishEnqueue, brokerVars,
                storeVars, outboxVars, timerVars, historyVars
  <2>2. CASE submitted' = submitted
    BY <1>c, <2>1, <2>2
  <2>3. CASE PublishEnqueue
    <3> DEFINE item == [queue |-> "main", body |-> FirstBody(publisher.job),
                        source |-> NoDelivery]
    <3>1. publisher.job \in Jobs
      BY <2>3 DEF PublishEnqueue, TypeOK, QueueTypeOK, Publisher, Idle
    <3>2. publisher.job \in KnownJobs'
      <4>1. publisher'.pc = "idle" /\ publisher.job \in offered /\ offered' = offered
        BY <2>3 DEF PublishEnqueue, Idle, BodiesKnown
      <4> QED BY <4>1 DEF KnownJobs
    <3>3. FirstBody(publisher.job) \in Circulating'
      <4>1. failures'[publisher.job] \in Nat
        BY <3>1 DEF TypeOK, HistoryTypeOK, AllJobs
      <4>2. FirstBody(publisher.job) \in Body
        BY <3>1, AttemptAssumption DEF FirstBody, Body, AllJobs
      <4> QED BY <3>2, <4>1, <4>2 DEF Circulating, FirstBody
    <3>4. <<item.queue, item.body>> \in Addressed'
      BY <3>3 DEF Addressed
    <3>5. submitted' = Append(submitted, item) /\ submitted \in Seq(Publication)
      BY <2>3 DEF PublishEnqueue, TypeOK, QueueTypeOK
    <3>6. SubmittedOK'
      <4> HIDE DEF item
      <4> QED BY <1>0, <1>a, <3>4, <3>5 DEF SubmittedOK
    <3> QED BY <1>c, <2>1, <3>6
  <2> QED BY <1>1, <2>2, <2>3 DEF Publishing, PublishLoad, PublishReserve
<1>2. CASE RunSubmitted
  <2>1. UNCHANGED <<mainQueue, unacked, deadQueue, toClient, completions, retryTimers, database>>
    BY <1>2 DEF RunSubmitted, storeVars, timerVars, historyVars
  <2>2. /\ submitted \in Seq(Publication) /\ submitted # <<>> /\ submitted' = Tail(submitted)
        /\ pending_ \in Seq(Publication) /\ <<>> \in Seq(ClientFrame)
        /\ producerReady_ \in BOOLEAN
    BY <1>2, EmptySeq DEF RunSubmitted, TypeOK, QueueTypeOK, OutboxTypeOK, ControlTypeOK
  <2>3. SubmittedOK'
    <3>1. \A i \in DOMAIN submitted' : i + 1 \in DOMAIN submitted /\ submitted'[i] = submitted[i + 1]
      BY <2>2
    <3> QED BY <1>0, <1>a, <3>1 DEF SubmittedOK
  <2>4. PICK waiting \in Seq(Publication) : waiting = Append(pending_, Head(submitted))
    <3>1. Append(pending_, Head(submitted)) \in Seq(Publication)
      BY <2>2
    <3> QED BY <3>1
  <2>5. \A i \in DOMAIN waiting : <<waiting[i].queue, waiting[i].body>> \in Addressed
    <3>1. \A i \in DOMAIN waiting : \/ i \in DOMAIN pending_ /\ waiting[i] = pending_[i]
                                    \/ waiting[i] = submitted[1]
      BY <2>2, <2>4
    <3>2. 1 \in DOMAIN submitted
      BY <2>2
    <3> QED BY <1>a, <3>1, <3>2 DEF OutboxOK, SubmittedOK
  <2>6. PICK none \in Seq(ClientFrame) :
            DOMAIN none = {} /\ DrainPending(producerReady_, waiting, inflight_, none)
    <3>1. PICK none : none = <<>>
      OBVIOUS
    <3>2. DOMAIN none = {} /\ none \in Seq(ClientFrame)
      BY <2>2, <3>1
    <3>3. DrainPending(producerReady_, waiting, inflight_, none)
      BY <1>2, <2>4, <3>1 DEF RunSubmitted
    <3> QED BY <3>2, <3>3
  <2>7. OutboxOK' /\ WireOK'
    BY <1>0, <1>a, <2>2, <2>5, <2>6, DrainPendingBodies DEF OutboxOK, WireOK
  <2> QED BY <1>c, <2>1, <2>3, <2>7
<1>3. CASE RunCompletion
  <2>1. UNCHANGED <<mainQueue, unacked, deadQueue, toClient, submitted, pending_, inflight_,
                    database>>
    BY <1>3 DEF RunCompletion, storeVars, outboxVars, historyVars
  <2>2. /\ completions \in Seq(Completion) /\ completions # <<>>
        /\ completions' = Tail(completions)
    BY <1>3 DEF RunCompletion, TypeOK, QueueTypeOK
  <2>3. DonesOK'
    <3>1. \A i \in DOMAIN completions' :
             i + 1 \in DOMAIN completions /\ completions'[i] = completions[i + 1]
      BY <2>2
    <3> QED BY <1>0, <1>a, <3>1 DEF DonesOK
  <2>4. PICK done \in Completion : done = Head(completions) /\ done \in Judged
    <3>1. Head(completions) = completions[1] /\ 1 \in DOMAIN completions
      BY <2>2
    <3> QED BY <1>a, <2>2, <3>1 DEF DonesOK, Judged
  <2>5. WireOK'
    <3>0. <<AckFrame(done.tag)>> \in Seq(ClientFrame)
      BY <2>4 DEF Completion, AckFrame, ClientFrame
    <3>1. PICK frames \in Seq(ClientFrame) : frames = <<AckFrame(done.tag)>>
      BY <3>0
    <3>2. \A k \in DOMAIN frames : frames[k].type # "publish"
      BY <3>1 DEF AckFrame
    <3>3. toBroker' \in {toBroker, Sent(frames)}
      BY <1>3, <2>4, <3>1 DEF RunCompletion
    <3> QED BY <1>e, <3>2, <3>3
  <2>6. done.result # "Ack" =>
            <<Replacement(done).queue, Replacement(done).body>> \in Addressed
    <3>1. SUFFICES ASSUME done.result # "Ack"
                   PROVE  <<Replacement(done).queue, Replacement(done).body>> \in Addressed
      OBVIOUS
    <3>2. /\ done.body \in Circulating /\ done.body \in Body
          /\ done.result \in {"Retry", "Reject"}
          /\ done.result = "Retry" => failures[done.body.job] > done.body.attempt
          /\ done.result = "Reject" => done.body.job \in Legacy
      BY <2>4, <3>1 DEF Judged, Completion, Disposition
    <3>3. /\ done.body.job \in KnownJobs /\ done.body.job \in AllJobs
          /\ done.body.attempt \in 0..MaxAttempt /\ failures[done.body.job] \in Nat
      BY <3>2 DEF Circulating, Body, TypeOK, HistoryTypeOK
    <3>4. \A queue, body : /\ Replaces(done, queue, body).queue = queue
                           /\ Replaces(done, queue, body).body = body
      BY DEF Replaces
    <3>5. CASE done.result = "Retry" /\ done.body.attempt < MaxAttempt
      <4> DEFINE next == [done.body EXCEPT !.attempt = @ + 1]
      <4>1. /\ next \in Body /\ next.job = done.body.job
            /\ next.attempt = done.body.attempt + 1
        BY <3>2, <3>3, <3>5, AttemptAssumption DEF Body
      <4>2. failures[done.body.job] >= done.body.attempt + 1
        BY <3>2, <3>3, <3>5, AttemptAssumption
      <4>a. next \in Circulating
        <5> HIDE DEF next
        <5> QED BY <3>3, <4>1, <4>2 DEF Circulating
      <4>3. Replacement(done) = Replaces(done, "main", next)
        BY <3>5 DEF Replacement
      <4> HIDE DEF next
      <4> QED BY <3>4, <4>a, <4>3 DEF Addressed
    <3>6. CASE ~(done.result = "Retry" /\ done.body.attempt < MaxAttempt)
      <4>1. done.body.job \in Jobs => /\ done.body.attempt = MaxAttempt
                                      /\ failures[done.body.job] > MaxAttempt
        BY <3>2, <3>3, <3>6, AttemptAssumption, JobsAssumption
      <4>2. done.body \in GivenUp
        BY <3>2, <3>3, <4>1 DEF GivenUp
      <4>3. Replacement(done) = Replaces(done, "dead", done.body)
        BY <3>6 DEF Replacement
      <4> QED BY <3>4, <4>2, <4>3 DEF Addressed
    <3> QED BY <3>5, <3>6
  <2>7. TimersOK'
    <3>1. \/ retryTimers' = retryTimers
          \/ done.result # "Ack" /\ retryTimers' = retryTimers \cup {Replacement(done)}
      BY <1>3, <2>4 DEF RunCompletion
    <3> QED BY <1>0, <1>a, <2>6, <3>1 DEF TimersOK
  <2> QED BY <1>c, <2>1, <2>3, <2>5, <2>7
<1>4. CASE RunRecover
  <2>1. UNCHANGED <<completions, submitted, database, retryTimers>>
    BY <1>4 DEF RunRecover, queueVars, historyVars
  <2>2. pending_' = Reclaimed /\ DOMAIN inflight_' = {}
    BY <1>4 DEF RunRecover
  <2>3. OutboxOK'
    BY <1>0, <1>a, <2>2, ReclaimedItems DEF OutboxOK
  <2> QED BY <1>4, <1>c, <1>f, <2>1, <2>3 DEF RunRecover
<1>5. CASE ReconnectTimerFires \/ Start
  BY <1>5, <1>c DEF ReconnectTimerFires, Start, brokerVars, storeVars, outboxVars, queueVars,
                    historyVars, timerVars
<1>6. ASSUME NEW timer \in retryTimers, RetryTimerFires(timer)
      PROVE  <1>b!1
  <2>1. UNCHANGED <<mainQueue, unacked, deadQueue, toClient, completions, pending_, inflight_,
                    database>>
    BY <1>6 DEF RetryTimerFires, storeVars, outboxVars, historyVars
  <2>2. TimersOK'
    BY <1>0, <1>6, <1>a DEF RetryTimerFires, TimersOK
  <2>3. WireOK'
    <3>1. timer \in RetryTimer
      BY DEF TypeOK, QueueTypeOK
    <3>a. <<RejectFrame(timer.tag)>> \in Seq(ClientFrame)
      BY <3>1 DEF RetryTimer, RejectFrame, ClientFrame
    <3>2. PICK frames \in Seq(ClientFrame) : frames = <<RejectFrame(timer.tag)>>
      BY <3>a
    <3>3. \A k \in DOMAIN frames : frames[k].type # "publish"
      BY <3>2 DEF RejectFrame
    <3>4. toBroker' \in {toBroker, Sent(frames)}
      BY <1>6, <3>2 DEF RetryTimerFires, GivenBack
    <3> QED BY <1>e, <3>3, <3>4
  <2>4. SubmittedOK'
    <3> DEFINE item == [queue |-> timer.queue, body |-> timer.body,
                        source |-> [gen |-> timer.gen, tag |-> timer.tag]]
    <3>1. submitted' \in {submitted, Append(submitted, item)} /\ submitted \in Seq(Publication)
      BY <1>6 DEF RetryTimerFires, TypeOK, QueueTypeOK
    <3>2. <<item.queue, item.body>> \in Addressed
      BY <1>a DEF TimersOK
    <3>3. CASE submitted' = submitted
      BY <1>c, <3>3
    <3>4. CASE submitted' = Append(submitted, item)
      <4> HIDE DEF item
      <4>1. \A i \in DOMAIN submitted' :
               (i \in DOMAIN submitted /\ submitted'[i] = submitted[i]) \/ submitted'[i] = item
        BY <3>1, <3>4
      <4> QED BY <1>0, <1>a, <3>2, <4>1 DEF SubmittedOK
    <3> QED BY <3>1, <3>3, <3>4
  <2> QED BY <1>c, <2>1, <2>2, <2>3, <2>4
<1>7. CASE Connecting /\ ~ProducerConfirmSelected
  BY <1>7, <1>c DEF Connecting, OnConnected, OpenLink, OnError, OnLost, ProducerMainDeclared,
                    ProducerDeadDeclared, DeclareOnProducer, ConsumerStarted, brokerVars,
                    storeVars, outboxVars, queueVars, historyVars, timerVars
<1>8. CASE ProducerConfirmSelected
  <2>1. UNCHANGED <<mainQueue, unacked, deadQueue, toClient, completions, retryTimers, submitted,
                    database>>
    BY <1>8 DEF ProducerConfirmSelected, storeVars, timerVars, queueVars, historyVars
  <2>2. /\ pending_ \in Seq(Publication) /\ <<>> \in Seq(ClientFrame)
        /\ DrainPending(TRUE, pending_, inflight_, <<>>)
    BY <1>8, EmptySeq DEF ProducerConfirmSelected, TypeOK, OutboxTypeOK
  <2>a. PICK none \in Seq(ClientFrame), ready \in BOOLEAN :
            DOMAIN none = {} /\ DrainPending(ready, pending_, inflight_, none)
    <3>1. PICK none, ready : none = <<>> /\ ready = TRUE
      OBVIOUS
    <3>2. DOMAIN none = {} /\ none \in Seq(ClientFrame) /\ ready \in BOOLEAN
      BY <2>2, <3>1
    <3>3. DrainPending(ready, pending_, inflight_, none)
      BY <2>2, <3>1, Zenon
    <3> QED BY <3>2, <3>3
  <2>3. OutboxOK' /\ WireOK'
    BY <1>0, <1>a, <2>2, <2>a, DrainPendingBodies DEF OutboxOK, WireOK
  <2> QED BY <1>c, <2>1, <2>3
<1>9. CASE Persisted \/ PersistFails \/ ParseFails
  <2>1. PICK stored \in BOOLEAN, result \in Disposition :
            /\ Delivered(stored, result)
            /\ stored => Head(toClient).body.job \in Jobs
            /\ result = "Ack" => stored
            /\ result = "Reject" => Head(toClient).body.job \in Legacy
    BY <1>9 DEF Persisted, PersistFails, ParseFails, Disposition
  <2>2. toClient # <<>> /\ Head(toClient).type = "deliver" /\ toClient \in Seq(BrokerFrame)
    BY <1>9 DEF Persisted, PersistFails, ParseFails, Receives, TypeOK, AmqpTypeOK
  <2>3. PICK frame \in BrokerFrame : frame = Head(toClient) /\ frame = toClient[1]
    BY <2>2
  <2>4. UNCHANGED <<mainQueue, unacked, deadQueue, retryTimers, submitted, pending_, inflight_,
                    toBroker>>
    BY <2>1 DEF Delivered, storeVars, timerVars, outboxVars
  <2>5. ClientOK'
    BY <1>a, <1>d, <2>1, <2>2 DEF Delivered
  <2>6. frame.body \in Circulating /\ frame.body \in Body /\ frame.tag \in Nat \ {0}
    <3>1. 1 \in DOMAIN toClient
      BY <2>2
    <3>2. frame.body \in Circulating
      BY <1>a, <2>2, <2>3, <3>1 DEF ClientOK
    <3> QED BY <2>2, <2>3, <3>2 DEF Circulating, BrokerFrame
  <2>7. /\ frame.body.job \in AllJobs /\ frame.body.job \in KnownJobs
        /\ frame.body.attempt \in Nat /\ failures[frame.body.job] >= frame.body.attempt
        /\ failures \in [AllJobs -> Nat]
    BY <2>6, AttemptAssumption DEF Circulating, Body, TypeOK, HistoryTypeOK
  <2>8. DatabaseOK'
    <3>1. database' \in {database, database \cup {frame.body.job}}
      BY <2>1, <2>3 DEF Delivered
    <3> QED BY <1>0, <1>a, <2>7, <3>1 DEF DatabaseOK
  <2>9. PICK done \in Completion :
            done = [gen |-> generation_, tag |-> frame.tag, result |-> result, body |-> frame.body]
    BY <2>1, <2>6 DEF Completion, TypeOK, ControlTypeOK
  <2>10. done \in Judged'
    <3>1. result = "Ack" => frame.body.job \in database'
      BY <2>1, <2>3 DEF Delivered
    <3>2. result = "Retry" => failures'[frame.body.job] > frame.body.attempt
      BY <2>1, <2>3, <2>7 DEF Delivered
    <3>3. frame.body \in Circulating' /\ result = "Reject" => frame.body.job \in Legacy
      BY <1>0, <2>1, <2>3, <2>6
    <3>4. frame.body \in Circulating'
      BY <1>0, <2>6
    <3>5. done.result = result /\ done.body = frame.body
      BY <2>9
    <3> QED BY <3>1, <3>2, <3>3, <3>4, <3>5 DEF Judged
  <2>11. completions' = Append(completions, done) /\ completions \in Seq(Completion)
    BY <2>1, <2>3, <2>9 DEF Delivered, TypeOK, QueueTypeOK
  <2>12. DonesOK'
    BY <1>0, <1>a, <2>10, <2>11 DEF DonesOK
  <2> QED BY <1>c, <2>4, <2>5, <2>8, <2>12
<1>10. CASE OnAck
  <2>1. UNCHANGED <<mainQueue, unacked, deadQueue, completions, retryTimers, submitted, database>>
    BY <1>10 DEF OnAck, storeVars, timerVars, queueVars
  <2>2. ClientOK'
    BY <1>10, <1>a, <1>d DEF OnAck, Receives
  <2>3. CASE UNCHANGED <<toBroker, outboxVars>>
    BY <1>c, <2>1, <2>2, <2>3 DEF outboxVars
  <2>4. CASE Confirm(Head(toClient))
    <3>1. PICK tags : tags = Confirmable(Head(toClient))
      OBVIOUS
    <3>2. PICK rest : rest = [t \in DOMAIN inflight_ \ tags |-> inflight_[t]]
      OBVIOUS
    <3>3. DrainPending(producerReady_, pending_, rest, CompletionAcks(tags))
      BY <2>4, <3>1, <3>2 DEF Confirm
    <3>4. tags \subseteq DOMAIN inflight_ /\ DOMAIN rest \subseteq DOMAIN inflight_
      BY <3>1, <3>2 DEF Confirmable
    <3>5. CompletionAcks(tags) \in Seq(ClientFrame)
      BY <3>4, CompletionAcksAreFrames DEF TypeOK
    <3>6. \A k \in DOMAIN CompletionAcks(tags) : CompletionAcks(tags)[k].type # "publish"
      BY <3>4, CompletionAcksItems DEF AckFrame
    <3>7. pending_ \in Seq(Publication) /\ producerReady_ \in BOOLEAN
      BY DEF TypeOK, OutboxTypeOK, ControlTypeOK
    <3>8. \A t \in DOMAIN rest : <<rest[t].queue, rest[t].body>> \in Addressed
      BY <1>a, <3>2 DEF OutboxOK
    <3>9. OutboxOK' /\ WireOK'
      BY <1>0, <1>a, <3>3, <3>4, <3>5, <3>6, <3>7, <3>8, DrainPendingBodies
         DEF OutboxOK, WireOK
    <3> QED BY <1>c, <2>1, <2>2, <3>9
  <2> QED BY <1>10, <2>3, <2>4 DEF OnAck
<1>11. CASE OnNackOrReturn
  <2>1. ClientOK'
    BY <1>11, <1>a, <1>d DEF OnNackOrReturn, Receives
  <2> QED BY <1>11, <1>c, <2>1 DEF OnNackOrReturn, storeVars, timerVars, outboxVars, queueVars,
                                   historyVars
<1>12. CASE Brokering
  <2>1. UNCHANGED <<completions, retryTimers, submitted, pending_, inflight_, database>>
    BY <1>12 DEF Brokering, handlerVars, timerVars, queueVars, outboxVars, historyVars
  <2>2. /\ toBroker \in Seq(ClientFrame) /\ toClient \in Seq(BrokerFrame)
        /\ mainQueue \in Seq(Body) /\ received \in Nat
    BY DEF TypeOK, AmqpTypeOK
  <2>3. toBroker # <<>> /\ toBroker' = Tail(toBroker) => WireOK'
    <3>1. ASSUME toBroker # <<>>, toBroker' = Tail(toBroker), NEW i \in DOMAIN toBroker'
          PROVE  i + 1 \in DOMAIN toBroker /\ toBroker'[i] = toBroker[i + 1]
      BY <2>2, <3>1
    <3> QED BY <1>0, <1>a, <3>1 DEF WireOK
  <2>4. ASSUME NEW frame, frame.type # "deliver", toClient' = Append(toClient, frame)
        PROVE  ClientOK'
    BY <1>0, <1>a, <2>2, <2>4 DEF ClientOK
  <2>5. CASE LinkBreaks
    BY <1>c, <1>f, <2>1, <2>5 DEF LinkBreaks
  <2>6. CASE BrokerStores
    <3>1. PICK frame : frame = Head(toBroker) /\ frame = toBroker[1]
      BY <2>2, <2>6 DEF BrokerStores
    <3>2. 1 \in DOMAIN toBroker
      BY <2>2, <2>6 DEF BrokerStores
    <3>3. <<frame.queue, frame.body>> \in Addressed
      BY <1>a, <2>6, <3>1, <3>2 DEF BrokerStores, WireOK
    <3>4. /\ frame.queue = "main" => frame.body \in Circulating
          /\ frame.queue = "dead" => frame.body \in GivenUp
      BY <3>3 DEF Addressed
    <3>5. /\ unacked' = unacked
          /\ mainQueue' = mainQueue \/ (frame.queue = "main" /\ mainQueue' = Append(mainQueue, frame.body))
          /\ deadQueue' = deadQueue \/ (frame.queue = "dead" /\ deadQueue' = deadQueue \cup {frame.body})
      BY <2>6, <3>1 DEF BrokerStores
    <3>a. \A i \in DOMAIN mainQueue' :
             \/ i \in DOMAIN mainQueue /\ mainQueue'[i] = mainQueue[i]
             \/ frame.queue = "main" /\ mainQueue'[i] = frame.body
      BY <2>2, <3>5
    <3>6. StoreOK'
      BY <1>0, <1>a, <3>4, <3>5, <3>a DEF StoreOK
    <3> QED BY <1>c, <2>1, <2>3, <2>6, <3>6 DEF BrokerStores
  <2>7. CASE BrokerNacks
    <3>1. ClientOK'
      BY <2>4, <2>7 DEF BrokerNacks
    <3> QED BY <1>c, <2>1, <2>3, <2>7, <3>1 DEF BrokerNacks
  <2>8. CASE BrokerReturns
    <3>1. PICK back, conf : /\ back = [type |-> "return"]
                            /\ conf = [type |-> "confirm", tag |-> received + 1, multiple |-> FALSE]
      OBVIOUS
    <3>2. toClient' = toClient \o <<back, conf>>
      BY <2>8, <3>1 DEF BrokerReturns
    <3>3. back.type # "deliver" /\ conf.type # "deliver"
      BY <3>1
    <3>4. \A i \in DOMAIN toClient' : \/ i \in DOMAIN toClient /\ toClient'[i] = toClient[i]
                                      \/ toClient'[i] \in {back, conf}
      BY <2>2, <3>2
    <3>5. ClientOK'
      BY <1>0, <1>a, <3>3, <3>4 DEF ClientOK
    <3> QED BY <1>c, <2>1, <2>3, <2>8, <3>5 DEF BrokerReturns
  <2>9. CASE BrokerConfirmsSome
    <3>1. ClientOK'
      BY <2>4, <2>9 DEF BrokerConfirmsSome, BrokerConfirms
    <3> QED BY <1>c, <2>1, <2>9, <3>1 DEF BrokerConfirmsSome, BrokerConfirms
  <2>10. CASE BrokerAcked
    <3>1. StoreOK'
      <4>1. /\ UNCHANGED <<mainQueue, deadQueue>> /\ (unacked' = unacked \/ unacked' = <<>>)
        BY <2>10 DEF BrokerAcked
      <4> QED BY <1>0, <1>a, <4>1 DEF StoreOK
    <3> QED BY <1>c, <2>1, <2>3, <2>10, <3>1 DEF BrokerAcked
  <2>11. CASE BrokerRejected
    <3>1. StoreOK'
      <4>1. CASE mainQueue' = Requeued /\ unacked' = <<>> /\ deadQueue' = deadQueue
        <5>1. \A i \in DOMAIN Requeued :
                 \/ \E k \in DOMAIN unacked : Requeued[i] = unacked[k].body
                 \/ \E k \in DOMAIN mainQueue : Requeued[i] = mainQueue[k]
          BY RequeuedItems
        <5> QED BY <1>0, <1>a, <4>1, <5>1 DEF StoreOK
      <4> QED BY <1>c, <2>11, <4>1 DEF BrokerRejected
    <3> QED BY <1>c, <2>1, <2>3, <2>11, <3>1 DEF BrokerRejected
  <2>12. CASE BrokerDelivers
    <3>1. PICK body : body = Head(mainQueue) /\ body \in Circulating
      <4>1. 1 \in DOMAIN mainQueue /\ Head(mainQueue) = mainQueue[1]
        BY <2>2, <2>12 DEF BrokerDelivers
      <4> QED BY <1>a, <4>1 DEF StoreOK
    <3>2. PICK frame : frame = [type |-> "deliver", tag |-> deliveries + 1, body |-> body]
      OBVIOUS
    <3>3. toClient' = Append(toClient, frame) /\ frame.body = body
      BY <2>12, <3>1, <3>2 DEF BrokerDelivers
    <3>4. ClientOK'
      BY <1>0, <1>a, <2>2, <3>1, <3>3 DEF ClientOK
    <3>5. \A i \in DOMAIN mainQueue' : i + 1 \in DOMAIN mainQueue /\ mainQueue'[i] = mainQueue[i + 1]
      BY <2>2, <2>12 DEF BrokerDelivers
    <3>6. \A i \in DOMAIN unacked' : unacked'[i].body = body
      BY <2>12, <3>1 DEF BrokerDelivers
    <3>7. StoreOK'
      BY <1>0, <1>a, <2>12, <3>1, <3>5, <3>6 DEF StoreOK, BrokerDelivers
    <3> QED BY <1>c, <2>1, <2>12, <3>4, <3>7 DEF BrokerDelivers
  <2>13. CASE DeadQueueDeleted
    BY <1>c, <2>1, <2>13 DEF DeadQueueDeleted
  <2> QED BY <1>12, <2>5, <2>6, <2>7, <2>8, <2>9, <2>10, <2>11, <2>12, <2>13 DEF Brokering
<1>13. CASE Shutdown \/ Crash
  <2>1. NoHandler
    BY <1>13 DEF Shutdown, Crash
  <2>2. /\ DonesOK' /\ TimersOK' /\ SubmittedOK' /\ OutboxOK'
    BY <2>1 DEF NoHandler, DonesOK, TimersOK, SubmittedOK, OutboxOK
  <2> QED BY <1>c, <1>f, <2>1, <2>2 DEF NoHandler
<1>14. CASE UNCHANGED vars
  BY <1>c, <1>14 DEF vars, handlerVars, brokerVars, storeVars, timerVars, queueVars, outboxVars,
                     historyVars
<1> QED BY <1>1, <1>2, <1>3, <1>4, <1>5, <1>6, <1>7, <1>8, <1>9, <1>10, <1>11, <1>12, <1>13,
           <1>14 DEF Next, Looping, Connecting, Receiving

-----------------------------------------------------------------------------
(* Each delivery has exactly one step that will settle it *)

\* One if the broker waits for this tag.
Waits(tag) == IF Awaits(tag) THEN 1 ELSE 0

\* No functor, timer or publication belongs to a connection that is still to come.
NoFuture ==
    /\ \A i \in DOMAIN completions : completions[i].gen <= generation_
    /\ \A t \in retryTimers : t.gen <= generation_
    /\ \A i \in DOMAIN submitted : submitted[i].source.gen <= generation_
    /\ \A i \in DOMAIN pending_ : pending_[i].source.gen <= generation_
    /\ \A t \in DOMAIN inflight_ : inflight_[t].source.gen <= generation_

\* On a connection that is up, at most the awaited delivery has a settler, and it has
\* one unless the connection has failed; without a connection nothing has a settler.
SettlersExact ==
    /\ IsFiniteSet(retryTimers)
    /\ NoFuture
    /\ link = "none" => \A tag \in Nat \ {0} : Settlers(tag) = 0
    /\ link = "up" => \A tag \in Nat \ {0} :
                         /\ Settlers(tag) <= Waits(tag)
                         /\ ~recovering_ => Settlers(tag) = Waits(tag)

\* The sum, in the next state.
LEMMA SettlersSumNext ==
    TypeOK' => \A tag : Settlers(tag)' = HitCount(toClient', Deliveries(tag)')
                           + HitCount(completions', Dones(tag)')
                           + Cardinality(Timers(tag)')
                           + HitCount(submitted', Owners(tag)')
                           + HitCount(pending_', Owners(tag)')
                           + HitCount(inflight_', Owners(tag)')
                           + HitCount(toBroker', Answers(tag)')
<1> DEFINE Sum(tag) == HitCount(toClient, Deliveries(tag))
                           + HitCount(completions, Dones(tag))
                           + Cardinality(Timers(tag))
                           + HitCount(submitted, Owners(tag))
                           + HitCount(pending_, Owners(tag))
                           + HitCount(inflight_, Owners(tag))
                           + HitCount(toBroker, Answers(tag))
           Summed == \A tag : Settlers(tag) = Sum(tag)
<1>1. TypeOK => Summed
  BY SettlersSum
<1>2. (TypeOK => Summed)'
  BY <1>1, PTL
<1> QED BY <1>2 DEF HitCount, Hits

LEMMA SettlerTermsNext ==
    TypeOK' /\ IsFiniteSet(retryTimers') => \A tag :
           /\ HitCount(toClient', Deliveries(tag)') \in Nat
           /\ HitCount(completions', Dones(tag)') \in Nat
           /\ IsFiniteSet(Timers(tag)') /\ Cardinality(Timers(tag)') \in Nat
           /\ HitCount(submitted', Owners(tag)') \in Nat
           /\ HitCount(pending_', Owners(tag)') \in Nat
           /\ HitCount(inflight_', Owners(tag)') \in Nat
           /\ HitCount(toBroker', Answers(tag)') \in Nat
<1> DEFINE Typed == \A tag :
           /\ HitCount(toClient, Deliveries(tag)) \in Nat
           /\ HitCount(completions, Dones(tag)) \in Nat
           /\ IsFiniteSet(Timers(tag)) /\ Cardinality(Timers(tag)) \in Nat
           /\ HitCount(submitted, Owners(tag)) \in Nat
           /\ HitCount(pending_, Owners(tag)) \in Nat
           /\ HitCount(inflight_, Owners(tag)) \in Nat
           /\ HitCount(toBroker, Answers(tag)) \in Nat
<1>1. TypeOK /\ IsFiniteSet(retryTimers) => Typed
  BY SettlerTerms
<1>2. (TypeOK /\ IsFiniteSet(retryTimers) => Typed)'
  BY <1>1, PTL
<1> QED BY <1>2 DEF HitCount, Hits

\* Writing frames to a connection that is up adds their answers, otherwise nothing.
LEMMA SentCount ==
    ASSUME TypeOK, NEW frames \in Seq(ClientFrame), NEW P
    PROVE  HitCount(Sent(frames), P)
               = HitCount(toBroker, P) + (IF link = "up" THEN HitCount(frames, P) ELSE 0)
<1>1. toBroker \in Seq(ClientFrame)
  BY DEF TypeOK, AmqpTypeOK
<1>2. HitCount(toBroker, P) \in Nat
  BY <1>1, HitsFinite
<1>3. CASE link = "up"
  BY <1>1, <1>3, HitCountConcat DEF Sent
<1>4. CASE link # "up"
  BY <1>2, <1>4 DEF Sent
<1> QED BY <1>3, <1>4

\* drainPending changes no count but that of the frames its caller has written.
LEMMA DrainPendingCounts ==
    ASSUME TypeOK, NEW ready \in BOOLEAN, NEW waiting \in Seq(Publication),
           NEW frames \in Seq(ClientFrame),
           NEW flying, DOMAIN flying \subseteq DOMAIN inflight_,
           DrainPending(ready, waiting, flying, frames)
    PROVE  /\ \A P : HitCount(pending_', P) + HitCount(inflight_', P)
                        = HitCount(waiting, P) + HitCount(flying, P)
           /\ \A tag : HitCount(toBroker', Answers(tag)) = HitCount(toBroker, Answers(tag))
                        + (IF link = "up" THEN HitCount(frames, Answers(tag)) ELSE 0)
           /\ recovering_ => recovering_'
<1>1. DOMAIN flying \subseteq 1..(nextPublishTag_ - 1)
  BY DEF TypeOK, OutboxTypeOK
<1>2. PICK count \in 0..Len(waiting) : SendBatch(waiting, flying, frames, count)
  BY <1>1, DrainPendingSends
<1>3. recovering_ => recovering_'
  BY <1>1, DrainPendingSends
<1>4. \A P : HitCount(pending_', P) + HitCount(inflight_', P)
                = HitCount(waiting, P) + HitCount(flying, P)
  BY <1>1, <1>2, SendBatchCounts
<1>5. PICK sends : sends = [i \in 1..count |-> PublishFrame(waiting[i].queue, waiting[i].body)]
  OBVIOUS
<1>6. \A i \in 1..count : sends[i] \in ClientFrame /\ sends[i].type = "publish"
  <2>1. \A i \in 1..count : waiting[i] \in Publication
    OBVIOUS
  <2> QED BY <1>5, <2>1 DEF Publication, PublishFrame, ClientFrame
<1>7. sends \in Seq(ClientFrame) /\ DOMAIN sends = 1..count
  BY <1>5, <1>6
<1>8. \A tag : HitCount(sends, Answers(tag)) = 0
  <2>1. ASSUME NEW tag
        PROVE  HitCount(sends, Answers(tag)) = 0
    <3>1. \A i \in DOMAIN sends : sends[i] \notin Answers(tag)
      BY <1>6, <1>7 DEF Answers
    <3> QED BY <3>1, HitCountZero
  <2> QED BY <2>1
<1>9. PICK all \in Seq(ClientFrame) : all = frames \o sends
  <2>1. frames \o sends \in Seq(ClientFrame)
    BY <1>7
  <2> QED BY <2>1
<1>10. ASSUME NEW tag
       PROVE  HitCount(all, Answers(tag)) = HitCount(frames, Answers(tag))
  <2>1. HitCount(all, Answers(tag)) = HitCount(frames, Answers(tag)) + HitCount(sends, Answers(tag))
    BY <1>7, <1>9, HitCountConcat
  <2>2. HitCount(frames, Answers(tag)) \in Nat
    BY HitsFinite
  <2> QED BY <1>8, <2>1, <2>2
<1>11. toBroker' = Sent(all)
  BY <1>2, <1>5, <1>9 DEF SendBatch
<1>12. ASSUME NEW tag
       PROVE  HitCount(Sent(all), Answers(tag)) = HitCount(toBroker, Answers(tag))
           + (IF link = "up" THEN HitCount(all, Answers(tag)) ELSE 0)
  BY SentCount
<1> QED BY <1>3, <1>4, <1>10, <1>11, <1>12

\* drainPending keeps the publications it moves.
LEMMA DrainPendingNoFuture ==
    ASSUME TypeOK, NEW ready \in BOOLEAN, NEW waiting \in Seq(Publication), NEW frames,
           NEW flying, DOMAIN flying \subseteq DOMAIN inflight_,
           DrainPending(ready, waiting, flying, frames), frames \in Seq(ClientFrame),
           \A i \in DOMAIN waiting : waiting[i].source.gen <= generation_,
           \A t \in DOMAIN flying : flying[t].source.gen <= generation_
    PROVE  /\ \A i \in DOMAIN pending_' : pending_'[i].source.gen <= generation_
           /\ \A t \in DOMAIN inflight_' : inflight_'[t].source.gen <= generation_
<1>1. DOMAIN flying \subseteq 1..(nextPublishTag_ - 1)
  BY DEF TypeOK, OutboxTypeOK
<1>2. PICK count \in 0..Len(waiting) : SendBatch(waiting, flying, frames, count)
  BY <1>1, DrainPendingSends
<1>3. /\ \A i \in DOMAIN pending_' : \E k \in DOMAIN waiting : pending_'[i] = waiting[k]
      /\ \A t \in DOMAIN inflight_' :
            \/ t \in DOMAIN flying /\ inflight_'[t] = flying[t]
            \/ \E k \in 1..count : /\ t = nextPublishTag_ + k - 1
                                   /\ inflight_'[t] = waiting[k]
  BY <1>1, <1>2, SendBatchItems
<1>4. 1..count \subseteq DOMAIN waiting
  OBVIOUS
<1> QED BY <1>3, <1>4

\* What a step has to show that keeps the connection and its deliveries.
LEMMA SettlersKept ==
    ASSUME SettlersExact, IsFiniteSet(retryTimers'), NoFuture',
           UNCHANGED <<link, unacked>>, recovering_ => recovering_',
           \A tag \in Nat \ {0} : /\ Settlers(tag) \in Nat /\ Settlers(tag)' \in Nat
                                  /\ Settlers(tag)' <= Settlers(tag)
                                  /\ link = "up" /\ ~recovering_'
                                        => Settlers(tag)' = Settlers(tag)
    PROVE  SettlersExact'
<1>1. \A tag : Waits(tag)' = Waits(tag) /\ Waits(tag) \in {0, 1}
  BY DEF Waits, Awaits
<1>2. ASSUME link = "none", NEW tag \in Nat \ {0}
      PROVE  Settlers(tag)' = 0
  BY <1>2 DEF SettlersExact
<1>3. ASSUME link = "up", NEW tag \in Nat \ {0}
      PROVE  /\ Settlers(tag)' <= Waits(tag)'
             /\ ~recovering_' => Settlers(tag)' = Waits(tag)'
  <2>1. /\ Settlers(tag) \in Nat /\ Settlers(tag)' \in Nat /\ Waits(tag) \in Nat
        /\ Settlers(tag)' <= Settlers(tag) /\ Settlers(tag) <= Waits(tag)
        /\ Waits(tag)' = Waits(tag)
    BY <1>1, <1>3 DEF SettlersExact
  <2>2. ~recovering_' => Settlers(tag)' = Settlers(tag) /\ Settlers(tag) = Waits(tag)
    BY <1>3 DEF SettlersExact
  <2> QED BY <2>1, <2>2
<1> QED BY <1>2, <1>3 DEF SettlersExact

\* The sums of a step that does not change the generation, side by side.
LEMMA SumsSideBySide ==
    ASSUME TypeOK, TypeOK', IsFiniteSet(retryTimers), IsFiniteSet(retryTimers'),
           generation_' = generation_, NEW tag
    PROVE  /\ Settlers(tag) = HitCount(toClient, Deliveries(tag))
                           + HitCount(completions, Dones(tag)) + Cardinality(Timers(tag))
                           + HitCount(submitted, Owners(tag)) + HitCount(pending_, Owners(tag))
                           + HitCount(inflight_, Owners(tag)) + HitCount(toBroker, Answers(tag))
           /\ Settlers(tag)' = HitCount(toClient', Deliveries(tag))
                           + HitCount(completions', Dones(tag)) + Cardinality(Timers(tag)')
                           + HitCount(submitted', Owners(tag)) + HitCount(pending_', Owners(tag))
                           + HitCount(inflight_', Owners(tag)) + HitCount(toBroker', Answers(tag))
           /\ HitCount(toClient, Deliveries(tag)) \in Nat /\ HitCount(completions, Dones(tag)) \in Nat
           /\ Cardinality(Timers(tag)) \in Nat /\ HitCount(submitted, Owners(tag)) \in Nat
           /\ HitCount(pending_, Owners(tag)) \in Nat /\ HitCount(inflight_, Owners(tag)) \in Nat
           /\ HitCount(toBroker, Answers(tag)) \in Nat
           /\ HitCount(toClient', Deliveries(tag)) \in Nat /\ HitCount(completions', Dones(tag)) \in Nat
           /\ Cardinality(Timers(tag)') \in Nat /\ HitCount(submitted', Owners(tag)) \in Nat
           /\ HitCount(pending_', Owners(tag)) \in Nat /\ HitCount(inflight_', Owners(tag)) \in Nat
           /\ HitCount(toBroker', Answers(tag)) \in Nat
           /\ Settlers(tag) \in Nat /\ Settlers(tag)' \in Nat
           /\ retryTimers' = retryTimers => Timers(tag)' = Timers(tag)
<1>1. /\ Deliveries(tag)' = Deliveries(tag) /\ Dones(tag)' = Dones(tag)
      /\ Owners(tag)' = Owners(tag) /\ Answers(tag)' = Answers(tag)
      /\ retryTimers' = retryTimers => Timers(tag)' = Timers(tag)
  BY DEF Deliveries, Dones, Owners, Answers, Timers
<1>2. Settlers(tag) = HitCount(toClient, Deliveries(tag))
                           + HitCount(completions, Dones(tag)) + Cardinality(Timers(tag))
                           + HitCount(submitted, Owners(tag)) + HitCount(pending_, Owners(tag))
                           + HitCount(inflight_, Owners(tag)) + HitCount(toBroker, Answers(tag))
  BY SettlersSum
<1>3. Settlers(tag)' = HitCount(toClient', Deliveries(tag))
                           + HitCount(completions', Dones(tag)) + Cardinality(Timers(tag)')
                           + HitCount(submitted', Owners(tag)) + HitCount(pending_', Owners(tag))
                           + HitCount(inflight_', Owners(tag)) + HitCount(toBroker', Answers(tag))
  BY <1>1, SettlersSumNext
<1>4. /\ HitCount(toClient, Deliveries(tag)) \in Nat /\ HitCount(completions, Dones(tag)) \in Nat
      /\ Cardinality(Timers(tag)) \in Nat /\ HitCount(submitted, Owners(tag)) \in Nat
      /\ HitCount(pending_, Owners(tag)) \in Nat /\ HitCount(inflight_, Owners(tag)) \in Nat
      /\ HitCount(toBroker, Answers(tag)) \in Nat
  BY SettlerTerms
<1>5. /\ HitCount(toClient', Deliveries(tag)) \in Nat /\ HitCount(completions', Dones(tag)) \in Nat
      /\ Cardinality(Timers(tag)') \in Nat /\ HitCount(submitted', Owners(tag)) \in Nat
      /\ HitCount(pending_', Owners(tag)) \in Nat /\ HitCount(inflight_', Owners(tag)) \in Nat
      /\ HitCount(toBroker', Answers(tag)) \in Nat
  BY <1>1, SettlerTermsNext
<1>6. Settlers(tag) \in Nat /\ Settlers(tag)' \in Nat
  BY <1>2, <1>3, <1>4, <1>5
<1> QED BY <1>1, <1>2, <1>3, <1>4, <1>5, <1>6

\* Generations only grow, and what is new belongs to the present one.
LEMMA NoFutureStep ==
    ASSUME Inv, Inv', IsFiniteSet(retryTimers), NoFuture, [Next]_vars
    PROVE  IsFiniteSet(retryTimers') /\ NoFuture'
<1> USE DEF Inv
<1>0. generation_ \in Nat /\ generation_' \in Nat
  BY DEF TypeOK, ControlTypeOK
<1>a. /\ completions \in Seq(Completion) /\ submitted \in Seq(Publication)
      /\ pending_ \in Seq(Publication) /\ producerReady_ \in BOOLEAN
  BY DEF TypeOK, QueueTypeOK, OutboxTypeOK, ControlTypeOK
<1>1. CASE UNCHANGED <<completions, retryTimers, submitted, pending_, inflight_, generation_>>
  BY <1>1 DEF NoFuture
<1>2. CASE Publishing
  <2>1. UNCHANGED <<completions, retryTimers, pending_, inflight_, generation_>>
    BY <1>2 DEF Publishing, PublishLoad, PublishReserve, PublishEnqueue, outboxVars, timerVars
  <2>2. CASE submitted' = submitted
    BY <1>1, <2>1, <2>2
  <2>3. CASE PublishEnqueue
    <3>1. PICK item : /\ item = [queue |-> "main", body |-> FirstBody(publisher.job),
                                 source |-> NoDelivery]
                      /\ submitted' = Append(submitted, item)
      BY <2>3 DEF PublishEnqueue
    <3>2. item.source.gen = 0
      BY <3>1 DEF NoDelivery
    <3>3. \A i \in DOMAIN submitted' :
             (i \in DOMAIN submitted /\ submitted'[i] = submitted[i]) \/ submitted'[i] = item
      BY <1>a, <3>1
    <3> QED BY <1>0, <2>1, <3>2, <3>3 DEF NoFuture
  <2> QED BY <1>2, <2>2, <2>3 DEF Publishing, PublishLoad, PublishReserve
<1>3. CASE RunSubmitted
  <2>1. UNCHANGED <<completions, retryTimers, generation_>>
    BY <1>3 DEF RunSubmitted, timerVars
  <2>2. submitted # <<>> /\ submitted' = Tail(submitted)
    BY <1>3 DEF RunSubmitted
  <2>3. \A i \in DOMAIN submitted' : i + 1 \in DOMAIN submitted /\ submitted'[i] = submitted[i + 1]
    BY <1>a, <2>2
  <2>4. Append(pending_, Head(submitted)) \in Seq(Publication)
    BY <1>a, <2>2
  <2>5. PICK waiting \in Seq(Publication) : waiting = Append(pending_, Head(submitted))
    BY <2>4
  <2>6. \A i \in DOMAIN waiting : \/ i \in DOMAIN pending_ /\ waiting[i] = pending_[i]
                                  \/ waiting[i] = submitted[1]
    BY <1>a, <2>2, <2>5
  <2>7. 1 \in DOMAIN submitted
    BY <1>a, <2>2
  <2>8. \A i \in DOMAIN waiting : waiting[i].source.gen <= generation_
    BY <2>6, <2>7 DEF NoFuture
  <2>9. DrainPending(producerReady_, waiting, inflight_, <<>>) /\ <<>> \in Seq(ClientFrame)
    BY <1>3, <2>5, EmptySeq DEF RunSubmitted
  <2>10. \A t \in DOMAIN inflight_ : inflight_[t].source.gen <= generation_
    BY DEF NoFuture
  <2>11. /\ \A i \in DOMAIN pending_' : pending_'[i].source.gen <= generation_
         /\ \A t \in DOMAIN inflight_' : inflight_'[t].source.gen <= generation_
    BY <1>a, <2>8, <2>9, <2>10, DrainPendingNoFuture
  <2> QED BY <2>1, <2>3, <2>11 DEF NoFuture
<1>4. CASE RunCompletion
  <2>1. UNCHANGED <<submitted, pending_, inflight_, generation_>>
    BY <1>4 DEF RunCompletion, outboxVars
  <2>2. completions # <<>> /\ completions' = Tail(completions)
    BY <1>4 DEF RunCompletion
  <2>3. \A i \in DOMAIN completions' :
           i + 1 \in DOMAIN completions /\ completions'[i] = completions[i + 1]
    BY <1>a, <2>2
  <2>4. Head(completions).gen <= generation_
    <3>1. 1 \in DOMAIN completions /\ Head(completions) = completions[1]
      BY <1>a, <2>2
    <3> QED BY <3>1 DEF NoFuture
  <2>5. Replacement(Head(completions)).gen = Head(completions).gen
    BY DEF Replacement, Replaces
  <2>6. retryTimers' \subseteq retryTimers \cup {Replacement(Head(completions))}
    BY <1>4 DEF RunCompletion
  <2>7. IsFiniteSet(retryTimers')
    BY <2>6, FS_AddElement, FS_Subset
  <2> QED BY <2>1, <2>3, <2>4, <2>5, <2>6, <2>7 DEF NoFuture
<1>5. CASE RunRecover
  <2>1. /\ UNCHANGED <<completions, submitted, retryTimers>>
        /\ generation_' = generation_ + 1 /\ DOMAIN inflight_' = {} /\ pending_' = Reclaimed
    BY <1>5 DEF RunRecover, queueVars
  <2>2. \A i \in DOMAIN Reclaimed : \/ \E t \in DOMAIN inflight_ : Reclaimed[i] = inflight_[t]
                                    \/ \E k \in DOMAIN pending_ : Reclaimed[i] = pending_[k]
    BY ReclaimedItems
  <2>3. \A i \in DOMAIN pending_' : pending_'[i].source.gen <= generation_
    BY <2>1, <2>2 DEF NoFuture
  <2>4. \A n \in Nat : n <= generation_ => n <= generation_'
    BY <1>0, <2>1
  <2>a. /\ \A i \in DOMAIN completions : completions[i] \in Completion
        /\ \A t \in retryTimers : t \in RetryTimer
    BY <1>a DEF TypeOK, QueueTypeOK
  <2>b. /\ \A c \in Completion : c.gen \in Nat
        /\ \A t \in RetryTimer : t.gen \in Nat
    BY DEF Completion, RetryTimer
  <2>5. /\ \A i \in DOMAIN completions : completions[i].gen \in Nat
        /\ \A t \in retryTimers : t.gen \in Nat
    BY <2>a, <2>b
  <2>6. \A item \in Publication : item.source.gen \in Nat
    BY DEF Publication, Source, NoDelivery
  <2>7. /\ \A i \in DOMAIN submitted : submitted[i] \in Publication
        /\ \A i \in DOMAIN pending_' : pending_'[i] \in Publication
    BY <1>a DEF TypeOK, OutboxTypeOK
  <2> QED BY <2>1, <2>3, <2>4, <2>5, <2>6, <2>7 DEF NoFuture
<1>6. CASE ReconnectTimerFires \/ Start
  BY <1>1, <1>6 DEF ReconnectTimerFires, Start, outboxVars, queueVars, timerVars
<1>7. ASSUME NEW timer \in retryTimers, RetryTimerFires(timer)
      PROVE  IsFiniteSet(retryTimers') /\ NoFuture'
  <2>1. UNCHANGED <<completions, pending_, inflight_, generation_>>
    BY <1>7 DEF RetryTimerFires, outboxVars
  <2>2. retryTimers' = retryTimers \ {timer}
    BY <1>7 DEF RetryTimerFires
  <2>3. IsFiniteSet(retryTimers')
    BY <2>2, FS_RemoveElement
  <2>4. PICK item : /\ item = [queue |-> timer.queue, body |-> timer.body,
                               source |-> [gen |-> timer.gen, tag |-> timer.tag]]
                    /\ submitted' \in {submitted, Append(submitted, item)}
    BY <1>7 DEF RetryTimerFires
  <2>5. item.source.gen <= generation_
    BY <2>4 DEF NoFuture
  <2>6. CASE submitted' = submitted
    BY <2>1, <2>2, <2>3, <2>6 DEF NoFuture
  <2>7. CASE submitted' = Append(submitted, item)
    <3>1. \A i \in DOMAIN submitted' :
             (i \in DOMAIN submitted /\ submitted'[i] = submitted[i]) \/ submitted'[i] = item
      BY <1>a, <2>7
    <3> QED BY <2>1, <2>2, <2>3, <2>5, <3>1 DEF NoFuture
  <2> QED BY <2>4, <2>6, <2>7
<1>8. CASE Connecting /\ ~ProducerConfirmSelected
  BY <1>1, <1>8 DEF Connecting, OnConnected, OnError, OnLost, ProducerMainDeclared,
                    ProducerDeadDeclared, DeclareOnProducer, ConsumerStarted, outboxVars,
                    queueVars, timerVars
<1>9. CASE ProducerConfirmSelected
  <2>1. UNCHANGED <<completions, retryTimers, submitted, generation_>>
    BY <1>9 DEF ProducerConfirmSelected, timerVars, queueVars
  <2>2. PICK ready \in BOOLEAN : DrainPending(ready, pending_, inflight_, <<>>)
    BY <1>9, Zenon DEF ProducerConfirmSelected
  <2>3. <<>> \in Seq(ClientFrame)
    BY EmptySeq
  <2>4. /\ \A i \in DOMAIN pending_ : pending_[i].source.gen <= generation_
        /\ \A t \in DOMAIN inflight_ : inflight_[t].source.gen <= generation_
    BY DEF NoFuture
  <2>5. /\ \A i \in DOMAIN pending_' : pending_'[i].source.gen <= generation_
        /\ \A t \in DOMAIN inflight_' : inflight_'[t].source.gen <= generation_
    BY <1>a, <2>2, <2>3, <2>4, DrainPendingNoFuture
  <2> QED BY <2>1, <2>5 DEF NoFuture
<1>10. CASE Persisted \/ PersistFails \/ ParseFails
  <2>1. PICK stored \in BOOLEAN, result \in Disposition : Delivered(stored, result)
    BY <1>10 DEF Persisted, PersistFails, ParseFails, Disposition
  <2>2. UNCHANGED <<retryTimers, submitted, pending_, inflight_, generation_>>
    BY <2>1 DEF Delivered, timerVars, outboxVars
  <2>3. PICK done : /\ done = [gen |-> generation_, tag |-> Head(toClient).tag,
                               result |-> result, body |-> Head(toClient).body]
                    /\ completions' = Append(completions, done)
    BY <2>1 DEF Delivered
  <2>4. done.gen <= generation_
    BY <1>0, <2>3
  <2>5. \A i \in DOMAIN completions' :
           (i \in DOMAIN completions /\ completions'[i] = completions[i]) \/ completions'[i] = done
    BY <1>a, <2>3
  <2> QED BY <2>2, <2>4, <2>5 DEF NoFuture
<1>11. CASE OnAck
  <2>1. UNCHANGED <<completions, retryTimers, submitted, generation_>>
    BY <1>11 DEF OnAck, timerVars, queueVars
  <2>2. CASE UNCHANGED outboxVars
    BY <1>1, <2>1, <2>2 DEF outboxVars
  <2>3. CASE Confirm(Head(toClient))
    <3>1. PICK tags : tags = Confirmable(Head(toClient))
      OBVIOUS
    <3>2. PICK rest : rest = [t \in DOMAIN inflight_ \ tags |-> inflight_[t]]
      OBVIOUS
    <3>3. DrainPending(producerReady_, pending_, rest, CompletionAcks(tags))
      BY <2>3, <3>1, <3>2 DEF Confirm
    <3>4. tags \subseteq DOMAIN inflight_ /\ DOMAIN rest \subseteq DOMAIN inflight_
      BY <3>1, <3>2 DEF Confirmable
    <3>5. CompletionAcks(tags) \in Seq(ClientFrame)
      BY <3>4, CompletionAcksAreFrames DEF TypeOK
    <3>6. /\ \A i \in DOMAIN pending_ : pending_[i].source.gen <= generation_
          /\ \A t \in DOMAIN rest : rest[t].source.gen <= generation_
      BY <3>2 DEF NoFuture
    <3>7. /\ \A i \in DOMAIN pending_' : pending_'[i].source.gen <= generation_
          /\ \A t \in DOMAIN inflight_' : inflight_'[t].source.gen <= generation_
      BY <1>a, <3>3, <3>4, <3>5, <3>6, DrainPendingNoFuture
    <3> QED BY <2>1, <3>7 DEF NoFuture
  <2> QED BY <1>11, <2>2, <2>3 DEF OnAck
<1>12. CASE OnNackOrReturn
  BY <1>1, <1>12 DEF OnNackOrReturn, timerVars, outboxVars, queueVars
<1>13. CASE Brokering \/ UNCHANGED vars
  BY <1>1, <1>13 DEF Brokering, vars, handlerVars, timerVars, queueVars, outboxVars
<1>14. CASE Shutdown \/ Crash
  <2>1. /\ retryTimers' = {} /\ DOMAIN completions' = {} /\ DOMAIN submitted' = {}
        /\ DOMAIN pending_' = {} /\ DOMAIN inflight_' = {}
    BY <1>14 DEF Shutdown, Crash, NoHandler
  <2>2. IsFiniteSet(retryTimers')
    BY <2>1, FS_EmptySet
  <2> QED BY <2>1, <2>2 DEF NoFuture
<1> QED BY <1>2, <1>3, <1>4, <1>5, <1>6, <1>7, <1>8, <1>9, <1>10, <1>11, <1>12, <1>13,
           <1>14 DEF Next, Looping, Connecting, Receiving

\* The count does not depend on anything else.
LEMMA SettlersSame ==
    ASSUME UNCHANGED <<toClient, completions, retryTimers, submitted, pending_, inflight_,
                       toBroker, generation_>>
    PROVE  \A tag : Settlers(tag)' = Settlers(tag)
BY DEF Settlers, Count

\* Nothing of the next state's generation is left, nothing is counted.
LEMMA SettlersGone ==
    ASSUME TypeOK', NEW tag,
           \A i \in DOMAIN toClient' : toClient'[i] \notin Deliveries(tag)',
           \A i \in DOMAIN completions' : completions'[i] \notin Dones(tag)',
           Timers(tag)' = {},
           \A i \in DOMAIN submitted' : submitted'[i] \notin Owners(tag)',
           \A i \in DOMAIN pending_' : pending_'[i] \notin Owners(tag)',
           \A i \in DOMAIN inflight_' : inflight_'[i] \notin Owners(tag)',
           \A i \in DOMAIN toBroker' : toBroker'[i] \notin Answers(tag)'
    PROVE  Settlers(tag)' = 0
<1>1. Settlers(tag)' = HitCount(toClient', Deliveries(tag)')
                           + HitCount(completions', Dones(tag)')
                           + Cardinality(Timers(tag)')
                           + HitCount(submitted', Owners(tag)')
                           + HitCount(pending_', Owners(tag)')
                           + HitCount(inflight_', Owners(tag)')
                           + HitCount(toBroker', Answers(tag)')
  BY SettlersSumNext
<1>2. HitCount(toClient', Deliveries(tag)') = 0
  BY HitCountZero
<1>3. HitCount(completions', Dones(tag)') = 0
  BY HitCountZero
<1>4. Cardinality(Timers(tag)') = 0
  BY FS_EmptySet
<1>5. HitCount(submitted', Owners(tag)') = 0
  BY HitCountZero
<1>6. HitCount(pending_', Owners(tag)') = 0
  BY HitCountZero
<1>7. HitCount(inflight_', Owners(tag)') = 0
  BY HitCountZero
<1>8. HitCount(toBroker', Answers(tag)') = 0
  BY HitCountZero
<1> QED BY <1>1, <1>2, <1>3, <1>4, <1>5, <1>6, <1>7, <1>8

\* A new connection generation, or a new process, starts with nothing to settle.
LEMMA SettlersReset ==
    ASSUME Inv, Inv', NoFuture, RunRecover \/ NoHandler, NEW tag \in Nat \ {0}
    PROVE  Settlers(tag)' = 0
<1>0. TypeOK /\ TypeOK'
  BY DEF Inv
<1>1. CASE NoHandler
  <2>1. /\ retryTimers' = {} /\ DOMAIN completions' = {} /\ DOMAIN submitted' = {}
        /\ DOMAIN pending_' = {} /\ DOMAIN inflight_' = {}
        /\ DOMAIN toClient' = {} /\ DOMAIN toBroker' = {}
    BY <1>1 DEF NoHandler, CloseLink
  <2>2. Timers(tag)' = {}
    BY <2>1 DEF Timers
  <2> QED BY <1>0, <2>1, <2>2, SettlersGone
<1>2. CASE RunRecover
  <2>1. /\ UNCHANGED <<completions, submitted, retryTimers>>
        /\ generation_' = generation_ + 1 /\ DOMAIN inflight_' = {} /\ pending_' = Reclaimed
        /\ DOMAIN toClient' = {} /\ DOMAIN toBroker' = {}
    BY <1>2 DEF RunRecover, queueVars, CloseLink
  <2>2. \A n \in Nat : n <= generation_ => n # generation_'
    BY <1>0, <2>1 DEF TypeOK, ControlTypeOK
  <2>3. ASSUME NEW item \in Publication, item.source.gen <= generation_
        PROVE  item \notin Owners(tag)'
    <3>1. item.source.gen \in Nat
      BY DEF Publication, Source, NoDelivery
    <3>2. item.source.gen # generation_'
      BY <2>2, <2>3, <3>1
    <3> QED BY <3>2 DEF Owners
  <2>4. /\ \A i \in DOMAIN submitted : submitted[i] \in Publication
        /\ \A i \in DOMAIN pending_ : pending_[i] \in Publication
        /\ \A t \in DOMAIN inflight_ : inflight_[t] \in Publication
        /\ \A i \in DOMAIN completions : completions[i] \in Completion
        /\ \A t \in retryTimers : t \in RetryTimer
    BY <1>0 DEF TypeOK, QueueTypeOK, OutboxTypeOK
  <2>5. \A i \in DOMAIN submitted' : submitted'[i] \notin Owners(tag)'
    BY <2>1, <2>3, <2>4 DEF NoFuture
  <2>6. \A i \in DOMAIN Reclaimed : \/ \E t \in DOMAIN inflight_ : Reclaimed[i] = inflight_[t]
                                    \/ \E k \in DOMAIN pending_ : Reclaimed[i] = pending_[k]
    BY <1>0, ReclaimedItems
  <2>7. \A i \in DOMAIN pending_' : pending_'[i] \notin Owners(tag)'
    <3>1. /\ \A t \in DOMAIN inflight_ : inflight_[t] \notin Owners(tag)'
          /\ \A k \in DOMAIN pending_ : pending_[k] \notin Owners(tag)'
      BY <2>3, <2>4 DEF NoFuture
    <3> QED BY <2>1, <2>6, <3>1
  <2>8. \A i \in DOMAIN completions' : completions'[i] \notin Dones(tag)'
    <3>1. \A c \in Completion : c.gen \in Nat
      BY DEF Completion
    <3>2. \A i \in DOMAIN completions : completions[i].gen # generation_'
      BY <2>2, <2>4, <3>1 DEF NoFuture
    <3> QED BY <2>1, <3>2 DEF Dones
  <2>9. Timers(tag)' = {}
    <3>1. \A t \in RetryTimer : t.gen \in Nat
      BY DEF RetryTimer
    <3>2. \A t \in retryTimers : t.gen # generation_'
      BY <2>2, <2>4, <3>1 DEF NoFuture
    <3> QED BY <2>1, <3>2 DEF Timers
  <2> QED BY <1>0, <2>1, <2>5, <2>7, <2>8, <2>9, SettlersGone
<1> QED BY <1>1, <1>2

\* Every functor, timer and callback of the handler passes a delivery on to exactly one
\* later step, or drops it only after the connection has failed.
LEMMA SettlersHandlerStep ==
    ASSUME Inv, Inv', LinkShape, SettlersExact, IsFiniteSet(retryTimers'), NoFuture',
           Publishing \/ RunSubmitted \/ RunCompletion \/ ProducerConfirmSelected \/ Receiving
             \/ \E timer \in retryTimers : RetryTimerFires(timer)
    PROVE  SettlersExact'
<1>0. TypeOK /\ TypeOK' /\ IsFiniteSet(retryTimers)
  BY DEF Inv, SettlersExact
<1>a. /\ completions \in Seq(Completion) /\ submitted \in Seq(Publication)
      /\ pending_ \in Seq(Publication) /\ producerReady_ \in BOOLEAN
      /\ toClient \in Seq(BrokerFrame) /\ toBroker \in Seq(ClientFrame)
      /\ generation_ \in Nat
  BY <1>0 DEF TypeOK, AmqpTypeOK, QueueTypeOK, OutboxTypeOK, ControlTypeOK
<1>b. <<>> \in Seq(ClientFrame) /\ \A P : HitCount(<<>>, P) = 0
  <2>1. \A P : HitCount(<<>>, P) = 0
    BY HitCountZero
  <2> QED BY <2>1, EmptySeq
<1>c. link = "up" => connection_ = "open"
  BY DEF LinkShape
<1>1. CASE Publishing
  <2>1. UNCHANGED <<link, unacked, toClient, completions, retryTimers, pending_, inflight_,
                    toBroker, generation_, recovering_>>
    BY <1>1 DEF Publishing, PublishLoad, PublishReserve, PublishEnqueue, brokerVars, storeVars,
                outboxVars, timerVars, recoverVars
  <2>2. \A tag \in Nat \ {0} : HitCount(submitted', Owners(tag)) = HitCount(submitted, Owners(tag))
    <3>1. CASE submitted' = submitted
      BY <3>1
    <3>2. CASE PublishEnqueue
      <4> DEFINE item == [queue |-> "main", body |-> FirstBody(publisher.job),
                          source |-> NoDelivery]
      <4>1. submitted' = Append(submitted, item) /\ submitted' \in Seq(Publication)
        BY <1>0, <3>2 DEF PublishEnqueue, TypeOK, QueueTypeOK
      <4>2. item \in Publication
        <5>1. publisher.job \in Jobs
          BY <1>0, <3>2 DEF PublishEnqueue, TypeOK, QueueTypeOK, Publisher, Idle
        <5> QED BY <5>1, AttemptAssumption DEF FirstBody, Body, AllJobs, Publication, Queues, Source
      <4>3. ASSUME NEW tag \in Nat \ {0}
            PROVE  Bit(item, Owners(tag)) = 0
        BY DEF Owners, NoDelivery, Bit
      <4>4. ASSUME NEW tag \in Nat \ {0}
            PROVE  HitCount(submitted', Owners(tag)) = HitCount(submitted, Owners(tag))
        <5> HIDE DEF item
        <5>1. HitCount(submitted', Owners(tag))
                 = HitCount(submitted, Owners(tag)) + Bit(item, Owners(tag))
          BY <1>a, <4>1, <4>2, HitCountAppend
        <5>2. HitCount(submitted, Owners(tag)) \in Nat
          BY <1>a, HitsFinite
        <5> QED BY <4>3, <5>1, <5>2
      <4> QED BY <4>4
    <3> QED BY <1>1, <3>1, <3>2 DEF Publishing, PublishLoad, PublishReserve
  <2>3. \A tag \in Nat \ {0} : /\ Settlers(tag) \in Nat /\ Settlers(tag)' \in Nat
                               /\ Settlers(tag)' = Settlers(tag)
    BY <1>0, <2>1, <2>2, SumsSideBySide
  <2> QED BY <2>1, <2>3, SettlersKept
<1>2. CASE RunSubmitted
  <2>1. UNCHANGED <<link, unacked, toClient, completions, retryTimers, generation_>>
    BY <1>2 DEF RunSubmitted, storeVars, timerVars
  <2>2. submitted # <<>> /\ submitted' = Tail(submitted)
    BY <1>2 DEF RunSubmitted
  <2>3. Append(pending_, Head(submitted)) \in Seq(Publication) /\ Head(submitted) \in Publication
    BY <1>a, <2>2
  <2>4. PICK waiting \in Seq(Publication) : waiting = Append(pending_, Head(submitted))
    BY <2>3
  <2>5. DrainPending(producerReady_, waiting, inflight_, <<>>)
    BY <1>2, <2>4 DEF RunSubmitted
  <2>6. /\ \A P : HitCount(pending_', P) + HitCount(inflight_', P)
                     = HitCount(waiting, P) + HitCount(inflight_, P)
        /\ \A tag : HitCount(toBroker', Answers(tag)) = HitCount(toBroker, Answers(tag))
                     + (IF link = "up" THEN HitCount(<<>>, Answers(tag)) ELSE 0)
        /\ recovering_ => recovering_'
    <3>1. DOMAIN inflight_ \subseteq DOMAIN inflight_
      OBVIOUS
    <3> QED BY <1>0, <1>a, <1>b, <2>5, <3>1, DrainPendingCounts, Zenon
  <2>7. ASSUME NEW tag \in Nat \ {0}
        PROVE  /\ Settlers(tag) \in Nat /\ Settlers(tag)' \in Nat
               /\ Settlers(tag)' = Settlers(tag)
    <3>1. HitCount(pending_', Owners(tag)) + HitCount(inflight_', Owners(tag))
             = HitCount(waiting, Owners(tag)) + HitCount(inflight_, Owners(tag))
      BY <2>6
    <3>2. HitCount(waiting, Owners(tag))
             = HitCount(pending_, Owners(tag)) + Bit(Head(submitted), Owners(tag))
      BY <1>a, <2>3, <2>4, HitCountAppend
    <3>3. HitCount(submitted, Owners(tag))
             = Bit(Head(submitted), Owners(tag)) + HitCount(submitted', Owners(tag))
      BY <1>a, <2>2, HitCountTail
    <3>4. HitCount(toBroker', Answers(tag)) = HitCount(toBroker, Answers(tag))
      <4>1. HitCount(toBroker', Answers(tag)) = HitCount(toBroker, Answers(tag))
               + (IF link = "up" THEN HitCount(<<>>, Answers(tag)) ELSE 0)
        BY <2>6
      <4>2. HitCount(toBroker, Answers(tag)) \in Nat
        BY <1>a, HitsFinite
      <4> QED BY <1>b, <4>1, <4>2
    <3>5. Bit(Head(submitted), Owners(tag)) \in Nat
      BY DEF Bit
    <3>6. PICK bit \in Nat : bit = Bit(Head(submitted), Owners(tag))
      BY <3>5
    <3>7. HitCount(waiting, Owners(tag)) = HitCount(pending_, Owners(tag)) + bit
      BY <3>2, <3>6
    <3>8. HitCount(submitted, Owners(tag)) = bit + HitCount(submitted', Owners(tag))
      BY <3>3, <3>6
    <3>n1. PICK d, c, t, s \in Nat :
              /\ d = HitCount(toClient, Deliveries(tag)) /\ c = HitCount(completions, Dones(tag))
              /\ t = Cardinality(Timers(tag)) /\ s = HitCount(submitted, Owners(tag))
      BY <1>0, <2>1, SumsSideBySide
    <3>n2. PICK p, i, b \in Nat :
              /\ p = HitCount(pending_, Owners(tag)) /\ i = HitCount(inflight_, Owners(tag))
              /\ b = HitCount(toBroker, Answers(tag))
      BY <1>0, <2>1, SumsSideBySide
    <3>n3. PICK d2, c2, t2, s2 \in Nat :
              /\ d2 = HitCount(toClient', Deliveries(tag)) /\ c2 = HitCount(completions', Dones(tag))
              /\ t2 = Cardinality(Timers(tag)') /\ s2 = HitCount(submitted', Owners(tag))
              /\ retryTimers' = retryTimers => t2 = t
      BY <1>0, <2>1, <3>n1, SumsSideBySide
    <3>n4. PICK p2, i2, b2 \in Nat :
              /\ p2 = HitCount(pending_', Owners(tag)) /\ i2 = HitCount(inflight_', Owners(tag))
              /\ b2 = HitCount(toBroker', Answers(tag))
      BY <1>0, <2>1, SumsSideBySide
    <3>n5. /\ Settlers(tag) = d + c + t + s + p + i + b
          /\ Settlers(tag)' = d2 + c2 + t2 + s2 + p2 + i2 + b2
      BY <1>0, <2>1, <3>n1, <3>n2, <3>n3, <3>n4, SumsSideBySide
    <3>10. /\ d2 = d /\ c2 = c /\ t2 = t /\ b2 = b /\ s = bit + s2
           /\ p2 + i2 = (p + bit) + i
      BY <2>1, <3>1, <3>4, <3>7, <3>8, <3>n1, <3>n2, <3>n3, <3>n4
    <3> QED BY <3>n5, <3>10
  <2> QED BY <2>1, <2>6, <2>7, SettlersKept
<1>3. CASE RunCompletion
  <2>1. UNCHANGED <<link, unacked, toClient, submitted, pending_, inflight_, generation_,
                    recovering_>>
    BY <1>3 DEF RunCompletion, storeVars, outboxVars, recoverVars
  <2>2. completions # <<>> /\ completions' = Tail(completions)
    BY <1>3 DEF RunCompletion
  <2>3. PICK done \in Completion : done = Head(completions)
    BY <1>a, <2>2
  <2>4. /\ toBroker' = IF MayComplete(done) /\ AcksNow(done)
                       THEN Sent(<<AckFrame(done.tag)>>) ELSE toBroker
        /\ retryTimers' = IF MayComplete(done) /\ done.result # "Ack"
                          THEN retryTimers \cup {Replacement(done)} ELSE retryTimers
    BY <1>3, <2>3 DEF RunCompletion
  <2>5. done.tag \in Nat \ {0}
    BY DEF Completion
  <2>6. /\ Replacement(done).gen = done.gen /\ Replacement(done).tag = done.tag
    BY DEF Replacement, Replaces
  <2>7. ASSUME NEW tag \in Nat \ {0}
        PROVE  /\ Settlers(tag) \in Nat /\ Settlers(tag)' \in Nat
               /\ Settlers(tag)' <= Settlers(tag)
               /\ link = "up" /\ ~recovering_' => Settlers(tag)' = Settlers(tag)
    <3>1. HitCount(completions, Dones(tag))
             = Bit(done, Dones(tag)) + HitCount(completions', Dones(tag))
      BY <1>a, <2>2, <2>3, HitCountTail
    <3>2. Bit(done, Dones(tag)) = (IF done.gen = generation_ /\ done.tag = tag THEN 1 ELSE 0)
      BY DEF Bit, Dones
    <3>3. CASE ~MayComplete(done)
      <4>1. UNCHANGED <<toBroker, retryTimers>>
        BY <2>4, <3>3
      <4>2. link = "up" /\ ~recovering_' => done.gen # generation_
        BY <1>c, <2>1, <3>3 DEF MayComplete, IsCurrent
      <4> QED BY <1>0, <2>1, <3>1, <3>2, <4>1, <4>2, SumsSideBySide
    <3>4. CASE MayComplete(done) /\ done.result = "Ack"
      <4>1. retryTimers' = retryTimers /\ toBroker' = Sent(<<AckFrame(done.tag)>>)
        BY <2>4, <3>4 DEF AcksNow
      <4>2. <<AckFrame(done.tag)>> \in Seq(ClientFrame)
        BY <2>5 DEF AckFrame, ClientFrame
      <4>3. HitCount(<<AckFrame(done.tag)>>, Answers(tag)) = (IF done.tag = tag THEN 1 ELSE 0)
        <5>1. HitCount(<<AckFrame(done.tag)>>, Answers(tag)) = Bit(AckFrame(done.tag), Answers(tag))
          BY HitCountSingle
        <5>2. AckFrame(done.tag) \in Answers(tag) <=> done.tag = tag
          BY <2>5 DEF AckFrame, Answers, ClientFrame
        <5> QED BY <5>1, <5>2 DEF Bit
      <4>4. HitCount(toBroker', Answers(tag)) = HitCount(toBroker, Answers(tag))
               + (IF link = "up" THEN HitCount(<<AckFrame(done.tag)>>, Answers(tag)) ELSE 0)
        BY <1>0, <4>1, <4>2, SentCount
      <4>5. done.gen = generation_
        BY <3>4 DEF MayComplete, IsCurrent
      <4> QED BY <1>0, <2>1, <3>1, <3>2, <4>1, <4>3, <4>4, <4>5, SumsSideBySide
    <3>5. CASE MayComplete(done) /\ done.result # "Ack"
      <4>1. toBroker' = toBroker /\ retryTimers' = retryTimers \cup {Replacement(done)}
        BY <2>4, <3>5 DEF AcksNow
      <4>2. done.gen = generation_
        BY <3>5 DEF MayComplete, IsCurrent
      <4>3. CASE done.tag # tag
        <5>1. Timers(tag)' = Timers(tag)
          BY <2>1, <2>6, <4>1, <4>3 DEF Timers
        <5> QED BY <1>0, <2>1, <3>1, <3>2, <4>1, <4>3, <5>1, SumsSideBySide
      <4>4. CASE done.tag = tag
        <5>1. Timers(tag)' = Timers(tag) \cup {Replacement(done)}
          BY <2>1, <2>6, <4>1, <4>2, <4>4 DEF Timers
        <5>2. IsFiniteSet(Timers(tag)) /\ Cardinality(Timers(tag)) \in Nat
          BY <1>0, SettlerTerms
        <5>3. Cardinality(Timers(tag)') = IF Replacement(done) \in Timers(tag)
                 THEN Cardinality(Timers(tag)) ELSE Cardinality(Timers(tag)) + 1
          BY <5>1, <5>2, FS_AddElement
        <5>4. Settlers(tag)' <= Settlers(tag) /\ Settlers(tag) \in Nat /\ Settlers(tag)' \in Nat
          BY <1>0, <2>1, <3>1, <3>2, <4>1, <4>2, <4>4, <5>2, <5>3, SumsSideBySide
        <5>5. ASSUME link = "up"
              PROVE  Replacement(done) \notin Timers(tag)
          <6>1. SUFFICES ASSUME Replacement(done) \in Timers(tag)
                         PROVE  FALSE
            OBVIOUS
          <6>2. Cardinality(Timers(tag)) # 0
            BY <5>2, <6>1, FS_EmptySet
          <6>3. Settlers(tag) >= 2
            BY <1>0, <2>1, <3>1, <3>2, <4>2, <4>4, <5>2, <6>2, SumsSideBySide
          <6>4. Settlers(tag) <= Waits(tag) /\ Waits(tag) \in {0, 1}
            BY <5>5 DEF SettlersExact, Waits
          <6> QED BY <5>4, <6>3, <6>4
        <5>6. link = "up" => Settlers(tag)' = Settlers(tag)
          BY <1>0, <2>1, <3>1, <3>2, <4>1, <4>2, <4>4, <5>2, <5>3, <5>5, SumsSideBySide
        <5> QED BY <5>4, <5>6
      <4> QED BY <4>3, <4>4
    <3> QED BY <3>3, <3>4, <3>5
  <2> QED BY <2>1, <2>7, SettlersKept
<1>4. ASSUME NEW timer \in retryTimers, RetryTimerFires(timer)
      PROVE  SettlersExact'
  <2>1. UNCHANGED <<link, unacked, toClient, completions, pending_, inflight_, generation_,
                    recovering_>>
    BY <1>4 DEF RetryTimerFires, storeVars, outboxVars, recoverVars
  <2>2. retryTimers' = retryTimers \ {timer}
    BY <1>4 DEF RetryTimerFires
  <2>3. timer \in RetryTimer
    BY <1>0 DEF TypeOK, QueueTypeOK
  <2>a. timer.tag \in Nat \ {0} /\ timer.gen \in Nat
    BY <2>3 DEF RetryTimer
  <2>4. ASSUME NEW tag \in Nat \ {0}
        PROVE  /\ Settlers(tag) \in Nat /\ Settlers(tag)' \in Nat
               /\ Settlers(tag)' <= Settlers(tag)
               /\ link = "up" /\ ~recovering_' => Settlers(tag)' = Settlers(tag)
    <3>1. IsFiniteSet(Timers(tag)) /\ Cardinality(Timers(tag)) \in Nat
      BY <1>0, SettlerTerms
    <3>2. Timers(tag)' = Timers(tag) \ {timer}
      BY <2>1, <2>2 DEF Timers
    <3>3. timer \in Timers(tag) <=> timer.gen = generation_ /\ timer.tag = tag
      BY DEF Timers
    <3>4. Cardinality(Timers(tag)')
             = IF timer \in Timers(tag) THEN Cardinality(Timers(tag)) - 1
                                        ELSE Cardinality(Timers(tag))
      BY <3>1, <3>2, FS_RemoveElement
    <3>5. CASE ~IsCurrent(timer.gen)
      <4>1. UNCHANGED <<toBroker, submitted>>
        BY <1>4, <3>5 DEF RetryTimerFires
      <4> QED BY <1>0, <2>1, <3>3, <3>4, <3>5, <4>1, SumsSideBySide DEF IsCurrent
    <3>6. CASE IsCurrent(timer.gen) /\ outstanding_ < MaxPending
      <4> DEFINE item == [queue |-> timer.queue, body |-> timer.body,
                          source |-> [gen |-> timer.gen, tag |-> timer.tag]]
      <4>1. ~(outstanding_ >= MaxPending)
        BY <1>0, <3>6, PendingAssumption DEF TypeOK, QueueTypeOK
      <4>2. submitted' = Append(submitted, item) /\ toBroker' = toBroker
        BY <1>4, <3>6, <4>1 DEF RetryTimerFires
      <4>3. item \in Publication
        BY <2>3 DEF RetryTimer, Publication, Source
      <4>4. Bit(item, Owners(tag)) = IF timer.gen = generation_ /\ timer.tag = tag THEN 1 ELSE 0
        <5>1. item \in Owners(tag) <=> timer.gen = generation_ /\ timer.tag = tag
          BY <4>3 DEF Owners
        <5> QED BY <5>1 DEF Bit
      <4>5. HitCount(submitted', Owners(tag))
               = HitCount(submitted, Owners(tag)) + Bit(item, Owners(tag))
        <5> HIDE DEF item
        <5> QED BY <1>a, <4>2, <4>3, HitCountAppend
      <4> HIDE DEF item
      <4>n1. PICK d, c, t, s \in Nat :
                /\ d = HitCount(toClient, Deliveries(tag)) /\ c = HitCount(completions, Dones(tag))
                /\ t = Cardinality(Timers(tag)) /\ s = HitCount(submitted, Owners(tag))
        BY <1>0, <2>1, SumsSideBySide
      <4>n2. PICK p, i, b \in Nat :
                /\ p = HitCount(pending_, Owners(tag)) /\ i = HitCount(inflight_, Owners(tag))
                /\ b = HitCount(toBroker, Answers(tag))
        BY <1>0, <2>1, SumsSideBySide
      <4>n3. PICK d2, c2, t2, s2 \in Nat :
                /\ d2 = HitCount(toClient', Deliveries(tag)) /\ c2 = HitCount(completions', Dones(tag))
                /\ t2 = Cardinality(Timers(tag)') /\ s2 = HitCount(submitted', Owners(tag))
                /\ retryTimers' = retryTimers => t2 = t
        BY <1>0, <2>1, <4>n1, SumsSideBySide
      <4>n4. PICK p2, i2, b2 \in Nat :
                /\ p2 = HitCount(pending_', Owners(tag)) /\ i2 = HitCount(inflight_', Owners(tag))
                /\ b2 = HitCount(toBroker', Answers(tag))
        BY <1>0, <2>1, SumsSideBySide
      <4>n5. /\ Settlers(tag) = d + c + t + s + p + i + b
            /\ Settlers(tag)' = d2 + c2 + t2 + s2 + p2 + i2 + b2
        BY <1>0, <2>1, <4>n1, <4>n2, <4>n3, <4>n4, SumsSideBySide
      <4>7. /\ d2 = d /\ c2 = c /\ p2 = p /\ i2 = i /\ b2 = b
            /\ t2 = IF timer \in Timers(tag) THEN t - 1 ELSE t
            /\ s2 = s + (IF timer \in Timers(tag) THEN 1 ELSE 0)
        BY <2>1, <3>3, <3>4, <4>2, <4>4, <4>5, <4>n1, <4>n2, <4>n3, <4>n4
      <4> QED BY <4>n5, <4>7
    <3>7. CASE IsCurrent(timer.gen) /\ outstanding_ >= MaxPending
      <4>1. ~(outstanding_ < MaxPending)
        BY <1>0, <3>7, PendingAssumption DEF TypeOK, QueueTypeOK
      <4>2. submitted' = submitted /\ toBroker' = GivenBack(timer)
        BY <1>4, <3>7, <4>1 DEF RetryTimerFires
      <4>3. <<RejectFrame(timer.tag)>> \in Seq(ClientFrame)
        BY <2>a DEF RejectFrame, ClientFrame
      <4>4. HitCount(<<RejectFrame(timer.tag)>>, Answers(tag)) = (IF timer.tag = tag THEN 1 ELSE 0)
        <5>1. HitCount(<<RejectFrame(timer.tag)>>, Answers(tag))
                 = Bit(RejectFrame(timer.tag), Answers(tag))
          BY HitCountSingle
        <5>2. RejectFrame(timer.tag) \in Answers(tag) <=> timer.tag = tag
          BY <2>a DEF RejectFrame, Answers, ClientFrame
        <5> QED BY <5>1, <5>2 DEF Bit
      <4>5. HitCount(Sent(<<RejectFrame(timer.tag)>>), Answers(tag)) = HitCount(toBroker, Answers(tag))
               + (IF link = "up" THEN HitCount(<<RejectFrame(timer.tag)>>, Answers(tag)) ELSE 0)
        BY <1>0, <4>3, SentCount
      <4>6. /\ link = "up" => toBroker' = Sent(<<RejectFrame(timer.tag)>>)
            /\ link # "up" => toBroker' = toBroker
        BY <1>c, <4>2 DEF GivenBack, Sent
      <4>7. timer.gen = generation_
        BY <3>7 DEF IsCurrent
      <4>8. CASE link = "up"
        BY <1>0, <2>1, <3>1, <3>3, <3>4, <4>2, <4>4, <4>5, <4>6, <4>7, <4>8, SumsSideBySide
      <4>9. CASE link # "up"
        BY <1>0, <2>1, <3>1, <3>3, <3>4, <4>2, <4>6, <4>7, <4>9, SumsSideBySide
      <4> QED BY <4>8, <4>9
    <3> QED BY <1>0, <1>4, <3>5, <3>6, <3>7 DEF RetryTimerFires
  <2> QED BY <2>1, <2>4, SettlersKept
<1>5. CASE ProducerConfirmSelected
  <2>1. UNCHANGED <<link, unacked, toClient, completions, retryTimers, submitted, generation_>>
    BY <1>5 DEF ProducerConfirmSelected, storeVars, timerVars, queueVars
  <2>2. PICK ready \in BOOLEAN : DrainPending(ready, pending_, inflight_, <<>>)
    BY <1>5, Zenon DEF ProducerConfirmSelected
  <2>3. /\ \A P : HitCount(pending_', P) + HitCount(inflight_', P)
                     = HitCount(pending_, P) + HitCount(inflight_, P)
        /\ \A tag : HitCount(toBroker', Answers(tag)) = HitCount(toBroker, Answers(tag))
                     + (IF link = "up" THEN HitCount(<<>>, Answers(tag)) ELSE 0)
        /\ recovering_ => recovering_'
    <3>1. DOMAIN inflight_ \subseteq DOMAIN inflight_
      OBVIOUS
    <3> QED BY <1>0, <1>a, <1>b, <2>2, <3>1, DrainPendingCounts, Zenon
  <2>4. ASSUME NEW tag \in Nat \ {0}
        PROVE  /\ Settlers(tag) \in Nat /\ Settlers(tag)' \in Nat
               /\ Settlers(tag)' = Settlers(tag)
    <3>1. HitCount(pending_', Owners(tag)) + HitCount(inflight_', Owners(tag))
             = HitCount(pending_, Owners(tag)) + HitCount(inflight_, Owners(tag))
      BY <2>3
    <3>2. HitCount(toBroker', Answers(tag)) = HitCount(toBroker, Answers(tag))
             + (IF link = "up" THEN HitCount(<<>>, Answers(tag)) ELSE 0)
      BY <2>3
    <3>3. HitCount(toBroker', Answers(tag)) = HitCount(toBroker, Answers(tag))
      <4>1. HitCount(toBroker, Answers(tag)) \in Nat
        BY <1>a, HitsFinite
      <4> QED BY <1>b, <3>2, <4>1
    <3> QED BY <1>0, <2>1, <3>1, <3>3, SumsSideBySide
  <2> QED BY <2>1, <2>3, <2>4, SettlersKept
<1>6. CASE Persisted \/ PersistFails \/ ParseFails
  <2>1. PICK stored \in BOOLEAN, result \in Disposition : Delivered(stored, result)
    BY <1>6 DEF Persisted, PersistFails, ParseFails, Disposition
  <2>2. UNCHANGED <<link, unacked, toBroker, retryTimers, submitted, pending_, inflight_,
                    generation_, recovering_>>
    BY <2>1 DEF Delivered, storeVars, timerVars, outboxVars, recoverVars
  <2>3. toClient # <<>> /\ Head(toClient).type = "deliver" /\ toClient' = Tail(toClient)
    BY <1>6, <2>1 DEF Persisted, PersistFails, ParseFails, Receives, Delivered
  <2>4. PICK frame \in BrokerFrame : frame = Head(toClient) /\ frame.type = "deliver"
    BY <1>a, <2>3
  <2>5. frame.tag \in Nat \ {0} /\ frame.body \in Body
    BY <2>4 DEF BrokerFrame
  <2>6. PICK done : /\ done = [gen |-> generation_, tag |-> frame.tag,
                               result |-> result, body |-> frame.body]
                    /\ completions' = Append(completions, done)
    BY <2>1, <2>4 DEF Delivered
  <2>7. done \in Completion
    BY <1>a, <2>5, <2>6 DEF Completion
  <2>8. ASSUME NEW tag \in Nat \ {0}
        PROVE  /\ Settlers(tag) \in Nat /\ Settlers(tag)' \in Nat
               /\ Settlers(tag)' = Settlers(tag)
    <3>1. HitCount(toClient, Deliveries(tag))
             = Bit(frame, Deliveries(tag)) + HitCount(toClient', Deliveries(tag))
      BY <1>a, <2>3, <2>4, HitCountTail
    <3>2. HitCount(completions', Dones(tag))
             = HitCount(completions, Dones(tag)) + Bit(done, Dones(tag))
      BY <1>a, <2>6, <2>7, HitCountAppend
    <3>3. done \in Dones(tag) <=> frame \in Deliveries(tag)
      BY <2>4, <2>6, <2>7 DEF Dones, Deliveries
    <3>4. Bit(done, Dones(tag)) = Bit(frame, Deliveries(tag)) /\ Bit(done, Dones(tag)) \in Nat
      BY <3>3 DEF Bit
    <3> QED BY <1>0, <2>2, <3>1, <3>2, <3>4, SumsSideBySide
  <2> QED BY <2>2, <2>8, SettlersKept
<1>7. CASE OnAck \/ OnNackOrReturn
  <2>1. UNCHANGED <<link, unacked, completions, retryTimers, submitted, generation_>>
    BY <1>7 DEF OnAck, OnNackOrReturn, storeVars, timerVars, queueVars
  <2>2. toClient # <<>> /\ Head(toClient).type # "deliver" /\ toClient' = Tail(toClient)
    BY <1>7 DEF OnAck, OnNackOrReturn, Receives
  <2>3. \A tag : HitCount(toClient, Deliveries(tag)) = HitCount(toClient', Deliveries(tag))
    <3>1. ASSUME NEW tag
          PROVE  HitCount(toClient, Deliveries(tag)) = HitCount(toClient', Deliveries(tag))
      <4>1. HitCount(toClient, Deliveries(tag))
               = Bit(Head(toClient), Deliveries(tag)) + HitCount(toClient', Deliveries(tag))
        BY <1>a, <2>2, HitCountTail
      <4>2. Bit(Head(toClient), Deliveries(tag)) = 0
        BY <2>2 DEF Bit, Deliveries
      <4>3. toClient' \in Seq(BrokerFrame)
        BY <1>0 DEF TypeOK, AmqpTypeOK
      <4>4. HitCount(toClient', Deliveries(tag)) \in Nat
        BY <4>3, HitsFinite
      <4> QED BY <4>1, <4>2, <4>4
    <3> QED BY <3>1
  <2>4. CASE UNCHANGED <<toBroker, outboxVars>> /\ (recovering_ => recovering_')
    <3>1. UNCHANGED <<toBroker, pending_, inflight_>>
      BY <2>4 DEF outboxVars
    <3>2. \A tag \in Nat \ {0} : /\ Settlers(tag) \in Nat /\ Settlers(tag)' \in Nat
                                 /\ Settlers(tag)' = Settlers(tag)
      BY <1>0, <2>1, <2>3, <3>1, SumsSideBySide
    <3> QED BY <2>1, <2>4, <3>2, SettlersKept
  <2>5. CASE Confirm(Head(toClient))
    <3>1. PICK tags : tags = Confirmable(Head(toClient))
      OBVIOUS
    <3>2. PICK rest : rest = [t \in DOMAIN inflight_ \ tags |-> inflight_[t]]
      OBVIOUS
    <3>3. DrainPending(producerReady_, pending_, rest, CompletionAcks(tags))
      BY <2>5, <3>1, <3>2 DEF Confirm
    <3>4. tags \subseteq DOMAIN inflight_ /\ DOMAIN rest \subseteq DOMAIN inflight_
      BY <3>1, <3>2 DEF Confirmable
    <3>5. CompletionAcks(tags) \in Seq(ClientFrame)
      BY <1>0, <3>4, CompletionAcksAreFrames DEF TypeOK
    <3>a. PICK acks \in Seq(ClientFrame) : acks = CompletionAcks(tags)
      BY <3>5
    <3>b. DrainPending(producerReady_, pending_, rest, acks)
      BY <3>3, <3>a
    <3>6. /\ \A P : HitCount(pending_', P) + HitCount(inflight_', P)
                       = HitCount(pending_, P) + HitCount(rest, P)
          /\ \A tag : HitCount(toBroker', Answers(tag)) = HitCount(toBroker, Answers(tag))
                         + (IF link = "up" THEN HitCount(acks, Answers(tag)) ELSE 0)
          /\ recovering_ => recovering_'
      BY <1>0, <1>a, <3>4, <3>b, DrainPendingCounts, Zenon
    <3>7. ASSUME NEW tag \in Nat \ {0}
          PROVE  /\ Settlers(tag) \in Nat /\ Settlers(tag)' \in Nat
                 /\ Settlers(tag)' <= Settlers(tag)
                 /\ link = "up" => Settlers(tag)' = Settlers(tag)
      <4>1. HitCount(pending_', Owners(tag)) + HitCount(inflight_', Owners(tag))
               = HitCount(pending_, Owners(tag)) + HitCount(rest, Owners(tag))
        BY <3>6
      <4>2. HitCount(toBroker', Answers(tag)) = HitCount(toBroker, Answers(tag))
               + (IF link = "up" THEN HitCount(CompletionAcks(tags), Answers(tag)) ELSE 0)
        BY <3>6, <3>a
      <4>3. HitCount(CompletionAcks(tags), Answers(tag))
               = Cardinality({t \in tags : inflight_[t] \in Owners(tag)})
        BY <1>0, <3>4, CompletionAcksCount
      <4>4. HitCount(inflight_, Owners(tag)) = HitCount(rest, Owners(tag))
               + Cardinality({t \in tags : inflight_[t] \in Owners(tag)})
        BY <1>0, <3>2, <3>4, RemovedCount
      <4>5. HitCount(CompletionAcks(tags), Answers(tag)) \in Nat
        BY <3>5, HitsFinite
      <4>6. HitCount(rest, Owners(tag)) \in Nat
        <5>1. DOMAIN rest \subseteq 1..(nextPublishTag_ - 1) /\ nextPublishTag_ - 1 \in Nat
          BY <1>0, <3>4 DEF TypeOK, OutboxTypeOK
        <5> QED BY <5>1, InflightHitsFinite
      <4>7. PICK moved \in Nat : moved = HitCount(CompletionAcks(tags), Answers(tag))
        BY <4>5
      <4>8. HitCount(inflight_, Owners(tag)) = HitCount(rest, Owners(tag)) + moved
        BY <4>3, <4>4, <4>7
      <4>9. PICK r \in Nat : r = HitCount(rest, Owners(tag))
        BY <4>6
      <4>n1. PICK d, c, t, s \in Nat :
                /\ d = HitCount(toClient, Deliveries(tag)) /\ c = HitCount(completions, Dones(tag))
                /\ t = Cardinality(Timers(tag)) /\ s = HitCount(submitted, Owners(tag))
        BY <1>0, <2>1, SumsSideBySide
      <4>n2. PICK p, i, b \in Nat :
                /\ p = HitCount(pending_, Owners(tag)) /\ i = HitCount(inflight_, Owners(tag))
                /\ b = HitCount(toBroker, Answers(tag))
        BY <1>0, <2>1, SumsSideBySide
      <4>n3. PICK d2, c2, t2, s2 \in Nat :
                /\ d2 = HitCount(toClient', Deliveries(tag)) /\ c2 = HitCount(completions', Dones(tag))
                /\ t2 = Cardinality(Timers(tag)') /\ s2 = HitCount(submitted', Owners(tag))
                /\ retryTimers' = retryTimers => t2 = t
        BY <1>0, <2>1, <4>n1, SumsSideBySide
      <4>n4. PICK p2, i2, b2 \in Nat :
                /\ p2 = HitCount(pending_', Owners(tag)) /\ i2 = HitCount(inflight_', Owners(tag))
                /\ b2 = HitCount(toBroker', Answers(tag))
        BY <1>0, <2>1, SumsSideBySide
      <4>n5. /\ Settlers(tag) = d + c + t + s + p + i + b
            /\ Settlers(tag)' = d2 + c2 + t2 + s2 + p2 + i2 + b2
        BY <1>0, <2>1, <4>n1, <4>n2, <4>n3, <4>n4, SumsSideBySide
      <4>11. /\ d2 = d /\ c2 = c /\ t2 = t /\ s2 = s /\ p2 + i2 = p + r /\ i = r + moved
             /\ b2 = b + (IF link = "up" THEN moved ELSE 0)
        BY <2>1, <2>3, <4>1, <4>2, <4>7, <4>8, <4>9, <4>n1, <4>n2, <4>n3, <4>n4
      <4> QED BY <4>n5, <4>11
    <3> QED BY <2>1, <3>6, <3>7, SettlersKept
  <2> QED BY <1>7, <2>4, <2>5 DEF OnAck, OnNackOrReturn, recoverVars, PublishRefused, ConnectionFailed
<1> QED BY <1>1, <1>2, <1>3, <1>4, <1>5, <1>6, <1>7 DEF Receiving

\* The broker's steps: it takes a delivery back on its one settlement, and hands out the
\* next one only when nothing is left to settle.
LEMMA SettlersBrokerStep ==
    ASSUME Inv, Inv', LinkShape, SettlersExact, IsFiniteSet(retryTimers'), NoFuture', Brokering
    PROVE  SettlersExact'
<1>0. TypeOK /\ TypeOK' /\ IsFiniteSet(retryTimers)
  BY DEF Inv, SettlersExact
<1>a. /\ toClient \in Seq(BrokerFrame) /\ toBroker \in Seq(ClientFrame)
      /\ unacked \in Seq(Delivery) /\ mainQueue \in Seq(Body)
      /\ received \in Nat /\ deliveries \in Nat /\ unconfirmed \in SUBSET (Nat \ {0})
  BY <1>0 DEF TypeOK, AmqpTypeOK
<1>b. UNCHANGED <<completions, retryTimers, submitted, pending_, inflight_, generation_, recovering_>>
  BY DEF Brokering, handlerVars, timerVars, queueVars, outboxVars, recoverVars
<1>c. ASSUME NEW tag,
             HitCount(toClient', Deliveries(tag)) = HitCount(toClient, Deliveries(tag)),
             HitCount(toBroker', Answers(tag)) = HitCount(toBroker, Answers(tag))
      PROVE  Settlers(tag) \in Nat /\ Settlers(tag)' \in Nat /\ Settlers(tag)' = Settlers(tag)
  BY <1>0, <1>b, <1>c, SumsSideBySide
<1>d. ASSUME NEW frame \in BrokerFrame, frame.type # "deliver", NEW s \in Seq(BrokerFrame), NEW tag
      PROVE  HitCount(Append(s, frame), Deliveries(tag)) = HitCount(s, Deliveries(tag))
  <2>1. Bit(frame, Deliveries(tag)) = 0
    BY <1>d DEF Bit, Deliveries
  <2>2. HitCount(Append(s, frame), Deliveries(tag))
           = HitCount(s, Deliveries(tag)) + Bit(frame, Deliveries(tag))
    BY HitCountAppend
  <2>3. HitCount(s, Deliveries(tag)) \in Nat
    BY HitsFinite
  <2> QED BY <2>1, <2>2, <2>3
<1>e. ASSUME toBroker # <<>>, Head(toBroker).type = "publish", NEW tag
      PROVE  HitCount(Tail(toBroker), Answers(tag)) = HitCount(toBroker, Answers(tag))
  <2>1. Bit(Head(toBroker), Answers(tag)) = 0
    BY <1>e DEF Bit, Answers
  <2>2. HitCount(toBroker, Answers(tag))
           = Bit(Head(toBroker), Answers(tag)) + HitCount(Tail(toBroker), Answers(tag))
    BY <1>a, <1>e, HitCountTail
  <2>3. Tail(toBroker) \in Seq(ClientFrame)
    BY <1>a, <1>e
  <2>4. HitCount(Tail(toBroker), Answers(tag)) \in Nat
    BY <2>3, HitsFinite
  <2> QED BY <2>1, <2>2, <2>4
<1>1. CASE LinkBreaks
  <2>1. link' = "broken"
    BY <1>1 DEF LinkBreaks, CloseLink
  <2> QED BY <2>1 DEF SettlersExact
<1>2. CASE BrokerStores
  <2>1. /\ UNCHANGED <<link, unacked, toClient>> /\ toBroker' = Tail(toBroker)
        /\ toBroker # <<>> /\ Head(toBroker).type = "publish"
    BY <1>2 DEF BrokerStores
  <2>2. \A tag \in Nat \ {0} : /\ Settlers(tag) \in Nat /\ Settlers(tag)' \in Nat
                               /\ Settlers(tag)' = Settlers(tag)
    BY <1>c, <1>e, <2>1
  <2> QED BY <1>b, <2>1, <2>2, SettlersKept
<1>3. CASE BrokerNacks
  <2>1. PICK frame : frame = [type |-> "nack", tag |-> received + 1]
    OBVIOUS
  <2>2. /\ UNCHANGED <<link, unacked>> /\ toClient' = Append(toClient, frame)
        /\ toBroker' = Tail(toBroker) /\ toBroker # <<>> /\ Head(toBroker).type = "publish"
    BY <1>3, <2>1 DEF BrokerNacks
  <2>3. frame \in BrokerFrame /\ frame.type # "deliver"
    BY <1>a, <2>1 DEF BrokerFrame
  <2>4. \A tag \in Nat \ {0} : /\ Settlers(tag) \in Nat /\ Settlers(tag)' \in Nat
                               /\ Settlers(tag)' = Settlers(tag)
    BY <1>a, <1>c, <1>d, <1>e, <2>2, <2>3
  <2> QED BY <1>b, <2>2, <2>4, SettlersKept
<1>4. CASE BrokerReturns
  <2>1. PICK back, frame : /\ back = [type |-> "return"]
                           /\ frame = [type |-> "confirm", tag |-> received + 1, multiple |-> FALSE]
    OBVIOUS
  <2>2. /\ UNCHANGED <<link, unacked>> /\ toClient' = toClient \o <<back, frame>>
        /\ toBroker' = Tail(toBroker) /\ toBroker # <<>> /\ Head(toBroker).type = "publish"
    BY <1>4, <2>1 DEF BrokerReturns
  <2>3. /\ back \in BrokerFrame /\ back.type # "deliver"
        /\ frame \in BrokerFrame /\ frame.type # "deliver"
    BY <1>a, <2>1 DEF BrokerFrame
  <2>4. /\ Append(toClient, back) \in Seq(BrokerFrame)
        /\ toClient' = Append(Append(toClient, back), frame)
    BY <1>a, <2>2, <2>3
  <2>5. \A tag : HitCount(toClient', Deliveries(tag)) = HitCount(toClient, Deliveries(tag))
    <3>1. PICK more \in Seq(BrokerFrame) : more = Append(toClient, back)
      BY <2>4
    <3>2. \A tag : HitCount(more, Deliveries(tag)) = HitCount(toClient, Deliveries(tag))
      BY <1>a, <1>d, <2>3, <3>1
    <3>3. \A tag : HitCount(Append(more, frame), Deliveries(tag)) = HitCount(more, Deliveries(tag))
      BY <1>d, <2>3
    <3> QED BY <2>4, <3>1, <3>2, <3>3
  <2>6. \A tag \in Nat \ {0} : /\ Settlers(tag) \in Nat /\ Settlers(tag)' \in Nat
                               /\ Settlers(tag)' = Settlers(tag)
    BY <1>c, <1>e, <2>2, <2>5
  <2> QED BY <1>b, <2>2, <2>6, SettlersKept
<1>5. CASE BrokerConfirmsSome
  <2>1. PICK tag0 \in unconfirmed, multiple \in BOOLEAN : BrokerConfirms(tag0, multiple)
    BY <1>5 DEF BrokerConfirmsSome
  <2>2. PICK frame : frame = [type |-> "confirm", tag |-> tag0, multiple |-> multiple]
    OBVIOUS
  <2>3. UNCHANGED <<link, unacked, toBroker>> /\ toClient' = Append(toClient, frame)
    BY <2>1, <2>2 DEF BrokerConfirms
  <2>4. frame \in BrokerFrame /\ frame.type # "deliver"
    BY <1>a, <2>2 DEF BrokerFrame
  <2>5. \A tag \in Nat \ {0} : /\ Settlers(tag) \in Nat /\ Settlers(tag)' \in Nat
                               /\ Settlers(tag)' = Settlers(tag)
    BY <1>a, <1>c, <1>d, <2>3, <2>4
  <2> QED BY <1>b, <2>3, <2>5, SettlersKept
<1>6. CASE BrokerAcked \/ BrokerRejected
  <2>1. /\ link = "up" /\ toBroker # <<>> /\ Head(toBroker).type \in {"ack", "reject"}
        /\ UNCHANGED <<link, toClient>> /\ toBroker' = Tail(toBroker)
        /\ unacked' = IF Awaits(Head(toBroker).tag) THEN <<>> ELSE unacked
    BY <1>6 DEF BrokerAcked, BrokerRejected
  <2>2. PICK frame \in ClientFrame : frame = Head(toBroker) /\ frame = toBroker[1]
    BY <1>a, <2>1
  <2>3. /\ frame.tag \in Nat \ {0}
        /\ \A tag : frame \in Answers(tag) <=> frame.tag = tag
    BY <2>1, <2>2 DEF ClientFrame, Answers
  <2>4. ASSUME NEW tag
        PROVE  Settlers(tag) = Settlers(tag)' + (IF frame.tag = tag THEN 1 ELSE 0)
    <3>1. HitCount(toBroker, Answers(tag))
             = Bit(frame, Answers(tag)) + HitCount(toBroker', Answers(tag))
      BY <1>a, <2>1, <2>2, HitCountTail
    <3>2. Bit(frame, Answers(tag)) = IF frame.tag = tag THEN 1 ELSE 0
      BY <2>3 DEF Bit
    <3>3. PICK d, c, t, s \in Nat :
             /\ d = HitCount(toClient, Deliveries(tag)) /\ c = HitCount(completions, Dones(tag))
             /\ t = Cardinality(Timers(tag)) /\ s = HitCount(submitted, Owners(tag))
      BY <1>0, <1>b, SumsSideBySide
    <3>4. PICK p, n, b, b2 \in Nat :
             /\ p = HitCount(pending_, Owners(tag)) /\ n = HitCount(inflight_, Owners(tag))
             /\ b = HitCount(toBroker, Answers(tag)) /\ b2 = HitCount(toBroker', Answers(tag))
      BY <1>0, <1>b, SumsSideBySide
    <3>5. Settlers(tag) = d + c + t + s + p + n + b
      BY <1>0, <1>b, <3>3, <3>4, SumsSideBySide
    <3>6. Settlers(tag)' = d + c + t + s + p + n + b2
      BY <1>0, <1>b, <2>1, <3>3, <3>4, SumsSideBySide
    <3>7. b = (IF frame.tag = tag THEN 1 ELSE 0) + b2
      BY <3>1, <3>2, <3>4
    <3> QED BY <3>5, <3>6, <3>7
  <2>5. \A tag : Settlers(tag) \in Nat /\ Settlers(tag)' \in Nat
    BY <1>0, <1>b, SumsSideBySide
  <2>6. Settlers(frame.tag) <= Waits(frame.tag)
    BY <2>1, <2>3 DEF SettlersExact
  <2>7. Awaits(frame.tag) /\ Settlers(frame.tag) = 1
    BY <2>4, <2>5, <2>6 DEF Waits
  <2>8. unacked' = <<>>
    BY <2>1, <2>2, <2>7
  <2>9. \A tag : Waits(tag)' = 0
    BY <2>8 DEF Waits, Awaits
  <2>10. ASSUME NEW tag \in Nat \ {0}
         PROVE  Settlers(tag)' = 0
    <3>1. CASE tag = frame.tag
      BY <2>4, <2>5, <2>7, <3>1
    <3>2. CASE tag # frame.tag
      <4>1. ~Awaits(tag)
        BY <2>7, <3>2 DEF Awaits
      <4>2. Settlers(tag) <= Waits(tag) /\ Waits(tag) = 0
        BY <2>1, <4>1 DEF SettlersExact, Waits
      <4> QED BY <2>4, <2>5, <3>2, <4>2
    <3> QED BY <3>1, <3>2
  <2> QED BY <2>1, <2>9, <2>10 DEF SettlersExact
<1>7. CASE BrokerDelivers
  <2>1. PICK frame : frame = [type |-> "deliver", tag |-> deliveries + 1, body |-> Head(mainQueue)]
    OBVIOUS
  <2>2. /\ link = "up" /\ unacked = <<>> /\ mainQueue # <<>> /\ UNCHANGED <<link, toBroker>>
        /\ toClient' = Append(toClient, frame)
        /\ unacked' = <<[tag |-> deliveries + 1, body |-> Head(mainQueue)]>>
    BY <1>7, <2>1 DEF BrokerDelivers
  <2>3. frame \in BrokerFrame
    <3>1. Head(mainQueue) \in Body /\ deliveries + 1 \in Nat \ {0}
      BY <1>a, <2>2
    <3> QED BY <2>1, <3>1 DEF BrokerFrame
  <2>4. ASSUME NEW tag \in Nat \ {0}
        PROVE  Settlers(tag)' = Waits(tag)'
    <3>1. HitCount(toClient', Deliveries(tag))
             = HitCount(toClient, Deliveries(tag)) + Bit(frame, Deliveries(tag))
      BY <1>a, <2>2, <2>3, HitCountAppend
    <3>2. Bit(frame, Deliveries(tag)) = IF deliveries + 1 = tag THEN 1 ELSE 0
      <4>1. frame \in Deliveries(tag) <=> deliveries + 1 = tag
        BY <2>1, <2>3 DEF Deliveries
      <4> QED BY <4>1 DEF Bit
    <3>3. Waits(tag)' = IF deliveries + 1 = tag THEN 1 ELSE 0
      BY <2>2 DEF Waits, Awaits
    <3>4. Settlers(tag) \in Nat /\ Settlers(tag) <= 0
      <4>1. Waits(tag) = 0
        BY <2>2 DEF Waits, Awaits
      <4>2. Settlers(tag) \in Nat
        BY <1>0, <1>b, SumsSideBySide
      <4> QED BY <2>2, <4>1, <4>2 DEF SettlersExact
    <3>5. Settlers(tag)' = Settlers(tag) + Bit(frame, Deliveries(tag))
      <4>1. PICK d, c, t, s \in Nat :
                /\ d = HitCount(toClient, Deliveries(tag)) /\ c = HitCount(completions, Dones(tag))
                /\ t = Cardinality(Timers(tag)) /\ s = HitCount(submitted, Owners(tag))
        BY <1>0, <1>b, SumsSideBySide
      <4>2. PICK p, i, b \in Nat :
                /\ p = HitCount(pending_, Owners(tag)) /\ i = HitCount(inflight_, Owners(tag))
                /\ b = HitCount(toBroker, Answers(tag))
        BY <1>0, <1>b, SumsSideBySide
      <4>3. PICK bit \in Nat : bit = Bit(frame, Deliveries(tag))
        BY <3>2
      <4>4. /\ Settlers(tag) = d + c + t + s + p + i + b
            /\ Settlers(tag)' = (d + bit) + c + t + s + p + i + b
        BY <1>0, <1>b, <2>2, <3>1, <4>1, <4>2, <4>3, SumsSideBySide
      <4>5. Settlers(tag)' = Settlers(tag) + bit
        BY <4>4
      <4> QED BY <4>3, <4>5
    <3> QED BY <3>2, <3>3, <3>4, <3>5
  <2>5. \A tag : Waits(tag)' \in Nat
    BY DEF Waits
  <2> QED BY <2>2, <2>4, <2>5 DEF SettlersExact
<1>8. CASE DeadQueueDeleted
  <2>1. UNCHANGED <<link, unacked, toClient, toBroker>>
    BY <1>8 DEF DeadQueueDeleted
  <2>2. \A tag \in Nat \ {0} : /\ Settlers(tag) \in Nat /\ Settlers(tag)' \in Nat
                               /\ Settlers(tag)' = Settlers(tag)
    BY <1>c, <2>1
  <2> QED BY <1>b, <2>1, <2>2, SettlersKept
<1> QED BY <1>1, <1>2, <1>3, <1>4, <1>5, <1>6, <1>7, <1>8 DEF Brokering

\* Every step keeps the count.
LEMMA SettlersStep ==
    ASSUME Inv, Inv', LinkShape, LinkShape', SettlersExact, [Next]_vars
    PROVE  SettlersExact'
<1>0. TypeOK /\ TypeOK' /\ IsFiniteSet(retryTimers) /\ NoFuture
  BY DEF Inv, SettlersExact
<1>1. IsFiniteSet(retryTimers') /\ NoFuture'
  BY <1>0, NoFutureStep
<1>2. CASE Publishing \/ RunSubmitted \/ RunCompletion \/ ProducerConfirmSelected \/ Receiving
             \/ \E timer \in retryTimers : RetryTimerFires(timer)
  BY <1>1, <1>2, SettlersHandlerStep
<1>3. CASE Brokering
  BY <1>1, <1>3, SettlersBrokerStep
<1>4. CASE RunRecover \/ Shutdown \/ Crash
  <2>1. RunRecover \/ NoHandler
    BY <1>4 DEF Shutdown, Crash
  <2>2. \A tag \in Nat \ {0} : Settlers(tag)' = 0
    BY <1>0, <2>1, SettlersReset
  <2>3. link' = "none"
    BY <2>1 DEF RunRecover, NoHandler, CloseLink
  <2> QED BY <1>1, <2>2, <2>3 DEF SettlersExact
<1>5. CASE OnConnected
  <2>1. /\ link' = "up" /\ link = "none" /\ unacked' = unacked
        /\ UNCHANGED <<toClient, completions, retryTimers, submitted, pending_, inflight_,
                       toBroker, generation_>>
    BY <1>5 DEF OnConnected, OpenLink, timerVars, queueVars, outboxVars, LinkShape
  <2>2. \A tag \in Nat \ {0} : Settlers(tag)' = 0
    BY <2>1, SettlersSame DEF SettlersExact
  <2>3. unacked' = <<>>
    BY <2>1 DEF LinkShape
  <2>4. \A tag : Waits(tag)' = 0
    BY <2>3 DEF Waits, Awaits
  <2> QED BY <1>1, <2>1, <2>2, <2>4 DEF SettlersExact
<1>6. CASE ReconnectTimerFires \/ Start
  <2>1. /\ link = "none"
        /\ UNCHANGED <<link, toClient, completions, retryTimers, submitted, pending_, inflight_,
                       toBroker, generation_>>
    BY <1>6 DEF ReconnectTimerFires, Start, brokerVars, storeVars, timerVars, queueVars,
                outboxVars, LinkShape
  <2>2. \A tag \in Nat \ {0} : Settlers(tag)' = 0
    BY <2>1, SettlersSame DEF SettlersExact
  <2> QED BY <1>1, <2>1, <2>2 DEF SettlersExact
<1>7. CASE OnError \/ OnLost \/ ProducerMainDeclared \/ ProducerDeadDeclared \/ ConsumerStarted
             \/ UNCHANGED vars
  <2>1. /\ UNCHANGED <<link, unacked, toClient, completions, retryTimers, submitted, pending_,
                       inflight_, toBroker, generation_>>
        /\ recovering_ => recovering_'
    BY <1>7 DEF OnError, OnLost, ConnectionFailed, ProducerMainDeclared, ProducerDeadDeclared,
                DeclareOnProducer, ConsumerStarted, vars, handlerVars, brokerVars, storeVars,
                timerVars, queueVars, outboxVars, recoverVars
  <2>2. \A tag : Settlers(tag)' = Settlers(tag) /\ Settlers(tag) \in Nat
    <3>1. \A tag : Settlers(tag)' = Settlers(tag)
      BY <2>1, SettlersSame
    <3>2. generation_' = generation_
      BY <2>1
    <3>3. \A tag : Settlers(tag) \in Nat
      BY <1>0, <1>1, <3>2, SumsSideBySide
    <3> QED BY <3>1, <3>3
  <2>3. \A tag \in Nat \ {0} : /\ Settlers(tag) \in Nat /\ Settlers(tag)' \in Nat
                               /\ Settlers(tag)' <= Settlers(tag)
                               /\ Settlers(tag)' = Settlers(tag)
    BY <2>2
  <2> QED BY <1>1, <2>1, <2>3, SettlersKept
<1> QED BY <1>2, <1>3, <1>4, <1>5, <1>6, <1>7 DEF Next, Looping, Connecting

-----------------------------------------------------------------------------
(* The theorems about single deliveries and single bodies *)

\* Nothing is known, sent or awaited but the backlog.
LEMMA DeliveryInit ==
    ASSUME Init
    PROVE  LinkShape /\ BodiesKnown /\ SettlersExact
<1>1. PICK backlog \in [1..Cardinality(Legacy) -> {FirstBody(j) : j \in Legacy}] : AmqpInit(backlog)
  BY DEF Init
<1>2. /\ link = "none" /\ DOMAIN toBroker = {} /\ DOMAIN toClient = {} /\ mainQueue = backlog
      /\ deadQueue = {} /\ DOMAIN unacked = {} /\ received = 0 /\ unconfirmed = {}
      /\ toBroker = <<>> /\ toClient = <<>> /\ unacked = <<>>
  BY <1>1 DEF AmqpInit
<1>3. /\ retryTimers = {} /\ DOMAIN completions = {} /\ DOMAIN submitted = {}
      /\ DOMAIN pending_ = {} /\ DOMAIN inflight_ = {} /\ publisher.pc = "idle" /\ database = {}
  BY DEF Init, Idle
<1>4. LinkShape
  BY <1>2 DEF LinkShape, Init
<1>5. ASSUME NEW i \in DOMAIN mainQueue
      PROVE  mainQueue[i] \in Circulating
  <2>1. PICK j \in Legacy : mainQueue[i] = FirstBody(j)
    BY <1>1, <1>2
  <2>2. failures[j] = 0 /\ FirstBody(j) \in Body
    BY AttemptAssumption DEF Init, AllJobs, FirstBody, Body
  <2>3. FirstBody(j).job = j /\ FirstBody(j).attempt = 0
    BY DEF FirstBody
  <2> QED BY <2>1, <2>2, <2>3 DEF Circulating, KnownJobs
<1>6. BodiesKnown
  BY <1>2, <1>3, <1>5 DEF BodiesKnown
<1>7. SettlersExact
  <2>1. IsFiniteSet(retryTimers)
    BY <1>3, FS_EmptySet
  <2>2. NoFuture
    BY <1>3 DEF NoFuture
  <2>3. ASSUME NEW tag
        PROVE  Settlers(tag) = 0
    <3>1. TypeOK
      BY InitHolds DEF Inv
    <3>2. Timers(tag) = {}
      BY <1>3 DEF Timers
    <3>3. /\ HitCount(toClient, Deliveries(tag)) = 0 /\ HitCount(completions, Dones(tag)) = 0
          /\ HitCount(submitted, Owners(tag)) = 0 /\ HitCount(pending_, Owners(tag)) = 0
          /\ HitCount(inflight_, Owners(tag)) = 0 /\ HitCount(toBroker, Answers(tag)) = 0
      BY <1>2, <1>3, HitCountZero
    <3>4. Cardinality(Timers(tag)) = 0
      BY <3>2, FS_EmptySet
    <3> QED BY <3>1, <3>3, <3>4, SettlersSum
  <2> QED BY <1>2, <2>1, <2>2, <2>3 DEF SettlersExact
<1> QED BY <1>4, <1>6, <1>7

\* The layers that say where a delivery and a body may be, on top of Inv: what is on the
\* wire matches the state of the connection, every body in circulation has failed as
\* often as it says, and every delivery has one settler.
DeliveryInv == Inv /\ LinkShape /\ BodiesKnown /\ SettlersExact

\* The layers hold in every state MQManager, executeMysql and the broker can reach.
THEOREM DeliveryInvCorrect == Spec => []DeliveryInv
<1>1. Init => DeliveryInv
  BY InitHolds, DeliveryInit DEF DeliveryInv
<1>2. DeliveryInv /\ Inv' /\ [Next]_vars => DeliveryInv'
  <2>1. ASSUME DeliveryInv, Inv', [Next]_vars
        PROVE  DeliveryInv'
    <3>1. Inv /\ LinkShape /\ BodiesKnown /\ SettlersExact
      BY <2>1 DEF DeliveryInv
    <3>2. LinkShape'
      BY <2>1, <3>1, LinkShapeStep
    <3>3. BodiesKnown'
      BY <2>1, <3>1, BodiesKnownStep
    <3>4. SettlersExact'
      BY <2>1, <3>1, <3>2, SettlersStep
    <3> QED BY <2>1, <3>2, <3>3, <3>4 DEF DeliveryInv
  <2> QED BY <2>1
<1> QED BY <1>1, <1>2, InvCorrect, PTL DEF Spec

\* completeDelivery sends a well-formed exchange to sql_queue.dead only after its first
\* delivery and MaxAttempt retries have failed, whatever is lost or repeated on the way.
THEOREM QuarantineCorrect == Spec => []QuarantinedOnlyExhausted
<1>1. DeliveryInv => QuarantinedOnlyExhausted
  BY DEF DeliveryInv, BodiesKnown, GivenUp, QuarantinedOnlyExhausted
<1> QED BY <1>1, DeliveryInvCorrect, PTL

\* While the connection is up, the awaited delivery is settled by exactly one frame,
\* completeDelivery functor, retry timer or unconfirmed replacement.
THEOREM SettlerCorrect == Spec => []OneSettler
<1>1. DeliveryInv => OneSettler
  <2>1. ASSUME DeliveryInv, link = "up", ~recovering_, NEW i \in DOMAIN unacked
        PROVE  Settlers(unacked[i].tag) = 1
    <3>a. unacked \in Seq(Delivery)
      BY <2>1 DEF DeliveryInv, Inv, TypeOK, AmqpTypeOK
    <3>b. unacked # <<>> /\ i \in 1..Len(unacked)
      BY <2>1, <3>a
    <3>c. Len(unacked) = 1
      BY <2>1, <3>b DEF DeliveryInv, LinkShape
    <3>2. i = 1 /\ unacked # <<>> /\ unacked[1] \in Delivery
      BY <3>a, <3>b, <3>c
    <3>3. Awaits(unacked[i].tag) /\ unacked[i].tag \in Nat \ {0}
      BY <3>2 DEF Awaits, Delivery
    <3>4. Settlers(unacked[i].tag) = Waits(unacked[i].tag)
      BY <2>1, <3>3 DEF DeliveryInv, SettlersExact
    <3> QED BY <3>3, <3>4 DEF Waits
  <2> QED BY <2>1 DEF OneSettler
<1> QED BY <1>1, DeliveryInvCorrect, PTL

\* A frame that answers a delivery is counted among its settlers, so the delivery is awaited.
LEMMA AnswersAreAwaited ==
    ASSUME DeliveryInv
    PROVE  AcksAreCurrent
<1>1. ASSUME NEW i \in DOMAIN toBroker, toBroker[i].type \in {"ack", "reject"}
      PROVE  Awaits(toBroker[i].tag)
  <2>0. TypeOK /\ IsFiniteSet(retryTimers)
    BY DEF DeliveryInv, Inv, SettlersExact
  <2>1. toBroker \in Seq(ClientFrame)
    BY <2>0 DEF TypeOK, AmqpTypeOK
  <2>2. toBroker[i] \in ClientFrame /\ toBroker # <<>>
    BY <2>1
  <2>3. PICK tag \in Nat \ {0} : tag = toBroker[i].tag
    BY <1>1, <2>2 DEF ClientFrame
  <2>4. toBroker[i] \in Answers(tag)
    BY <1>1, <2>2, <2>3 DEF Answers
  <2>5. HitCount(toBroker, Answers(tag)) >= 1
    BY <2>1, <2>4, HitCountPositive
  <2>6. PICK d, c, t, s \in Nat :
            /\ d = HitCount(toClient, Deliveries(tag)) /\ c = HitCount(completions, Dones(tag))
            /\ t = Cardinality(Timers(tag)) /\ s = HitCount(submitted, Owners(tag))
    BY <2>0, SettlerTerms
  <2>7. PICK p, n, b \in Nat :
            /\ p = HitCount(pending_, Owners(tag)) /\ n = HitCount(inflight_, Owners(tag))
            /\ b = HitCount(toBroker, Answers(tag))
    BY <2>0, SettlerTerms
  <2>8. Settlers(tag) = d + c + t + s + p + n + b /\ b >= 1
    BY <2>0, <2>5, <2>6, <2>7, SettlersSum
  <2>9. link = "up"
    BY <1>1, <2>2 DEF DeliveryInv, LinkShape
  <2>10. Settlers(tag) <= Waits(tag)
    BY <1>1, <2>9 DEF DeliveryInv, SettlersExact
  <2>11. Waits(tag) # 0
    <3>1. Settlers(tag) \in Nat /\ Settlers(tag) # 0
      BY <2>8
    <3> QED BY <2>10, <3>1
  <2> QED BY <2>3, <2>11 DEF Waits
<1> QED BY <1>1 DEF AcksAreCurrent

\* Every basic.ack and basic.reject on the wire is for the delivery the broker waits for:
\* the generation_ tests of completeDelivery and confirm keep the others back.
THEOREM AcksCorrect == Spec => []AcksAreCurrent
<1>1. DeliveryInv => AcksAreCurrent
  BY AnswersAreAwaited
<1> QED BY <1>1, DeliveryInvCorrect, PTL

-----------------------------------------------------------------------------
(* Whatever will settle a delivery carries the exchange that was delivered *)

\* Tag and exchange of each step that Settlers counts, but for those on the wire.
FrameTags ==
    {<<toClient[i].tag, toClient[i].body.job>> :
        i \in {k \in DOMAIN toClient : toClient[k].type = "deliver"}}

DoneTags ==
    {<<completions[i].tag, completions[i].body.job>> :
        i \in {k \in DOMAIN completions : completions[k].gen = generation_}}

TimerTags ==
    {<<t.tag, t.body.job>> : t \in {u \in retryTimers : u.gen = generation_}}

SubmittedTags ==
    {<<submitted[i].source.tag, submitted[i].body.job>> :
        i \in {k \in DOMAIN submitted : Bound(submitted[k])}}

PendingTags ==
    {<<pending_[i].source.tag, pending_[i].body.job>> :
        i \in {k \in DOMAIN pending_ : Bound(pending_[k])}}

InflightTags ==
    {<<inflight_[i].source.tag, inflight_[i].body.job>> :
        i \in {k \in DOMAIN inflight_ : Bound(inflight_[k])}}

Handled ==
    FrameTags \cup DoneTags \cup TimerTags \cup SubmittedTags \cup PendingTags \cup InflightTags

\* What the broker knows of a tag: the exchange of the delivery it waits for, or, once
\* the connection is cut, any exchange that is back in its queue.
Expected ==
    {x \in (Nat \ {0}) \X AllJobs :
        /\ link = "up" => Awaits(x[1]) /\ unacked[1].body.job = x[2]
        /\ link = "broken" => \E i \in DOMAIN mainQueue : mainQueue[i].job = x[2]}

Carries == Handled \subseteq Expected

\* One by one.
LEMMA HandledItems ==
    ASSUME NEW x
    PROVE  x \in Handled <=>
              \/ \E i \in DOMAIN toClient : /\ toClient[i].type = "deliver"
                                            /\ x = <<toClient[i].tag, toClient[i].body.job>>
              \/ \E i \in DOMAIN completions : /\ completions[i].gen = generation_
                                               /\ x = <<completions[i].tag, completions[i].body.job>>
              \/ \E t \in retryTimers : t.gen = generation_ /\ x = <<t.tag, t.body.job>>
              \/ \E i \in DOMAIN submitted :
                    Bound(submitted[i]) /\ x = <<submitted[i].source.tag, submitted[i].body.job>>
              \/ \E i \in DOMAIN pending_ :
                    Bound(pending_[i]) /\ x = <<pending_[i].source.tag, pending_[i].body.job>>
              \/ \E i \in DOMAIN inflight_ :
                    Bound(inflight_[i]) /\ x = <<inflight_[i].source.tag, inflight_[i].body.job>>
BY DEF Handled, FrameTags, DoneTags, TimerTags, SubmittedTags, PendingTags, InflightTags

\* Each of them is counted.
LEMMA HandledCounted ==
    ASSUME TypeOK, IsFiniteSet(retryTimers), NEW x \in Handled
    PROVE  /\ x \in (Nat \ {0}) \X AllJobs
           /\ Settlers(x[1]) \in Nat /\ Settlers(x[1]) >= 1
<1> DEFINE tag == x[1]
<1>0. /\ toClient \in Seq(BrokerFrame) /\ completions \in Seq(Completion)
      /\ submitted \in Seq(Publication) /\ pending_ \in Seq(Publication)
      /\ \A t \in retryTimers : t \in RetryTimer
      /\ \A t \in DOMAIN inflight_ : inflight_[t] \in Publication
      /\ DOMAIN inflight_ \subseteq 1..(nextPublishTag_ - 1) /\ nextPublishTag_ - 1 \in Nat
  BY DEF TypeOK, AmqpTypeOK, QueueTypeOK, OutboxTypeOK
<1>1. \A body \in Body : body.job \in AllJobs
  BY DEF Body
<1>a. SUFFICES /\ x \in (Nat \ {0}) \X AllJobs
               /\ \/ HitCount(toClient, Deliveries(tag)) # 0
                  \/ HitCount(completions, Dones(tag)) # 0
                  \/ Cardinality(Timers(tag)) # 0
                  \/ HitCount(submitted, Owners(tag)) # 0
                  \/ HitCount(pending_, Owners(tag)) # 0
                  \/ HitCount(inflight_, Owners(tag)) # 0
  <2>1. PICK d, c, t, s \in Nat :
            /\ d = HitCount(toClient, Deliveries(tag)) /\ c = HitCount(completions, Dones(tag))
            /\ t = Cardinality(Timers(tag)) /\ s = HitCount(submitted, Owners(tag))
    BY SettlerTerms
  <2>2. PICK p, n, b \in Nat :
            /\ p = HitCount(pending_, Owners(tag)) /\ n = HitCount(inflight_, Owners(tag))
            /\ b = HitCount(toBroker, Answers(tag))
    BY SettlerTerms
  <2>3. Settlers(tag) = d + c + t + s + p + n + b
    BY <2>1, <2>2, SettlersSum
  <2>4. d # 0 \/ c # 0 \/ t # 0 \/ s # 0 \/ p # 0 \/ n # 0
    BY <1>a, <2>1, <2>2
  <2>5. Settlers(tag) \in Nat /\ Settlers(tag) >= 1
    BY <2>3, <2>4
  <2> QED BY <1>a, <2>5
<1>2. CASE \E i \in DOMAIN toClient : /\ toClient[i].type = "deliver"
                                      /\ x = <<toClient[i].tag, toClient[i].body.job>>
  <2>1. PICK i \in DOMAIN toClient : /\ toClient[i].type = "deliver"
                                     /\ x = <<toClient[i].tag, toClient[i].body.job>>
    BY <1>2
  <2>2. toClient[i] \in BrokerFrame
    BY <1>0
  <2>3. toClient[i].tag \in Nat \ {0} /\ toClient[i].body \in Body
    BY <2>1, <2>2 DEF BrokerFrame
  <2>4. toClient[i] \in Deliveries(tag)
    BY <2>1, <2>2 DEF Deliveries
  <2>5. HitCount(toClient, Deliveries(tag)) # 0
    BY <1>0, <2>4, HitCountPositive
  <2> QED BY <1>1, <2>1, <2>3, <2>5
<1>3. CASE \E i \in DOMAIN completions : /\ completions[i].gen = generation_
                                         /\ x = <<completions[i].tag, completions[i].body.job>>
  <2>1. PICK i \in DOMAIN completions : /\ completions[i].gen = generation_
                                        /\ x = <<completions[i].tag, completions[i].body.job>>
    BY <1>3
  <2>2. completions[i] \in Completion
    BY <1>0
  <2>3. completions[i].tag \in Nat \ {0} /\ completions[i].body \in Body
    BY <2>2 DEF Completion
  <2>4. completions[i] \in Dones(tag)
    BY <2>1, <2>2 DEF Dones
  <2>5. HitCount(completions, Dones(tag)) # 0
    BY <1>0, <2>4, HitCountPositive
  <2> QED BY <1>1, <2>1, <2>3, <2>5
<1>4. CASE \E t \in retryTimers : t.gen = generation_ /\ x = <<t.tag, t.body.job>>
  <2>1. PICK t \in retryTimers : t.gen = generation_ /\ x = <<t.tag, t.body.job>>
    BY <1>4
  <2>2. t.tag \in Nat \ {0} /\ t.body \in Body
    BY <1>0 DEF RetryTimer
  <2>3. t \in Timers(tag)
    BY <2>1 DEF Timers
  <2>4. IsFiniteSet(Timers(tag))
    BY SettlerTerms
  <2>5. Cardinality(Timers(tag)) # 0
    BY <2>3, <2>4, FS_EmptySet
  <2> QED BY <1>1, <2>1, <2>2, <2>5
<1>b. ASSUME NEW item \in Publication, Bound(item), x = <<item.source.tag, item.body.job>>
      PROVE  x \in (Nat \ {0}) \X AllJobs /\ item \in Owners(tag)
  <2>1. item.source.tag \in Nat \ {0} /\ item \in Owners(item.source.tag)
    BY <1>b, BoundOwns
  <2>2. item.body \in Body
    BY DEF Publication
  <2> QED BY <1>1, <1>b, <2>1, <2>2
<1>5. CASE \E i \in DOMAIN submitted :
              Bound(submitted[i]) /\ x = <<submitted[i].source.tag, submitted[i].body.job>>
  <2>1. PICK i \in DOMAIN submitted :
              Bound(submitted[i]) /\ x = <<submitted[i].source.tag, submitted[i].body.job>>
    BY <1>5
  <2>2. x \in (Nat \ {0}) \X AllJobs /\ submitted[i] \in Owners(tag)
    BY <1>0, <1>b, <2>1
  <2>3. HitCount(submitted, Owners(tag)) # 0
    BY <1>0, <2>2, HitCountPositive
  <2> QED BY <2>2, <2>3
<1>6. CASE \E i \in DOMAIN pending_ :
              Bound(pending_[i]) /\ x = <<pending_[i].source.tag, pending_[i].body.job>>
  <2>1. PICK i \in DOMAIN pending_ :
              Bound(pending_[i]) /\ x = <<pending_[i].source.tag, pending_[i].body.job>>
    BY <1>6
  <2>2. x \in (Nat \ {0}) \X AllJobs /\ pending_[i] \in Owners(tag)
    BY <1>0, <1>b, <2>1
  <2>3. HitCount(pending_, Owners(tag)) # 0
    BY <1>0, <2>2, HitCountPositive
  <2> QED BY <2>2, <2>3
<1>7. CASE \E i \in DOMAIN inflight_ :
              Bound(inflight_[i]) /\ x = <<inflight_[i].source.tag, inflight_[i].body.job>>
  <2>1. PICK i \in DOMAIN inflight_ :
              Bound(inflight_[i]) /\ x = <<inflight_[i].source.tag, inflight_[i].body.job>>
    BY <1>7
  <2>2. x \in (Nat \ {0}) \X AllJobs /\ inflight_[i] \in Owners(tag)
    BY <1>0, <1>b, <2>1
  <2>3. IsFiniteSet(Hits(inflight_, Owners(tag))) /\ i \in Hits(inflight_, Owners(tag))
    BY <1>0, <2>2, InflightHitsFinite DEF Hits
  <2>4. HitCount(inflight_, Owners(tag)) # 0
    BY <2>3, FS_EmptySet DEF HitCount
  <2> QED BY <2>2, <2>4
<1> QED BY <1>2, <1>3, <1>4, <1>5, <1>6, <1>7, HandledItems

\* Nothing to settle, nothing carried.
LEMMA NothingHandled ==
    ASSUME TypeOK, SettlersExact, link = "none" \/ (link = "up" /\ unacked = <<>>)
    PROVE  Handled = {}
<1>1. SUFFICES ASSUME NEW x \in Handled
               PROVE  FALSE
  OBVIOUS
<1>2. IsFiniteSet(retryTimers)
  BY DEF SettlersExact
<1>3. x[1] \in Nat \ {0} /\ Settlers(x[1]) \in Nat /\ Settlers(x[1]) >= 1
  BY <1>2, HandledCounted
<1>4. link = "up" => Waits(x[1]) = 0
  BY DEF Waits, Awaits
<1>5. Settlers(x[1]) <= 0
  BY <1>3, <1>4 DEF SettlersExact
<1> QED BY <1>3, <1>5

LEMMA NothingHandledNext ==
    TypeOK' /\ SettlersExact' /\ (link' = "none" \/ (link' = "up" /\ unacked' = <<>>))
        => Handled' = {}
<1> DEFINE Quiet == link = "none" \/ (link = "up" /\ unacked = <<>>)
           Empty == Handled = {}
<1>1. TypeOK /\ SettlersExact /\ Quiet => Empty
  BY NothingHandled
<1>2. (TypeOK /\ SettlersExact /\ Quiet => Empty)'
  BY <1>1, PTL
<1> QED BY <1>2

\* What a step leaves alone.
LEMMA HandledUnchanged ==
    ASSUME generation_' = generation_
    PROVE  /\ toClient' = toClient => FrameTags' = FrameTags
           /\ completions' = completions => DoneTags' = DoneTags
           /\ retryTimers' = retryTimers => TimerTags' = TimerTags
           /\ submitted' = submitted => SubmittedTags' = SubmittedTags
           /\ pending_' = pending_ => PendingTags' = PendingTags
           /\ inflight_' = inflight_ => InflightTags' = InflightTags
BY DEF FrameTags, DoneTags, TimerTags, SubmittedTags, PendingTags, InflightTags, Bound

\* drainPending moves publications, and adds none.
LEMMA DrainPendingTags ==
    ASSUME TypeOK, NEW ready \in BOOLEAN, NEW waiting \in Seq(Publication),
           NEW frames \in Seq(ClientFrame), NEW flying, DOMAIN flying \subseteq DOMAIN inflight_,
           DrainPending(ready, waiting, flying, frames), generation_' = generation_,
           \A i \in DOMAIN waiting : Bound(waiting[i]) =>
              <<waiting[i].source.tag, waiting[i].body.job>> \in Handled,
           \A t \in DOMAIN flying : flying[t] = inflight_[t]
    PROVE  PendingTags' \subseteq Handled /\ InflightTags' \subseteq Handled
<1>1. DOMAIN flying \subseteq 1..(nextPublishTag_ - 1)
  BY DEF TypeOK, OutboxTypeOK
<1>2. PICK count \in 0..Len(waiting) : SendBatch(waiting, flying, frames, count)
  BY <1>1, DrainPendingSends
<1>3. /\ \A i \in DOMAIN pending_' : \E k \in DOMAIN waiting : pending_'[i] = waiting[k]
      /\ \A t \in DOMAIN inflight_' :
            \/ t \in DOMAIN flying /\ inflight_'[t] = flying[t]
            \/ \E k \in 1..count : /\ t = nextPublishTag_ + k - 1
                                   /\ inflight_'[t] = waiting[k]
  BY <1>1, <1>2, SendBatchItems
<1>4. 1..count \subseteq DOMAIN waiting
  OBVIOUS
<1>5. \A t \in DOMAIN flying : Bound(flying[t]) =>
         <<flying[t].source.tag, flying[t].body.job>> \in Handled
  BY DEF Handled, InflightTags
<1>6. \A item : Bound(item)' <=> Bound(item)
  BY DEF Bound
<1>7. \A i \in DOMAIN pending_' : pending_'[i].source # NoDelivery /\ pending_'[i].source.gen = generation_ =>
         <<pending_'[i].source.tag, pending_'[i].body.job>> \in Handled
  BY <1>3 DEF Bound
<1>8. \A t \in DOMAIN inflight_' : inflight_'[t].source # NoDelivery /\ inflight_'[t].source.gen = generation_ =>
         <<inflight_'[t].source.tag, inflight_'[t].body.job>> \in Handled
  BY <1>3, <1>4, <1>5 DEF Bound
<1>9. PendingTags' \subseteq Handled
  BY <1>7 DEF PendingTags, Bound
<1>10. InflightTags' \subseteq Handled
  BY <1>8 DEF InflightTags, Bound
<1> QED BY <1>9, <1>10

\* A step of the handler passes a delivery on together with its exchange.
LEMMA HandledStep ==
    ASSUME Inv, Publishing \/ RunSubmitted \/ RunCompletion \/ ProducerConfirmSelected
                  \/ Receiving \/ \E timer \in retryTimers : RetryTimerFires(timer)
    PROVE  Handled' \subseteq Handled
<1>0. TypeOK
  BY DEF Inv
<1>a. /\ completions \in Seq(Completion) /\ submitted \in Seq(Publication)
      /\ pending_ \in Seq(Publication) /\ producerReady_ \in BOOLEAN
      /\ toClient \in Seq(BrokerFrame) /\ <<>> \in Seq(ClientFrame)
  BY <1>0, EmptySeq DEF TypeOK, AmqpTypeOK, QueueTypeOK, OutboxTypeOK, ControlTypeOK
<1>b. SUFFICES /\ FrameTags' \subseteq Handled /\ DoneTags' \subseteq Handled
               /\ TimerTags' \subseteq Handled /\ SubmittedTags' \subseteq Handled
               /\ PendingTags' \subseteq Handled /\ InflightTags' \subseteq Handled
  BY <1>b DEF Handled
<1>c. /\ FrameTags \subseteq Handled /\ DoneTags \subseteq Handled
      /\ TimerTags \subseteq Handled /\ SubmittedTags \subseteq Handled
      /\ PendingTags \subseteq Handled /\ InflightTags \subseteq Handled
  BY DEF Handled
<1>d. generation_' = generation_
  BY DEF Publishing, PublishLoad, PublishReserve, PublishEnqueue, RunSubmitted, RunCompletion,
         ProducerConfirmSelected, Receiving, Persisted, PersistFails, ParseFails, Delivered,
         OnAck, OnNackOrReturn, RetryTimerFires
<1>e. ASSUME toClient # <<>>, toClient' = Tail(toClient)
      PROVE  FrameTags' \subseteq FrameTags
  <2>1. \A i \in DOMAIN toClient' : i + 1 \in DOMAIN toClient /\ toClient'[i] = toClient[i + 1]
    BY <1>a, <1>e
  <2> QED BY <2>1 DEF FrameTags
<1>1. CASE Publishing
  <2>1. UNCHANGED <<toClient, completions, retryTimers, pending_, inflight_>>
    BY <1>1 DEF Publishing, PublishLoad, PublishReserve, PublishEnqueue, brokerVars, outboxVars,
                timerVars
  <2>2. SubmittedTags' \subseteq SubmittedTags
    <3>1. CASE submitted' = submitted
      BY <1>d, <3>1, HandledUnchanged
    <3>2. CASE PublishEnqueue
      <4>1. PICK item : /\ item = [queue |-> "main", body |-> FirstBody(publisher.job),
                                   source |-> NoDelivery]
                        /\ submitted' = Append(submitted, item)
        BY <3>2 DEF PublishEnqueue
      <4>2. item.source = NoDelivery
        BY <4>1
      <4>3. \A i \in DOMAIN submitted' :
               (i \in DOMAIN submitted /\ submitted'[i] = submitted[i]) \/ submitted'[i] = item
        BY <1>a, <4>1
      <4> QED BY <1>d, <4>2, <4>3 DEF SubmittedTags, Bound
    <3> QED BY <1>1, <3>1, <3>2 DEF Publishing, PublishLoad, PublishReserve
  <2> QED BY <1>c, <1>d, <2>1, <2>2, HandledUnchanged
<1>2. CASE RunSubmitted
  <2>1. UNCHANGED <<toClient, completions, retryTimers>>
    BY <1>2 DEF RunSubmitted, timerVars
  <2>2. submitted # <<>> /\ submitted' = Tail(submitted)
    BY <1>2 DEF RunSubmitted
  <2>3. \A i \in DOMAIN submitted' : i + 1 \in DOMAIN submitted /\ submitted'[i] = submitted[i + 1]
    BY <1>a, <2>2
  <2>4. SubmittedTags' \subseteq SubmittedTags
    BY <1>d, <2>3 DEF SubmittedTags, Bound
  <2>5. Append(pending_, Head(submitted)) \in Seq(Publication)
    BY <1>a, <2>2
  <2>6. PICK waiting \in Seq(Publication) : waiting = Append(pending_, Head(submitted))
    BY <2>5
  <2>7. \A i \in DOMAIN waiting : \/ i \in DOMAIN pending_ /\ waiting[i] = pending_[i]
                                  \/ waiting[i] = submitted[1]
    BY <1>a, <2>2, <2>6
  <2>8. 1 \in DOMAIN submitted
    BY <1>a, <2>2
  <2>9. \A i \in DOMAIN waiting : Bound(waiting[i]) =>
           <<waiting[i].source.tag, waiting[i].body.job>> \in Handled
    BY <1>c, <2>7, <2>8 DEF PendingTags, SubmittedTags
  <2>10. DrainPending(producerReady_, waiting, inflight_, <<>>)
    BY <1>2, <2>6 DEF RunSubmitted
  <2>11. PendingTags' \subseteq Handled /\ InflightTags' \subseteq Handled
    BY <1>0, <1>a, <1>d, <2>9, <2>10, DrainPendingTags
  <2> QED BY <1>c, <1>d, <2>1, <2>4, <2>11, HandledUnchanged
<1>3. CASE RunCompletion
  <2>1. UNCHANGED <<toClient, submitted, pending_, inflight_>>
    BY <1>3 DEF RunCompletion, outboxVars
  <2>2. completions # <<>> /\ completions' = Tail(completions)
    BY <1>3 DEF RunCompletion
  <2>3. \A i \in DOMAIN completions' :
           i + 1 \in DOMAIN completions /\ completions'[i] = completions[i + 1]
    BY <1>a, <2>2
  <2>4. DoneTags' \subseteq DoneTags
    BY <1>d, <2>3 DEF DoneTags
  <2>5. PICK done \in Completion : done = Head(completions) /\ done = completions[1]
    BY <1>a, <2>2
  <2>6. 1 \in DOMAIN completions
    BY <1>a, <2>2
  <2>7. done.body \in Body
    BY DEF Completion
  <2>8. /\ Replacement(done).gen = done.gen /\ Replacement(done).tag = done.tag
        /\ Replacement(done).body.job = done.body.job
    BY <2>7 DEF Replacement, Replaces, Body
  <2>9. retryTimers' \subseteq retryTimers \cup {Replacement(done)}
    BY <1>3, <2>5 DEF RunCompletion
  <2>10. TimerTags' \subseteq TimerTags \cup DoneTags
    BY <1>d, <2>5, <2>6, <2>8, <2>9 DEF TimerTags, DoneTags
  <2> QED BY <1>c, <1>d, <2>1, <2>4, <2>10, HandledUnchanged
<1>4. ASSUME NEW timer \in retryTimers, RetryTimerFires(timer)
      PROVE  <1>b!1
  <2>1. UNCHANGED <<toClient, completions, pending_, inflight_>>
    BY <1>4 DEF RetryTimerFires, outboxVars
  <2>2. TimerTags' \subseteq TimerTags
    BY <1>4, <1>d DEF RetryTimerFires, TimerTags
  <2>3. PICK item : /\ item = [queue |-> timer.queue, body |-> timer.body,
                               source |-> [gen |-> timer.gen, tag |-> timer.tag]]
                    /\ submitted' \in {submitted, Append(submitted, item)}
    BY <1>4 DEF RetryTimerFires
  <2>4. SubmittedTags' \subseteq SubmittedTags \cup TimerTags
    <3>1. CASE submitted' = submitted
      BY <1>d, <3>1, HandledUnchanged
    <3>2. CASE submitted' = Append(submitted, item)
      <4>1. /\ item.source.gen = timer.gen /\ item.source.tag = timer.tag
            /\ item.body = timer.body
        BY <2>3
      <4>2. \A i \in DOMAIN submitted' :
               (i \in DOMAIN submitted /\ submitted'[i] = submitted[i]) \/ submitted'[i] = item
        BY <1>a, <3>2
      <4>3. Bound(item) => <<item.source.tag, item.body.job>> \in TimerTags
        BY <4>1 DEF TimerTags, Bound
      <4> QED BY <1>d, <4>2, <4>3 DEF SubmittedTags, Bound
    <3> QED BY <2>3, <3>1, <3>2
  <2> QED BY <1>c, <1>d, <2>1, <2>2, <2>4, HandledUnchanged
<1>5. CASE ProducerConfirmSelected
  <2>1. UNCHANGED <<toClient, completions, retryTimers, submitted>>
    BY <1>5 DEF ProducerConfirmSelected, timerVars, queueVars
  <2>2. PICK ready \in BOOLEAN : DrainPending(ready, pending_, inflight_, <<>>)
    BY <1>5, Zenon DEF ProducerConfirmSelected
  <2>3. \A i \in DOMAIN pending_ : Bound(pending_[i]) =>
           <<pending_[i].source.tag, pending_[i].body.job>> \in Handled
    BY <1>c DEF PendingTags
  <2>4. PendingTags' \subseteq Handled /\ InflightTags' \subseteq Handled
    BY <1>0, <1>a, <1>d, <2>2, <2>3, DrainPendingTags
  <2> QED BY <1>c, <1>d, <2>1, <2>4, HandledUnchanged
<1>6. CASE Persisted \/ PersistFails \/ ParseFails
  <2>1. PICK stored \in BOOLEAN, result \in Disposition : Delivered(stored, result)
    BY <1>6 DEF Persisted, PersistFails, ParseFails, Disposition
  <2>2. UNCHANGED <<retryTimers, submitted, pending_, inflight_>>
    BY <2>1 DEF Delivered, timerVars, outboxVars
  <2>3. toClient # <<>> /\ Head(toClient).type = "deliver" /\ toClient' = Tail(toClient)
    BY <1>6, <2>1 DEF Persisted, PersistFails, ParseFails, Receives, Delivered
  <2>4. 1 \in DOMAIN toClient /\ Head(toClient) = toClient[1]
    BY <1>a, <2>3
  <2>5. PICK done : /\ done = [gen |-> generation_, tag |-> toClient[1].tag,
                               result |-> result, body |-> toClient[1].body]
                    /\ completions' = Append(completions, done)
    BY <2>1, <2>4 DEF Delivered
  <2>6. \A i \in DOMAIN completions' :
           (i \in DOMAIN completions /\ completions'[i] = completions[i]) \/ completions'[i] = done
    BY <1>a, <2>5
  <2>7. <<done.tag, done.body.job>> \in FrameTags
    BY <2>3, <2>4, <2>5 DEF FrameTags
  <2>8. DoneTags' \subseteq DoneTags \cup FrameTags
    BY <1>d, <2>6, <2>7 DEF DoneTags
  <2> QED BY <1>c, <1>d, <1>e, <2>2, <2>3, <2>8, HandledUnchanged
<1>7. CASE OnAck \/ OnNackOrReturn
  <2>1. UNCHANGED <<completions, retryTimers, submitted>>
    BY <1>7 DEF OnAck, OnNackOrReturn, timerVars, queueVars
  <2>2. toClient # <<>> /\ toClient' = Tail(toClient)
    BY <1>7 DEF OnAck, OnNackOrReturn, Receives
  <2>3. CASE UNCHANGED outboxVars
    BY <1>c, <1>d, <1>e, <2>1, <2>2, <2>3, HandledUnchanged DEF outboxVars
  <2>4. CASE Confirm(Head(toClient))
    <3>1. PICK tags : tags = Confirmable(Head(toClient))
      OBVIOUS
    <3>2. PICK rest : rest = [t \in DOMAIN inflight_ \ tags |-> inflight_[t]]
      OBVIOUS
    <3>3. tags \subseteq DOMAIN inflight_ /\ DOMAIN rest \subseteq DOMAIN inflight_
      BY <3>1, <3>2 DEF Confirmable
    <3>a. CompletionAcks(tags) \in Seq(ClientFrame)
      BY <1>0, <3>3, CompletionAcksAreFrames DEF TypeOK
    <3>4. PICK acks \in Seq(ClientFrame) : acks = CompletionAcks(tags)
      BY <3>a
    <3>5. DrainPending(producerReady_, pending_, rest, acks)
      BY <2>4, <3>1, <3>2, <3>4 DEF Confirm
    <3>6. \A i \in DOMAIN pending_ : Bound(pending_[i]) =>
             <<pending_[i].source.tag, pending_[i].body.job>> \in Handled
      BY <1>c DEF PendingTags
    <3>7. \A t \in DOMAIN rest : rest[t] = inflight_[t]
      BY <3>2
    <3>8. PendingTags' \subseteq Handled /\ InflightTags' \subseteq Handled
      BY <1>0, <1>a, <1>d, <3>3, <3>5, <3>6, <3>7, DrainPendingTags
    <3> QED BY <1>c, <1>d, <1>e, <2>1, <2>2, <3>8, HandledUnchanged
  <2> QED BY <1>7, <2>3, <2>4 DEF OnAck, OnNackOrReturn
<1> QED BY <1>1, <1>2, <1>3, <1>4, <1>5, <1>6, <1>7 DEF Receiving

\* Every step keeps the exchanges with their deliveries.
LEMMA CarriesStep ==
    ASSUME Inv, Inv', LinkShape, LinkShape', SettlersExact, SettlersExact', Carries, [Next]_vars
    PROVE  Carries'
<1>0. TypeOK /\ TypeOK'
  BY DEF Inv
<1>a. /\ unacked \in Seq(Delivery) /\ mainQueue \in Seq(Body) /\ toClient \in Seq(BrokerFrame)
      /\ deliveries \in Nat /\ received \in Nat
  BY <1>0 DEF TypeOK, AmqpTypeOK
<1>1. CASE link' = "none" \/ (link' = "up" /\ unacked' = <<>>)
  BY <1>0, <1>1, NothingHandledNext DEF Carries
<1>b. ASSUME UNCHANGED <<link, unacked>>, Handled' \subseteq Handled,
             \A k \in DOMAIN mainQueue : \E i \in DOMAIN mainQueue' : mainQueue'[i] = mainQueue[k]
      PROVE  Carries'
  <2>1. SUFFICES ASSUME NEW x \in Handled
                 PROVE  x \in Expected'
    BY <1>b DEF Carries
  <2>2. x \in Expected
    BY DEF Carries
  <2>3. /\ x \in (Nat \ {0}) \X AllJobs
        /\ link' = "up" => Awaits(x[1])' /\ unacked'[1].body.job = x[2]
    BY <1>b, <2>2 DEF Expected, Awaits
  <2>4. link' = "broken" => \E i \in DOMAIN mainQueue' : mainQueue'[i].job = x[2]
    BY <1>b, <2>2 DEF Expected
  <2> QED BY <2>3, <2>4 DEF Expected
<1>2. CASE Publishing \/ RunSubmitted \/ RunCompletion \/ ProducerConfirmSelected \/ Receiving
             \/ \E timer \in retryTimers : RetryTimerFires(timer)
  <2>1. UNCHANGED <<link, unacked, mainQueue>>
    BY <1>2 DEF Publishing, PublishLoad, PublishReserve, PublishEnqueue, RunSubmitted,
                RunCompletion, ProducerConfirmSelected, Receiving, Persisted, PersistFails,
                ParseFails, Delivered, OnAck, OnNackOrReturn, RetryTimerFires, brokerVars, storeVars
  <2> QED BY <1>2, <1>b, <2>1, HandledStep
<1>3. CASE Brokering
  <2>1. UNCHANGED <<completions, retryTimers, submitted, pending_, inflight_, generation_>>
    BY <1>3 DEF Brokering, handlerVars, timerVars, queueVars, outboxVars
  <2>2. FrameTags' \subseteq FrameTags => Handled' \subseteq Handled
    BY <2>1, HandledUnchanged DEF Handled
  <2>a. ASSUME NEW frame, toClient' = Append(toClient, frame), NEW i \in DOMAIN toClient'
        PROVE  (i \in DOMAIN toClient /\ toClient'[i] = toClient[i]) \/ toClient'[i] = frame
    BY <1>a, <2>a
  <2>3. ASSUME NEW frame, frame.type # "deliver", toClient' = Append(toClient, frame)
        PROVE  FrameTags' \subseteq FrameTags
    BY <2>3, <2>a DEF FrameTags
  <2>4. CASE LinkBreaks
    <3>1. /\ link = "up" /\ link' = "broken" /\ toClient' = toClient /\ mainQueue' = Requeued
      BY <2>4 DEF LinkBreaks, CloseLink
    <3>2. Handled' \subseteq Handled
      BY <2>1, <2>2, <3>1, HandledUnchanged
    <3>3. ASSUME NEW x \in Handled
          PROVE  x \in Expected'
      <4>1. x \in Expected
        BY DEF Carries
      <4>2. x \in (Nat \ {0}) \X AllJobs /\ unacked # <<>> /\ unacked[1].body.job = x[2]
        BY <3>1, <4>1 DEF Expected, Awaits
      <4>3. 1 \in DOMAIN unacked
        BY <1>a, <4>2
      <4>4. \E i \in DOMAIN mainQueue' : mainQueue'[i] = unacked[1].body
        BY <1>0, <3>1, <4>3, RequeuedItems
      <4> QED BY <3>1, <4>2, <4>4 DEF Expected
    <3> QED BY <3>2, <3>3 DEF Carries
  <2>5. CASE BrokerStores
    <3>1. UNCHANGED <<link, unacked, toClient>>
      BY <2>5 DEF BrokerStores
    <3>2. mainQueue' = mainQueue \/ \E body : mainQueue' = Append(mainQueue, body)
      BY <2>5 DEF BrokerStores
    <3>3. \A k \in DOMAIN mainQueue : k \in DOMAIN mainQueue' /\ mainQueue'[k] = mainQueue[k]
      BY <1>a, <3>2
    <3> QED BY <1>b, <2>1, <2>2, <3>1, <3>3, HandledUnchanged
  <2>6. CASE BrokerNacks
    <3>1. PICK frame : frame = [type |-> "nack", tag |-> received + 1]
      OBVIOUS
    <3>2. UNCHANGED <<link, unacked, mainQueue>> /\ toClient' = Append(toClient, frame)
      BY <2>6, <3>1 DEF BrokerNacks
    <3>3. frame.type # "deliver"
      BY <3>1
    <3> QED BY <1>b, <2>2, <2>3, <3>2, <3>3
  <2>7. CASE BrokerReturns
    <3>1. PICK back, frame : /\ back = [type |-> "return"]
                             /\ frame = [type |-> "confirm", tag |-> received + 1, multiple |-> FALSE]
      OBVIOUS
    <3>2. UNCHANGED <<link, unacked, mainQueue>> /\ toClient' = toClient \o <<back, frame>>
      BY <2>7, <3>1 DEF BrokerReturns
    <3>a. back \in BrokerFrame /\ frame \in BrokerFrame
      BY <1>a, <3>1 DEF BrokerFrame
    <3>b. toClient' = Append(Append(toClient, back), frame)
      BY <1>a, <3>2, <3>a
    <3>3. \A i \in DOMAIN toClient' : (i \in DOMAIN toClient /\ toClient'[i] = toClient[i])
                                        \/ toClient'[i] = back \/ toClient'[i] = frame
      BY <1>a, <3>a, <3>b
    <3>4. back.type # "deliver" /\ frame.type # "deliver"
      BY <3>1
    <3>5. FrameTags' \subseteq FrameTags
      BY <3>3, <3>4 DEF FrameTags
    <3> QED BY <1>b, <2>2, <3>2, <3>5
  <2>8. CASE BrokerConfirmsSome
    <3>1. PICK tag0 \in unconfirmed, multiple \in BOOLEAN : BrokerConfirms(tag0, multiple)
      BY <2>8 DEF BrokerConfirmsSome
    <3>2. PICK frame : frame = [type |-> "confirm", tag |-> tag0, multiple |-> multiple]
      OBVIOUS
    <3>3. UNCHANGED <<link, unacked, mainQueue>> /\ toClient' = Append(toClient, frame)
      BY <3>1, <3>2 DEF BrokerConfirms
    <3>4. frame.type # "deliver"
      BY <3>2
    <3> QED BY <1>b, <2>2, <2>3, <3>3, <3>4
  <2>9. CASE BrokerAcked \/ BrokerRejected
    <3>1. /\ link = "up" /\ link' = "up" /\ toClient' = toClient
          /\ unacked' = <<>> \/ unacked' = unacked
          /\ unacked' # <<>> => mainQueue' = mainQueue
      BY <2>9 DEF BrokerAcked, BrokerRejected
    <3>2. CASE unacked' = <<>>
      BY <1>1, <3>1, <3>2
    <3>3. CASE unacked' # <<>>
      BY <1>b, <2>1, <2>2, <3>1, <3>3, HandledUnchanged
    <3> QED BY <3>2, <3>3
  <2>10. CASE BrokerDelivers
    <3>1. PICK frame : frame = [type |-> "deliver", tag |-> deliveries + 1, body |-> Head(mainQueue)]
      OBVIOUS
    <3>2. /\ link = "up" /\ unacked = <<>> /\ mainQueue # <<>> /\ link' = "up"
          /\ toClient' = Append(toClient, frame)
          /\ unacked' = <<[tag |-> deliveries + 1, body |-> Head(mainQueue)]>>
      BY <2>10, <3>1 DEF BrokerDelivers
    <3>3. Handled = {}
      BY <1>0, <3>2, NothingHandled
    <3>4. Head(mainQueue) \in Body /\ deliveries + 1 \in Nat \ {0}
      BY <1>a, <3>2
    <3>5. FrameTags' \subseteq FrameTags \cup {<<deliveries + 1, Head(mainQueue).job>>}
      BY <2>a, <3>1, <3>2 DEF FrameTags
    <3>6. Handled' \subseteq Handled \cup {<<deliveries + 1, Head(mainQueue).job>>}
      BY <2>1, <3>5, HandledUnchanged DEF Handled
    <3>7. PICK x : x = <<deliveries + 1, Head(mainQueue).job>>
      OBVIOUS
    <3>8. x \in (Nat \ {0}) \X AllJobs /\ x[1] = deliveries + 1 /\ x[2] = Head(mainQueue).job
      BY <3>4, <3>7 DEF Body
    <3>9. /\ unacked' # <<>> /\ unacked'[1].tag = deliveries + 1
          /\ unacked'[1].body = Head(mainQueue)
      BY <3>2
    <3>10. x \in Expected'
      BY <3>2, <3>8, <3>9 DEF Expected, Awaits
    <3> QED BY <3>3, <3>6, <3>7, <3>10 DEF Carries
  <2>11. CASE DeadQueueDeleted
    <3>1. UNCHANGED <<link, unacked, mainQueue, toClient>>
      BY <2>11 DEF DeadQueueDeleted
    <3> QED BY <1>b, <2>1, <2>2, <3>1, HandledUnchanged
  <2> QED BY <1>3, <2>4, <2>5, <2>6, <2>7, <2>8, <2>9, <2>10, <2>11 DEF Brokering
<1>4. CASE RunRecover \/ Shutdown \/ Crash
  <2>1. link' = "none"
    BY <1>4 DEF RunRecover, Shutdown, Crash, NoHandler, CloseLink
  <2> QED BY <1>1, <2>1
<1>5. CASE OnConnected
  <2>1. link' = "up" /\ link = "none" /\ unacked' = unacked
    BY <1>5 DEF OnConnected, OpenLink, LinkShape
  <2>2. unacked' = <<>>
    BY <2>1 DEF LinkShape
  <2> QED BY <1>1, <2>1, <2>2
<1>6. CASE ReconnectTimerFires \/ Start
  <2>1. link' = "none"
    BY <1>6 DEF ReconnectTimerFires, Start, brokerVars, storeVars, LinkShape
  <2> QED BY <1>1, <2>1
<1>7. CASE OnError \/ OnLost \/ ProducerMainDeclared \/ ProducerDeadDeclared \/ ConsumerStarted
             \/ UNCHANGED vars
  <2>1. UNCHANGED <<link, unacked, mainQueue, toClient, completions, retryTimers, submitted,
                    pending_, inflight_, generation_>>
    BY <1>7 DEF OnError, OnLost, ProducerMainDeclared, ProducerDeadDeclared,
                DeclareOnProducer, ConsumerStarted, vars, handlerVars, brokerVars, storeVars,
                timerVars, queueVars, outboxVars
  <2>2. Handled' = Handled
    BY <2>1, HandledUnchanged DEF Handled
  <2> QED BY <1>b, <2>1, <2>2
<1> QED BY <1>2, <1>3, <1>4, <1>5, <1>6, <1>7 DEF Next, Looping, Connecting

-----------------------------------------------------------------------------
(* The broker numbers publications the way nextPublishTag_ does *)

\* num[i] is the number of the last publish among the publishes the broker has received
\* and the first i frames on the wire: each of these is the publication of that tag.
Numbering(num) ==
    /\ num \in [0..Len(toBroker) -> Nat]
    /\ num[0] = received
    /\ nextPublishTag_ = num[Len(toBroker)] + 1
    /\ \A i, j \in 0..Len(toBroker) : i <= j => num[i] <= num[j]
    /\ \A i \in 1..Len(toBroker) :
          IF toBroker[i].type = "publish"
          THEN /\ num[i] = num[i - 1] + 1
               /\ num[i] \in DOMAIN inflight_
               /\ inflight_[num[i]].queue = toBroker[i].queue
               /\ inflight_[num[i]].body = toBroker[i].body
          ELSE num[i] = num[i - 1]

\* The wire can be numbered, and no confirm is ahead of what the broker has received.
Numbered ==
    /\ link = "up" => unconfirmed \subseteq 1..received /\ \E num : Numbering(num)
    /\ \A i \in DOMAIN toClient : toClient[i].type = "confirm" =>
          /\ toClient[i].tag < nextPublishTag_
          /\ link = "up" => toClient[i].tag <= received

\* The broker takes a frame.
LEMMA NumberingTail ==
    ASSUME TypeOK, NEW num, Numbering(num), toBroker # <<>>, toBroker' = Tail(toBroker),
           UNCHANGED <<nextPublishTag_, inflight_>>, received' = num[1]
    PROVE  \E num2 : Numbering(num2)'
<1>1. /\ toBroker \in Seq(ClientFrame) /\ Len(toBroker) \in Nat \ {0}
      /\ Len(toBroker') = Len(toBroker) - 1
      /\ \A i \in 1..(Len(toBroker) - 1) : toBroker'[i] = toBroker[i + 1]
  BY DEF TypeOK, AmqpTypeOK
<1>a. Len(toBroker) - 1 \in Nat
  BY <1>1
<1>2. PICK size \in Nat : size = Len(toBroker) - 1
  BY <1>a
<1>3. PICK num2 : num2 = [i \in 0..size |-> num[i + 1]]
  OBVIOUS
<1>4. /\ num \in [0..(size + 1) -> Nat]
      /\ nextPublishTag_ = num[size + 1] + 1
      /\ \A i, j \in 0..(size + 1) : i <= j => num[i] <= num[j]
  BY <1>1, <1>2 DEF Numbering
<1>5. num2 \in [0..size -> Nat]
  BY <1>3, <1>4
<1>6. \A i, j \in 0..size : i <= j => num2[i] <= num2[j]
  BY <1>3, <1>4
<1>7. num2[0] = num[1] /\ num2[size] = num[size + 1]
  BY <1>3
<1>8. ASSUME NEW i \in 1..size
      PROVE  IF toBroker'[i].type = "publish"
             THEN /\ num2[i] = num2[i - 1] + 1
                  /\ num2[i] \in DOMAIN inflight_
                  /\ inflight_[num2[i]].queue = toBroker'[i].queue
                  /\ inflight_[num2[i]].body = toBroker'[i].body
             ELSE num2[i] = num2[i - 1]
  <2>1. i + 1 \in 1..Len(toBroker) /\ toBroker'[i] = toBroker[i + 1]
    BY <1>1, <1>2
  <2>2. num2[i] = num[i + 1] /\ num2[i - 1] = num[(i + 1) - 1]
    BY <1>3
  <2> QED BY <2>1, <2>2 DEF Numbering
<1>9. Len(toBroker') = size
  BY <1>1, <1>2
<1>10. Numbering(num2)'
  BY <1>4, <1>5, <1>6, <1>7, <1>8, <1>9 DEF Numbering
<1> QED BY <1>10

\* Numbers go on: L frames, F more that are not numbered, and then K that are.
GoesOn(num, num2, L, F, K) ==
    /\ \A i, j \in 0..(L + F + K) : i <= j => num2[i] <= num2[j]
    /\ \A i \in 0..L : num2[i] = num[i]
    /\ \A k \in 0..F : num2[k + L] = num[L]
    /\ \A k \in 0..K : num2[k + F + L] = num[L] + k

LEMMA NumbersExtended ==
    ASSUME NEW L \in Nat, NEW F \in Nat, NEW K \in Nat, NEW num \in [0..L -> Nat],
           \A i, j \in 0..L : i <= j => num[i] <= num[j]
    PROVE  \E num2 \in [0..(L + F + K) -> Nat] : GoesOn(num, num2, L, F, K)
<1>1. PICK top \in Nat : top = num[L]
  OBVIOUS
<1>2. PICK num2 : num2 = [i \in 0..(L + F + K) |->
                             IF i <= L THEN num[i] ELSE IF i <= L + F THEN top ELSE top + (i - (L + F))]
  OBVIOUS
<1>3. \A i \in 0..(L + F + K) :
         num2[i] = IF i <= L THEN num[i] ELSE IF i <= L + F THEN top ELSE top + (i - (L + F))
  BY <1>2
<1>4. \A i \in 0..L : num[i] \in Nat /\ num[i] <= top
  BY <1>1
<1>5. \A i \in 0..(L + F + K) : num2[i] \in Nat
  BY <1>3, <1>4
<1>6. num2 \in [0..(L + F + K) -> Nat]
  BY <1>2, <1>5
<1>7. ASSUME NEW i \in 0..(L + F + K), NEW j \in 0..(L + F + K), i <= j
      PROVE  num2[i] <= num2[j]
  BY <1>3, <1>4, <1>7
<1>8. \A i \in 0..L : num2[i] = num[i]
  BY <1>3
<1>9. ASSUME NEW k \in 0..F
      PROVE  num2[k + L] = top
  <2>1. k + L \in 0..(L + F + K)
    OBVIOUS
  <2>2. CASE k = 0
    BY <1>1, <1>8, <2>2
  <2>3. CASE k # 0
    BY <1>3, <2>1, <2>3
  <2> QED BY <2>2, <2>3
<1>10. ASSUME NEW k \in 0..K
       PROVE  num2[k + F + L] = top + k
  <2>1. k + F + L \in 0..(L + F + K)
    OBVIOUS
  <2>2. CASE k = 0
    BY <1>9, <2>2
  <2>3. CASE k # 0
    BY <1>3, <2>1, <2>3
  <2> QED BY <2>2, <2>3
<1> QED BY <1>1, <1>6, <1>7, <1>8, <1>9, <1>10 DEF GoesOn

\* The handler writes some acknowledgements and then some publishes: of the publications
\* in inflight_, those on the wire keep their tags, and the new ones get the next.
Writes(num, frames, sends) ==
    /\ \A k \in DOMAIN frames : frames[k].type # "publish"
    /\ \A k \in DOMAIN sends : sends[k].type = "publish"
    /\ toBroker' = toBroker \o (frames \o sends)
    /\ received' = received
    /\ nextPublishTag_' = nextPublishTag_ + Len(sends)
    /\ \A i \in 1..Len(toBroker) : toBroker[i].type = "publish" =>
          num[i] \in DOMAIN inflight_' /\ inflight_'[num[i]] = inflight_[num[i]]
    /\ \A k \in 1..Len(sends) :
          /\ nextPublishTag_ + k - 1 \in DOMAIN inflight_'
          /\ inflight_'[nextPublishTag_ + k - 1].queue = sends[k].queue
          /\ inflight_'[nextPublishTag_ + k - 1].body = sends[k].body

LEMMA NumberingGrows ==
    ASSUME TypeOK, NEW num, Numbering(num), NEW frames \in Seq(ClientFrame),
           NEW sends \in Seq(ClientFrame), Writes(num, frames, sends)
    PROVE  \E num2 : Numbering(num2)'
<1>0. toBroker \in Seq(ClientFrame) /\ nextPublishTag_ \in Nat
  BY DEF TypeOK, AmqpTypeOK, OutboxTypeOK
<1>1. PICK L, F, K \in Nat : L = Len(toBroker) /\ F = Len(frames) /\ K = Len(sends)
  BY <1>0
<1>2. PICK more \in Seq(ClientFrame) : more = frames \o sends
  BY ConcatEntries
<1>3. /\ Len(more) = F + K
      /\ \A k \in 1..F : more[k] = frames[k]
      /\ \A k \in 1..K : more[k + F] = sends[k]
  BY <1>1, <1>2, ConcatEntries
<1>4. /\ Len(toBroker') = L + F + K
      /\ \A i \in 1..L : toBroker'[i] = toBroker[i]
      /\ \A k \in 1..F : toBroker'[k + L] = frames[k]
      /\ \A k \in 1..K : toBroker'[k + F + L] = sends[k]
  <2>1. PICK wire : wire = toBroker'
    OBVIOUS
  <2>2. wire = toBroker \o more
    BY <1>2, <2>1 DEF Writes
  <2>3. /\ Len(wire) = Len(toBroker) + Len(more)
        /\ \A i \in 1..Len(toBroker) : wire[i] = toBroker[i]
        /\ \A k \in 1..Len(more) : wire[k + Len(toBroker)] = more[k]
    BY <1>0, <2>2, ConcatEntries
  <2>4. Len(wire) = L + F + K
    BY <1>1, <1>3, <2>3
  <2>5. \A i \in 1..L : wire[i] = toBroker[i]
    BY <1>1, <2>3
  <2>6. \A k \in 1..(F + K) : wire[k + L] = more[k]
    BY <1>1, <1>3, <2>3
  <2>7. \A k \in 1..F : wire[k + L] = frames[k]
    <3>1. SUFFICES ASSUME NEW k \in 1..F
                   PROVE  wire[k + L] = frames[k]
      OBVIOUS
    <3>2. k \in 1..(F + K)
      OBVIOUS
    <3> QED BY <1>3, <2>6, <3>2
  <2>8. \A k \in 1..K : wire[k + F + L] = sends[k]
    <3>1. SUFFICES ASSUME NEW k \in 1..K
                   PROVE  wire[k + F + L] = sends[k]
      OBVIOUS
    <3>2. k + F \in 1..(F + K)
      OBVIOUS
    <3>3. wire[(k + F) + L] = more[k + F]
      BY <2>6, <3>2
    <3> QED BY <1>3, <3>3
  <2> QED BY <2>1, <2>4, <2>5, <2>7, <2>8
<1>5. PICK top \in Nat : top = num[L] /\ nextPublishTag_ = top + 1
  BY <1>1 DEF Numbering
<1>6. /\ num \in [0..L -> Nat] /\ num[0] = received
      /\ \A i, j \in 0..L : i <= j => num[i] <= num[j]
  BY <1>1 DEF Numbering
<1>7. PICK num2 \in [0..(L + F + K) -> Nat] :
         /\ \A i, j \in 0..(L + F + K) : i <= j => num2[i] <= num2[j]
         /\ \A i \in 0..L : num2[i] = num[i]
         /\ \A k \in 0..F : num2[k + L] = top
         /\ \A k \in 0..K : num2[k + F + L] = top + k
  <2>1. \E num2 \in [0..(L + F + K) -> Nat] : GoesOn(num, num2, L, F, K)
    BY <1>6, NumbersExtended, Zenon
  <2> QED BY <1>5, <2>1 DEF GoesOn
<1>8. num2[0] = received /\ num2[L + F + K] = top + K
  <2>1. num2[K + F + L] = top + K /\ K + F + L = L + F + K
    BY <1>7
  <2> QED BY <1>6, <1>7, <2>1
<1>9. ASSUME NEW i \in 1..(L + F + K)
      PROVE  IF toBroker'[i].type = "publish"
              THEN /\ num2[i] = num2[i - 1] + 1
                   /\ num2[i] \in DOMAIN inflight_'
                   /\ inflight_'[num2[i]].queue = toBroker'[i].queue
                   /\ inflight_'[num2[i]].body = toBroker'[i].body
              ELSE num2[i] = num2[i - 1]
  <2>1. CASE i \in 1..L
    <3>1. i - 1 \in 0..L /\ i \in 0..L
      BY <2>1
    <3>2. i \in 1..Len(toBroker) /\ toBroker'[i] = toBroker[i]
      BY <1>1, <1>4, <2>1
    <3>3. num2[i] = num[i] /\ num2[i - 1] = num[i - 1]
      BY <1>7, <3>1
    <3>4. IF toBroker[i].type = "publish"
          THEN /\ num[i] = num[i - 1] + 1
               /\ inflight_[num[i]].queue = toBroker[i].queue
               /\ inflight_[num[i]].body = toBroker[i].body
          ELSE num[i] = num[i - 1]
      BY <3>2 DEF Numbering
    <3>5. toBroker[i].type = "publish" =>
             num[i] \in DOMAIN inflight_' /\ inflight_'[num[i]] = inflight_[num[i]]
      BY <3>2 DEF Writes
    <3> QED BY <3>2, <3>3, <3>4, <3>5
  <2>2. ASSUME NEW k \in 1..F, i = k + L
        PROVE  toBroker'[i].type # "publish" /\ num2[i] = num2[i - 1]
    <3>1. k - 1 \in 0..F /\ k \in 0..F /\ i - 1 = (k - 1) + L
      BY <2>2
    <3>2. toBroker'[i] = frames[k] /\ k \in DOMAIN frames
      BY <1>1, <1>4, <2>2
    <3>3. num2[i] = top /\ num2[i - 1] = top
      BY <1>7, <2>2, <3>1
    <3> QED BY <3>2, <3>3 DEF Writes
  <2>3. ASSUME NEW k \in 1..K, i = k + F + L
        PROVE  /\ toBroker'[i].type = "publish" /\ num2[i] = num2[i - 1] + 1
               /\ num2[i] \in DOMAIN inflight_'
               /\ inflight_'[num2[i]].queue = toBroker'[i].queue
               /\ inflight_'[num2[i]].body = toBroker'[i].body
    <3>1. k - 1 \in 0..K /\ k \in 0..K /\ i - 1 = (k - 1) + F + L
      BY <2>3
    <3>2. toBroker'[i] = sends[k] /\ k \in 1..Len(sends) /\ k \in DOMAIN sends
      BY <1>1, <1>4, <2>3
    <3>3. num2[i] = top + k /\ num2[i - 1] = top + (k - 1)
      BY <1>7, <2>3, <3>1
    <3>a. k \in Nat /\ k - 1 \in Nat /\ (k - 1) + 1 = k
      OBVIOUS
    <3>b. top + k = (top + 1) + k - 1 /\ top + k = (top + (k - 1)) + 1
      BY <3>a
    <3>4. num2[i] = nextPublishTag_ + k - 1 /\ num2[i] = num2[i - 1] + 1
      BY <1>5, <3>3, <3>b
    <3>5. /\ nextPublishTag_ + k - 1 \in DOMAIN inflight_' /\ sends[k].type = "publish"
          /\ inflight_'[nextPublishTag_ + k - 1].queue = sends[k].queue
          /\ inflight_'[nextPublishTag_ + k - 1].body = sends[k].body
      BY <3>2 DEF Writes
    <3> QED BY <3>2, <3>4, <3>5
  <2>4. i \in 1..L \/ (\E k \in 1..F : i = k + L) \/ (\E k \in 1..K : i = k + F + L)
    <3>1. CASE i > L /\ i <= L + F
      <4>1. i - L \in 1..F /\ i = (i - L) + L
        BY <3>1
      <4> QED BY <4>1
    <3>2. CASE i > L + F
      <4>1. i - (L + F) \in 1..K /\ i = (i - (L + F)) + F + L
        BY <3>2
      <4> QED BY <4>1
    <3> QED BY <3>1, <3>2
  <2> QED BY <2>1, <2>2, <2>3, <2>4
<1>10. nextPublishTag_' = num2[L + F + K] + 1 /\ received' = received
  BY <1>1, <1>5, <1>8 DEF Writes
<1>11. Numbering(num2)'
  BY <1>4, <1>7, <1>8, <1>9, <1>10 DEF Numbering
<1> QED BY <1>11

\* drainPending gives out the numbers the broker will count.
LEMMA NumberedDrain ==
    ASSUME TypeOK, Numbered, NEW ready \in BOOLEAN, NEW waiting \in Seq(Publication),
           NEW frames \in Seq(ClientFrame), \A k \in DOMAIN frames : frames[k].type # "publish",
           NEW flying, DOMAIN flying \subseteq DOMAIN inflight_,
           \A t \in DOMAIN flying : flying[t] = inflight_[t],
           link = "up" => \A t \in DOMAIN inflight_ : t > received => t \in DOMAIN flying,
           DrainPending(ready, waiting, flying, frames), UNCHANGED <<link, received, unconfirmed>>,
           toClient' = toClient \/ (toClient # <<>> /\ toClient' = Tail(toClient))
    PROVE  Numbered'
<1>0. /\ toClient \in Seq(BrokerFrame) /\ toBroker \in Seq(ClientFrame)
      /\ nextPublishTag_ \in Nat \ {0} /\ received \in Nat
      /\ DOMAIN inflight_ \subseteq 1..(nextPublishTag_ - 1)
  BY DEF TypeOK, AmqpTypeOK, OutboxTypeOK
<1>1. DOMAIN flying \subseteq 1..(nextPublishTag_ - 1)
  BY <1>0
<1>2. PICK count \in 0..Len(waiting) : SendBatch(waiting, flying, frames, count)
  BY <1>1, DrainPendingSends
<1>3. count \in Nat /\ Len(waiting) \in Nat /\ nextPublishTag_' = nextPublishTag_ + count
  BY <1>2 DEF SendBatch
<1>7. /\ \A i \in DOMAIN pending_' : \E k \in DOMAIN waiting : pending_'[i] = waiting[k]
      /\ \A t \in DOMAIN inflight_' :
            \/ t \in DOMAIN flying /\ inflight_'[t] = flying[t]
            \/ \E k \in 1..count : /\ t = nextPublishTag_ + k - 1
                                   /\ inflight_'[t] = waiting[k]
      /\ \A t \in DOMAIN flying : t \in DOMAIN inflight_' /\ inflight_'[t] = flying[t]
  BY <1>1, <1>2, SendBatchItems
<1>4. \A i \in DOMAIN toClient' : \E k \in DOMAIN toClient : toClient'[i] = toClient[k]
  <2>1. CASE toClient' = toClient
    BY <2>1
  <2>2. CASE toClient # <<>> /\ toClient' = Tail(toClient)
    <3>1. \A i \in DOMAIN toClient' : i + 1 \in DOMAIN toClient /\ toClient'[i] = toClient[i + 1]
      BY <1>0, <2>2
    <3> QED BY <3>1
  <2> QED BY <2>1, <2>2
<1>5. \A i \in DOMAIN toClient' : toClient'[i].type = "confirm" =>
         /\ toClient'[i].tag < nextPublishTag_'
         /\ link' = "up" => toClient'[i].tag <= received'
  <2>1. \A k \in DOMAIN toClient : toClient[k] \in BrokerFrame
    BY <1>0
  <2>2. \A k \in DOMAIN toClient : toClient[k].type = "confirm" => toClient[k].tag \in Nat
    BY <2>1 DEF BrokerFrame
  <2>3. \A k \in DOMAIN toClient : toClient[k].type = "confirm" =>
          /\ toClient[k].tag < nextPublishTag_
          /\ link = "up" => toClient[k].tag <= received
    BY DEF Numbered
  <2>4. \A k \in DOMAIN toClient : toClient[k].type = "confirm" =>
           toClient[k].tag < nextPublishTag_'
    BY <1>0, <1>3, <2>2, <2>3
  <2> QED BY <1>4, <2>3, <2>4
<1>6. ASSUME link = "up"
      PROVE  \E num : Numbering(num)'
  <2>1. PICK num : Numbering(num)
    BY <1>6 DEF Numbered
  <2> DEFINE all == [i \in 1..count |-> PublishFrame(waiting[i].queue, waiting[i].body)]
  <2>3. \A i \in 1..count : waiting[i] \in Publication
    BY <1>3
  <2>4. \A i \in 1..count : PublishFrame(waiting[i].queue, waiting[i].body) \in ClientFrame
    BY <2>3 DEF Publication, PublishFrame, ClientFrame
  <2>a. all \in Seq(ClientFrame) /\ Len(all) = count
    BY <1>3, <2>4
  <2>2. PICK sends \in Seq(ClientFrame) : sends = all
    BY <2>a
  <2>5. Len(sends) = count /\ DOMAIN sends = 1..count
    BY <2>2, <2>a
  <2>6. \A k \in 1..count : /\ sends[k].type = "publish" /\ sends[k].queue = waiting[k].queue
                            /\ sends[k].body = waiting[k].body
    BY <2>2 DEF PublishFrame
  <2>7. toBroker' = toBroker \o (frames \o sends)
    BY <1>2, <1>6, <2>2 DEF SendBatch, Sent
  <2>8. ASSUME NEW i \in 1..Len(toBroker), toBroker[i].type = "publish"
        PROVE  num[i] \in DOMAIN inflight_' /\ inflight_'[num[i]] = inflight_[num[i]]
    <3>1. /\ num[i] = num[i - 1] + 1 /\ num[i] \in DOMAIN inflight_
          /\ num \in [0..Len(toBroker) -> Nat] /\ num[0] = received
      BY <2>1, <2>8 DEF Numbering
    <3>2. i - 1 \in 0..Len(toBroker) /\ 0 \in 0..Len(toBroker) /\ 0 <= i - 1
      BY <1>0
    <3>3. num[0] <= num[i - 1]
      BY <2>1, <3>2 DEF Numbering
    <3>4. num[i - 1] \in Nat
      BY <3>1, <3>2
    <3>5. num[i] > received
      BY <1>0, <3>1, <3>3, <3>4
    <3>6. num[i] \in DOMAIN flying /\ flying[num[i]] = inflight_[num[i]]
      BY <1>6, <3>1, <3>5
    <3> QED BY <1>1, <1>2, <3>6, <1>7
  <2>9. ASSUME NEW k \in 1..count
        PROVE  /\ nextPublishTag_ + k - 1 \in DOMAIN inflight_'
               /\ inflight_'[nextPublishTag_ + k - 1] = waiting[k]
    <3>1. DOMAIN inflight_' = DOMAIN flying \cup nextPublishTag_..(nextPublishTag_ + count - 1)
      BY <1>2 DEF SendBatch
    <3>2. PICK t \in Nat : t = nextPublishTag_ + k - 1
      BY <1>0, <1>3
    <3>3. t \in DOMAIN inflight_' /\ t \notin DOMAIN flying
      BY <1>0, <1>1, <1>3, <3>1, <3>2
    <3>4. PICK k2 \in 1..count : t = nextPublishTag_ + k2 - 1 /\ inflight_'[t] = waiting[k2]
      BY <1>7, <3>3, Zenon
    <3>5. k2 = k
      BY <1>0, <1>3, <3>2, <3>4
    <3> QED BY <3>2, <3>3, <3>4, <3>5
  <2>b. \A k \in 1..Len(sends) :
           /\ nextPublishTag_ + k - 1 \in DOMAIN inflight_'
           /\ inflight_'[nextPublishTag_ + k - 1].queue = sends[k].queue
           /\ inflight_'[nextPublishTag_ + k - 1].body = sends[k].body
    BY <2>5, <2>6, <2>9
  <2>c. \A k \in DOMAIN sends : sends[k].type = "publish"
    BY <2>5, <2>6
  <2>d. nextPublishTag_' = nextPublishTag_ + Len(sends)
    BY <1>3, <2>5
  <2>10. Writes(num, frames, sends)
    BY <2>7, <2>8, <2>b, <2>c, <2>d DEF Writes
  <2> QED BY <2>1, <2>10, NumberingGrows
<1> QED BY <1>5, <1>6 DEF Numbered

\* Every step keeps the two counts together.
LEMMA NumberedStep ==
    ASSUME Inv, Inv', LinkShape, LinkShape', Numbered, [Next]_vars
    PROVE  Numbered'
<1>0. TypeOK /\ TypeOK'
  BY DEF Inv
<1>a. /\ toClient \in Seq(BrokerFrame) /\ toBroker \in Seq(ClientFrame)
      /\ nextPublishTag_ \in Nat \ {0} /\ received \in Nat /\ pending_ \in Seq(Publication)
      /\ submitted \in Seq(Publication) /\ producerReady_ \in BOOLEAN
      /\ <<>> \in Seq(ClientFrame) /\ unconfirmed \in SUBSET (Nat \ {0})
  BY <1>0, EmptySeq DEF TypeOK, AmqpTypeOK, OutboxTypeOK, QueueTypeOK, ControlTypeOK
<1>b. \A i \in DOMAIN toClient : toClient[i].type = "confirm" => toClient[i].tag \in Nat \ {0}
  <2>1. \A i \in DOMAIN toClient : toClient[i] \in BrokerFrame
    BY <1>a
  <2> QED BY <2>1 DEF BrokerFrame
<1>c. ASSUME UNCHANGED <<link, toBroker, inflight_, nextPublishTag_, received, unconfirmed>>,
             \A i \in DOMAIN toClient' : \E k \in DOMAIN toClient : toClient'[i] = toClient[k]
      PROVE  Numbered'
  <2>1. \A num : Numbering(num) => Numbering(num)'
    BY <1>c DEF Numbering
  <2> QED BY <1>c, <2>1 DEF Numbered
<1>d. ASSUME toClient # <<>>, toClient' = Tail(toClient)
      PROVE  \A i \in DOMAIN toClient' : \E k \in DOMAIN toClient : toClient'[i] = toClient[k]
  <2>1. \A i \in DOMAIN toClient' : i + 1 \in DOMAIN toClient /\ toClient'[i] = toClient[i + 1]
    BY <1>a, <1>d
  <2> QED BY <2>1
<1>e. ASSUME NEW frame \in ClientFrame, frame.type # "publish",
             toBroker' = toBroker \/ toBroker' = Sent(<<frame>>),
             UNCHANGED <<link, inflight_, nextPublishTag_, received, unconfirmed, toClient>>
      PROVE  Numbered'
  <2>1. CASE toBroker' = toBroker
    BY <1>c, <1>e, <2>1
  <2>2. CASE link = "up" /\ toBroker' = toBroker \o <<frame>>
    <3>1. PICK num : Numbering(num)
      BY <2>2 DEF Numbered
    <3>a. <<frame>> \in Seq(ClientFrame)
      OBVIOUS
    <3>2. PICK frames, sends \in Seq(ClientFrame) : frames = <<frame>> /\ sends = <<>>
      BY <1>a, <3>a
    <3>3. frames \o sends = <<frame>> /\ Len(sends) = 0 /\ DOMAIN sends = {}
      BY <3>2
    <3>4. \A k \in DOMAIN frames : frames[k].type # "publish"
      BY <1>e, <3>2
    <3>5. \A i \in 1..Len(toBroker) : toBroker[i].type = "publish" => num[i] \in DOMAIN inflight_
      BY <3>1 DEF Numbering
    <3>6. nextPublishTag_' = nextPublishTag_ + Len(sends)
      BY <1>a, <1>e, <3>3
    <3>7. Writes(num, frames, sends)
      BY <1>e, <2>2, <3>3, <3>4, <3>5, <3>6 DEF Writes
    <3>8. \E num2 : Numbering(num2)'
      BY <1>0, <3>1, <3>7, NumberingGrows
    <3> QED BY <1>e, <3>8 DEF Numbered
  <2> QED BY <1>e, <2>1, <2>2 DEF Sent
<1>f. /\ DOMAIN inflight_ \subseteq DOMAIN inflight_ /\ \A t \in DOMAIN inflight_ : inflight_[t] = inflight_[t]
      /\ link = "up" => \A t \in DOMAIN inflight_ : t > received => t \in DOMAIN inflight_
      /\ \A k \in DOMAIN <<>> : <<>>[k].type # "publish"
  OBVIOUS
<1>1. CASE link' = "none"
  BY <1>1 DEF Numbered, LinkShape
<1>2. CASE Publishing \/ OnError \/ OnLost \/ ProducerMainDeclared \/ ProducerDeadDeclared
             \/ ConsumerStarted \/ UNCHANGED vars \/ (DeadQueueDeleted /\ UNCHANGED handlerVars)
  <2>1. UNCHANGED <<link, toBroker, inflight_, nextPublishTag_, received, unconfirmed, toClient>>
    BY <1>2 DEF Publishing, PublishLoad, PublishReserve, PublishEnqueue, OnError, OnLost,
                ProducerMainDeclared, ProducerDeadDeclared, DeclareOnProducer, ConsumerStarted,
                DeadQueueDeleted, vars, handlerVars, brokerVars, storeVars, outboxVars
  <2> QED BY <1>c, <2>1
<1>3. CASE RunSubmitted
  <2>1. submitted # <<>> /\ UNCHANGED <<link, received, unconfirmed>> /\ toClient' = toClient
    BY <1>3 DEF RunSubmitted, storeVars
  <2>2. Append(pending_, Head(submitted)) \in Seq(Publication)
    BY <1>a, <2>1
  <2>3. PICK waiting \in Seq(Publication) : waiting = Append(pending_, Head(submitted))
    BY <2>2
  <2>4. DrainPending(producerReady_, waiting, inflight_, <<>>)
    BY <1>3, <2>3 DEF RunSubmitted
  <2> QED BY <1>0, <1>a, <1>f, <2>1, <2>4, NumberedDrain, Zenon
<1>4. CASE ProducerConfirmSelected
  <2>1. UNCHANGED <<link, received, unconfirmed>> /\ toClient' = toClient
    BY <1>4 DEF ProducerConfirmSelected, storeVars
  <2>2. PICK ready \in BOOLEAN : DrainPending(ready, pending_, inflight_, <<>>)
    BY <1>4, Zenon DEF ProducerConfirmSelected
  <2> QED BY <1>0, <1>a, <1>f, <2>1, <2>2, NumberedDrain, Zenon
<1>5. CASE RunCompletion
  <2>1. PICK done \in Completion : done = Head(completions)
    BY <1>0, <1>5 DEF RunCompletion, TypeOK, QueueTypeOK
  <2>a. done.tag \in Nat \ {0}
    BY DEF Completion
  <2>b. AckFrame(done.tag) \in ClientFrame /\ AckFrame(done.tag).type # "publish"
    BY <2>a DEF ClientFrame, AckFrame
  <2>2. PICK frame \in ClientFrame : frame = AckFrame(done.tag) /\ frame.type # "publish"
    BY <2>b
  <2>3. toBroker' = toBroker \/ toBroker' = Sent(<<frame>>)
    BY <1>5, <2>1, <2>2 DEF RunCompletion
  <2>4. UNCHANGED <<link, inflight_, nextPublishTag_, received, unconfirmed, toClient>>
    BY <1>5 DEF RunCompletion, storeVars, outboxVars
  <2> QED BY <1>e, <2>2, <2>3, <2>4
<1>6. ASSUME NEW timer \in retryTimers, RetryTimerFires(timer)
      PROVE  Numbered'
  <2>1. timer \in RetryTimer
    BY <1>0 DEF TypeOK, QueueTypeOK
  <2>a. timer.tag \in Nat \ {0}
    BY <2>1 DEF RetryTimer
  <2>b. RejectFrame(timer.tag) \in ClientFrame /\ RejectFrame(timer.tag).type # "publish"
    BY <2>a DEF ClientFrame, RejectFrame
  <2>2. PICK frame \in ClientFrame : frame = RejectFrame(timer.tag) /\ frame.type # "publish"
    BY <2>b
  <2>3. toBroker' = toBroker \/ toBroker' = Sent(<<frame>>)
    BY <1>6, <2>2 DEF RetryTimerFires, GivenBack
  <2>4. UNCHANGED <<link, inflight_, nextPublishTag_, received, unconfirmed, toClient>>
    BY <1>6 DEF RetryTimerFires, storeVars, outboxVars
  <2> QED BY <1>e, <2>2, <2>3, <2>4
<1>7. CASE Persisted \/ PersistFails \/ ParseFails \/ OnNackOrReturn
             \/ (OnAck /\ UNCHANGED <<toBroker, outboxVars>>)
  <2>1. toClient # <<>> /\ toClient' = Tail(toClient)
    BY <1>7 DEF Persisted, PersistFails, ParseFails, Delivered, OnNackOrReturn, OnAck, Receives
  <2>2. UNCHANGED <<link, toBroker, inflight_, nextPublishTag_, received, unconfirmed>>
    BY <1>7 DEF Persisted, PersistFails, ParseFails, Delivered, OnNackOrReturn, OnAck,
                storeVars, outboxVars
  <2> QED BY <1>c, <1>d, <2>1, <2>2
<1>8. CASE OnAck /\ Confirm(Head(toClient))
  <2>1. /\ toClient # <<>> /\ toClient' = Tail(toClient) /\ Head(toClient).type = "confirm"
        /\ UNCHANGED <<link, received, unconfirmed>>
    BY <1>8 DEF OnAck, Receives, storeVars
  <2>2. PICK tags : tags = Confirmable(Head(toClient))
    OBVIOUS
  <2>3. PICK rest : rest = [t \in DOMAIN inflight_ \ tags |-> inflight_[t]]
    OBVIOUS
  <2>4. /\ tags \subseteq DOMAIN inflight_ /\ DOMAIN rest \subseteq DOMAIN inflight_
        /\ \A t \in DOMAIN rest : rest[t] = inflight_[t]
    BY <2>2, <2>3 DEF Confirmable
  <2>5. CompletionAcks(tags) \in Seq(ClientFrame)
    BY <1>0, <2>4, CompletionAcksAreFrames DEF TypeOK
  <2>6. PICK acks \in Seq(ClientFrame) : acks = CompletionAcks(tags)
    BY <2>5
  <2>7. DrainPending(producerReady_, pending_, rest, acks)
    BY <1>8, <2>2, <2>3, <2>6 DEF Confirm
  <2>8. \A k \in DOMAIN acks : acks[k].type # "publish"
    BY <1>0, <2>4, <2>6, CompletionAcksItems DEF AckFrame
  <2>9. ASSUME link = "up", NEW t \in DOMAIN inflight_, t > received
        PROVE  t \in DOMAIN rest
    <3>1. 1 \in DOMAIN toClient /\ Head(toClient) = toClient[1]
      BY <1>a, <2>1
    <3>2. toClient[1].tag <= received /\ toClient[1].tag \in Nat
      BY <1>b, <2>1, <2>9, <3>1 DEF Numbered
    <3>3. t \in Nat
      BY <1>0 DEF TypeOK, OutboxTypeOK
    <3>4. t \notin tags
      BY <1>a, <2>2, <2>9, <3>1, <3>2, <3>3 DEF Confirmable
    <3> QED BY <2>3, <3>4
  <2> QED BY <1>0, <1>a, <2>1, <2>4, <2>7, <2>8, <2>9, NumberedDrain
<1>9. CASE OnConnected
  <2>1. /\ link = "none" /\ UNCHANGED <<toBroker, inflight_, nextPublishTag_, received, unconfirmed, toClient>>
    BY <1>9 DEF OnConnected, OpenLink, LinkShape, outboxVars
  <2>2. /\ toBroker = <<>> /\ toClient = <<>> /\ received = 0 /\ unconfirmed = {} /\ nextPublishTag_ = 1
    BY <2>1 DEF LinkShape
  <2>3. PICK num : num = [i \in 0..0 |-> 0]
    OBVIOUS
  <2>4. Numbering(num)'
    BY <2>1, <2>2, <2>3 DEF Numbering
  <2> QED BY <2>1, <2>2, <2>4 DEF Numbered
<1>10. CASE ReconnectTimerFires \/ Start \/ RunRecover \/ Shutdown \/ Crash
  <2>1. link' = "none"
    BY <1>10 DEF ReconnectTimerFires, Start, RunRecover, Shutdown, Crash, NoHandler, CloseLink,
                 brokerVars, storeVars, LinkShape
  <2> QED BY <1>1, <2>1
<1>11. CASE Brokering
  <2>0. UNCHANGED <<inflight_, nextPublishTag_>>
    BY <1>11 DEF Brokering, handlerVars, outboxVars
  <2>a. ASSUME link = "up", NEW num, Numbering(num), toBroker # <<>>
        PROVE  /\ num[1] = received + (IF Head(toBroker).type = "publish" THEN 1 ELSE 0)
               /\ num[1] < nextPublishTag_
    <3>1. Len(toBroker) \in Nat \ {0} /\ Head(toBroker) = toBroker[1] /\ 1 \in 1..Len(toBroker)
      BY <1>a, <2>a
    <3>2. num[1] = num[1 - 1] + (IF toBroker[1].type = "publish" THEN 1 ELSE 0) /\ num[0] = received
      BY <2>a, <3>1 DEF Numbering
    <3>3. num[1] <= num[Len(toBroker)] /\ nextPublishTag_ = num[Len(toBroker)] + 1
      BY <2>a, <3>1 DEF Numbering
    <3>4. num[1] \in Nat /\ num[Len(toBroker)] \in Nat
      BY <2>a, <3>1 DEF Numbering
    <3> QED BY <1>a, <3>1, <3>2, <3>3, <3>4
  <2>b. ASSUME link = "up"
        PROVE  received < nextPublishTag_
    <3>1. PICK num : Numbering(num)
      BY <2>b DEF Numbered
    <3>2. Len(toBroker) \in Nat
      BY <1>a
    <3>3. num[0] <= num[Len(toBroker)] /\ num[Len(toBroker)] \in Nat /\ num[0] = received
          /\ nextPublishTag_ = num[Len(toBroker)] + 1
      BY <3>1, <3>2 DEF Numbering
    <3> QED BY <1>a, <3>3
  <2>1. CASE LinkBreaks
    <3>1. link' = "broken" /\ toClient' = toClient
      BY <2>1 DEF LinkBreaks, CloseLink
    <3> QED BY <2>0, <3>1 DEF Numbered
  <2>2. CASE BrokerConfirmsSome
    <3>1. PICK tag0 \in unconfirmed, multiple \in BOOLEAN : BrokerConfirms(tag0, multiple)
      BY <2>2 DEF BrokerConfirmsSome
    <3>2. PICK frame : frame = [type |-> "confirm", tag |-> tag0, multiple |-> multiple]
      OBVIOUS
    <3>3. /\ UNCHANGED <<link, toBroker, received>> /\ toClient' = Append(toClient, frame)
          /\ link = "up" /\ unconfirmed' \subseteq unconfirmed
      BY <3>1, <3>2 DEF BrokerConfirms
    <3>4. \A i \in DOMAIN toClient' :
             (i \in DOMAIN toClient /\ toClient'[i] = toClient[i]) \/ toClient'[i] = frame
      BY <1>a, <3>3
    <3>5. frame.tag = tag0 /\ tag0 \in 1..received
      BY <3>2, <3>3 DEF Numbered
    <3>6. frame.tag <= received /\ frame.tag < nextPublishTag_
      BY <1>a, <2>b, <3>3, <3>5
    <3>7. \A num : Numbering(num) => Numbering(num)'
      BY <2>0, <3>3 DEF Numbering
    <3> QED BY <2>0, <3>3, <3>4, <3>6, <3>7 DEF Numbered
  <2>3. CASE BrokerDelivers
    <3>1. PICK frame : frame = [type |-> "deliver", tag |-> deliveries + 1, body |-> Head(mainQueue)]
      OBVIOUS
    <3>2. /\ UNCHANGED <<link, toBroker, received, unconfirmed>> /\ toClient' = Append(toClient, frame)
          /\ frame.type # "confirm"
      BY <2>3, <3>1 DEF BrokerDelivers
    <3>3. \A i \in DOMAIN toClient' :
             (i \in DOMAIN toClient /\ toClient'[i] = toClient[i]) \/ toClient'[i] = frame
      BY <1>a, <3>2
    <3>4. \A num : Numbering(num) => Numbering(num)'
      BY <2>0, <3>2 DEF Numbering
    <3> QED BY <2>0, <3>2, <3>3, <3>4 DEF Numbered
  <2>4. CASE BrokerStores \/ BrokerNacks \/ BrokerReturns \/ BrokerAcked \/ BrokerRejected
    <3>1. /\ link = "up" /\ link' = "up" /\ toBroker # <<>> /\ toBroker' = Tail(toBroker)
          /\ received' = received + (IF Head(toBroker).type = "publish" THEN 1 ELSE 0)
          /\ unconfirmed' \subseteq unconfirmed \cup {received'}
      BY <1>a, <2>4 DEF BrokerStores, BrokerNacks, BrokerReturns, BrokerAcked, BrokerRejected
    <3>2. PICK num : Numbering(num)
      BY <3>1 DEF Numbered
    <3>3. received' = num[1] /\ received' < nextPublishTag_ /\ received' \in Nat
      BY <1>a, <2>a, <3>1, <3>2
    <3>4. \E num2 : Numbering(num2)'
      BY <1>0, <2>0, <3>1, <3>2, <3>3, NumberingTail
    <3>5. ASSUME NEW i \in DOMAIN toClient', toClient'[i].type = "confirm"
          PROVE  \/ \E k \in DOMAIN toClient : toClient'[i] = toClient[k]
                 \/ toClient'[i].tag = received'
      <4>1. CASE BrokerStores \/ BrokerAcked \/ BrokerRejected
        BY <4>1 DEF BrokerStores, BrokerAcked, BrokerRejected
      <4>2. CASE BrokerNacks
        <5>1. PICK frame : frame = [type |-> "nack", tag |-> received + 1]
          OBVIOUS
        <5>2. toClient' = Append(toClient, frame) /\ frame.type # "confirm"
          BY <4>2, <5>1 DEF BrokerNacks
        <5>3. (i \in DOMAIN toClient /\ toClient'[i] = toClient[i]) \/ toClient'[i] = frame
          BY <1>a, <5>2
        <5> QED BY <3>5, <5>2, <5>3
      <4>3. CASE BrokerReturns
        <5>1. PICK back, frame : /\ back = [type |-> "return"]
                                 /\ frame = [type |-> "confirm", tag |-> received + 1, multiple |-> FALSE]
          OBVIOUS
        <5>2. toClient' = toClient \o <<back, frame>> /\ back.type # "confirm"
          BY <4>3, <5>1 DEF BrokerReturns
        <5>3. back \in BrokerFrame /\ frame \in BrokerFrame
          BY <1>a, <5>1 DEF BrokerFrame
        <5>4. toClient' = Append(Append(toClient, back), frame)
          BY <1>a, <5>2, <5>3
        <5>5. (i \in DOMAIN toClient /\ toClient'[i] = toClient[i])
                 \/ toClient'[i] = back \/ toClient'[i] = frame
          BY <1>a, <5>3, <5>4
        <5>6. frame.tag = received'
          BY <4>3, <5>1 DEF BrokerReturns
        <5> QED BY <3>5, <5>2, <5>5, <5>6
      <4> QED BY <2>4, <4>1, <4>2, <4>3
    <3>6. received <= received'
      BY <1>a, <3>1
    <3>7. ASSUME NEW i \in DOMAIN toClient', toClient'[i].type = "confirm"
          PROVE  toClient'[i].tag < nextPublishTag_ /\ toClient'[i].tag <= received'
      <4>1. CASE \E k \in DOMAIN toClient : toClient'[i] = toClient[k]
        <5>1. PICK k \in DOMAIN toClient : toClient'[i] = toClient[k]
          BY <4>1
        <5>2. /\ toClient[k].tag < nextPublishTag_ /\ toClient[k].tag <= received
              /\ toClient[k].tag \in Nat
          BY <1>b, <3>1, <3>7, <5>1 DEF Numbered
        <5> QED BY <1>a, <3>3, <3>6, <5>1, <5>2
      <4>2. CASE toClient'[i].tag = received'
        BY <3>3, <4>2
      <4> QED BY <3>5, <3>7, <4>1, <4>2
    <3>8. unconfirmed' \subseteq 1..received'
      <4>1. unconfirmed \subseteq 1..received
        BY <3>1 DEF Numbered
      <4>2. CASE unconfirmed' \subseteq unconfirmed
        BY <1>a, <3>3, <3>6, <4>1, <4>2
      <4>3. CASE BrokerStores
        <5>1. received' = received + 1
          BY <4>3 DEF BrokerStores
        <5> QED BY <1>a, <3>1, <3>3, <4>1, <5>1
      <4> QED BY <2>4, <4>2, <4>3 DEF BrokerNacks, BrokerReturns, BrokerAcked, BrokerRejected
    <3> QED BY <2>0, <3>4, <3>7, <3>8 DEF Numbered
  <2>5. CASE DeadQueueDeleted
    BY <1>2, <1>11, <2>5 DEF Brokering
  <2> QED BY <1>11, <2>1, <2>2, <2>3, <2>4, <2>5 DEF Brokering
<1>12. OnAck => UNCHANGED <<toBroker, outboxVars>> \/ Confirm(Head(toClient))
  BY DEF OnAck
<1> QED BY <1>2, <1>3, <1>4, <1>5, <1>6, <1>7, <1>8, <1>9, <1>10, <1>11, <1>12
        DEF Next, Looping, Connecting, Receiving

-----------------------------------------------------------------------------
(* What the broker confirms, it or the table holds *)

\* The exchanges stored, quarantined or ready in sql_queue, and with them the delivered one.
ReadyJobs   == {mainQueue[i].job : i \in DOMAIN mainQueue}
DeadJobs    == {body.job : body \in deadQueue}
CoveredJobs == database \cup DeadJobs \cup ReadyJobs
AwaitedJobs == {unacked[i].body.job : i \in DOMAIN unacked}
SafeJobs    == CoveredJobs \cup AwaitedJobs

\* A publication whose exchange is safe.  One that replaces the awaited delivery needs
\* more: its confirm acknowledges that delivery, so another copy has to be there.
KeptItems ==
    {p \in Publication : /\ p.body.job \in SafeJobs
                         /\ link = "up" /\ Bound(p) => p.body.job \in CoveredJobs}

KeptUpTo(n) == \A t \in DOMAIN inflight_ : t <= n => inflight_[t] \in KeptItems

\* A nack or a return is dispatched before the i-th frame, or was dispatched earlier: the
\* handler ignores confirms from there on.
Warned(i) == recovering_ \/ \E k \in 1..(i - 1) : toClient[k].type \in {"nack", "return"}

\* A confirm that is taken notice of covers only publications that are kept, and so will
\* any the broker sends from now on; an acknowledgement is sent only for a delivery whose
\* exchange is held elsewhere.
Confirmed ==
    /\ link = "up" => Warned(Len(toClient) + 1) \/ KeptUpTo(received)
    /\ \A i \in DOMAIN toClient :
          toClient[i].type = "confirm" => Warned(i) \/ KeptUpTo(toClient[i].tag)
    /\ \A i \in DOMAIN toBroker : toBroker[i].type = "ack" => AwaitedJobs \subseteq CoveredJobs

\* No step loses a safe exchange, and while a delivery is awaited only its own copy in
\* unacked can go.
LEMMA SafeGrows ==
    ASSUME Inv, Confirmed, [Next]_vars
    PROVE  /\ SafeJobs \subseteq SafeJobs'
           /\ unacked # <<>> => CoveredJobs \subseteq CoveredJobs'
<1>0. TypeOK
  BY DEF Inv
<1>a. /\ mainQueue \in Seq(Body) /\ unacked \in Seq(Delivery) /\ toBroker \in Seq(ClientFrame)
  BY <1>0 DEF TypeOK, AmqpTypeOK
<1>1. ASSUME mainQueue' = Requeued, unacked' = <<>>, UNCHANGED <<deadQueue, database>>
      PROVE  SafeJobs \subseteq SafeJobs' /\ CoveredJobs \subseteq CoveredJobs'
  <2>1. /\ \A k \in DOMAIN unacked : \E i \in DOMAIN mainQueue' : mainQueue'[i] = unacked[k].body
        /\ \A k \in DOMAIN mainQueue : \E i \in DOMAIN mainQueue' : mainQueue'[i] = mainQueue[k]
    BY <1>0, <1>1, RequeuedItems
  <2>2. AwaitedJobs \subseteq ReadyJobs' /\ ReadyJobs \subseteq ReadyJobs'
    BY <2>1 DEF AwaitedJobs, ReadyJobs
  <2>3. DeadJobs' = DeadJobs
    BY <1>1 DEF DeadJobs
  <2> QED BY <1>1, <2>2, <2>3 DEF SafeJobs, CoveredJobs
<1>2. ASSUME \A k \in DOMAIN mainQueue : \E i \in DOMAIN mainQueue' : mainQueue'[i] = mainQueue[k],
             deadQueue \subseteq deadQueue', database \subseteq database', unacked' = unacked
      PROVE  SafeJobs \subseteq SafeJobs' /\ CoveredJobs \subseteq CoveredJobs'
  <2>1. ReadyJobs \subseteq ReadyJobs' /\ DeadJobs \subseteq DeadJobs' /\ AwaitedJobs' = AwaitedJobs
    BY <1>2 DEF ReadyJobs, DeadJobs, AwaitedJobs
  <2> QED BY <1>2, <2>1 DEF SafeJobs, CoveredJobs
<1>3. CASE Publishing \/ RunSubmitted \/ RunCompletion \/ ReconnectTimerFires \/ Connecting
             \/ Receiving \/ Start \/ UNCHANGED vars
             \/ \E timer \in retryTimers : RetryTimerFires(timer)
  <2>1. UNCHANGED <<mainQueue, unacked, deadQueue>> /\ database \subseteq database'
    BY <1>3 DEF Publishing, PublishLoad, PublishReserve, PublishEnqueue, RunSubmitted, RunCompletion,
                ReconnectTimerFires, RetryTimerFires, Connecting, OnConnected, OpenLink, OnError,
                OnLost, ProducerMainDeclared, ProducerDeadDeclared, DeclareOnProducer,
                ProducerConfirmSelected, ConsumerStarted, Receiving, Persisted, PersistFails,
                ParseFails, Delivered, OnAck, OnNackOrReturn, Start, vars, handlerVars, brokerVars,
                storeVars, historyVars
  <2> QED BY <1>2, <2>1
<1>4. CASE RunRecover \/ Shutdown \/ Crash \/ (LinkBreaks /\ UNCHANGED handlerVars)
  <2>1. mainQueue' = Requeued /\ unacked' = <<>> /\ UNCHANGED <<deadQueue, database>>
    BY <1>4 DEF RunRecover, Shutdown, Crash, NoHandler, LinkBreaks, CloseLink, handlerVars, historyVars
  <2> QED BY <1>1, <2>1
<1>5. CASE Brokering
  <2>0. database' = database
    BY <1>5 DEF Brokering, handlerVars, historyVars
  <2>1. CASE LinkBreaks
    BY <1>4, <1>5, <2>1 DEF Brokering
  <2>2. CASE BrokerStores
    <3>1. /\ mainQueue' = mainQueue \/ \E body : mainQueue' = Append(mainQueue, body)
          /\ deadQueue \subseteq deadQueue' /\ unacked' = unacked
      BY <2>2 DEF BrokerStores
    <3>2. \A k \in DOMAIN mainQueue : k \in DOMAIN mainQueue' /\ mainQueue'[k] = mainQueue[k]
      BY <1>a, <3>1
    <3> QED BY <1>2, <2>0, <3>1, <3>2
  <2>3. CASE BrokerNacks \/ BrokerReturns \/ BrokerConfirmsSome \/ DeadQueueDeleted
    <3>1. UNCHANGED <<mainQueue, unacked, deadQueue>>
      BY <2>3 DEF BrokerNacks, BrokerReturns, BrokerConfirmsSome, BrokerConfirms, DeadQueueDeleted
    <3> QED BY <1>2, <2>0, <3>1
  <2>4. CASE BrokerAcked
    <3>1. /\ UNCHANGED <<mainQueue, deadQueue>> /\ unacked' \in {<<>>, unacked}
          /\ toBroker # <<>> /\ Head(toBroker).type = "ack"
      BY <2>4 DEF BrokerAcked
    <3>2. 1 \in DOMAIN toBroker /\ toBroker[1].type = "ack"
      BY <1>a, <3>1
    <3>3. AwaitedJobs \subseteq CoveredJobs
      BY <3>2 DEF Confirmed
    <3>4. CoveredJobs' = CoveredJobs
      BY <2>0, <3>1 DEF CoveredJobs, DeadJobs, ReadyJobs
    <3> QED BY <3>3, <3>4 DEF SafeJobs
  <2>5. CASE BrokerRejected
    <3>1. CASE mainQueue' = mainQueue /\ unacked' = unacked
      BY <1>2, <2>0, <2>5, <3>1 DEF BrokerRejected
    <3>2. CASE mainQueue' = Requeued /\ unacked' = <<>>
      BY <1>1, <2>0, <2>5, <3>2 DEF BrokerRejected
    <3> QED BY <2>5, <3>1, <3>2 DEF BrokerRejected
  <2>6. CASE BrokerDelivers
    <3>1. /\ unacked = <<>> /\ mainQueue # <<>> /\ deadQueue' = deadQueue
          /\ unacked' = <<[tag |-> deliveries + 1, body |-> Head(mainQueue)]>>
          /\ mainQueue' = Tail(mainQueue)
      BY <2>6 DEF BrokerDelivers
    <3>2. /\ Head(mainQueue) = mainQueue[1]
          /\ \A k \in DOMAIN mainQueue : k = 1 \/ (k - 1 \in DOMAIN mainQueue' /\ mainQueue'[k - 1] = mainQueue[k])
      BY <1>a, <3>1
    <3>3. 1 \in DOMAIN unacked' /\ unacked'[1].body = mainQueue[1]
      BY <3>1, <3>2
    <3>4. ReadyJobs \subseteq ReadyJobs' \cup AwaitedJobs'
      BY <3>2, <3>3 DEF ReadyJobs, AwaitedJobs
    <3>5. AwaitedJobs = {} /\ DeadJobs' = DeadJobs
      BY <3>1 DEF AwaitedJobs, DeadJobs
    <3> QED BY <2>0, <3>1, <3>4, <3>5 DEF SafeJobs, CoveredJobs
  <2> QED BY <1>5, <2>1, <2>2, <2>3, <2>4, <2>5, <2>6 DEF Brokering
<1> QED BY <1>3, <1>4, <1>5 DEF Next, Looping

\* On one connection tags are not given out twice, and a failure is not forgotten.
LEMMA SameConnection ==
    ASSUME Inv, LinkShape, [Next]_vars, link # "none", link' # "none"
    PROVE  /\ generation_' = generation_ /\ (link' = "up" => link = "up")
           /\ recovering_ => recovering_'
           /\ \A t \in DOMAIN inflight_' : t < nextPublishTag_ =>
                 t \in DOMAIN inflight_ /\ inflight_'[t] = inflight_[t]
<1>0. TypeOK
  BY DEF Inv
<1>a. /\ DOMAIN inflight_ \subseteq 1..(nextPublishTag_ - 1) /\ nextPublishTag_ \in Nat \ {0}
      /\ pending_ \in Seq(Publication) /\ submitted \in Seq(Publication)
      /\ producerReady_ \in BOOLEAN /\ <<>> \in Seq(ClientFrame)
  BY <1>0, EmptySeq DEF TypeOK, OutboxTypeOK, QueueTypeOK, ControlTypeOK
<1>b. ASSUME NEW ready \in BOOLEAN, NEW waiting \in Seq(Publication), NEW frames \in Seq(ClientFrame),
             NEW flying, DOMAIN flying \subseteq DOMAIN inflight_,
             \A t \in DOMAIN flying : flying[t] = inflight_[t],
             DrainPending(ready, waiting, flying, frames)
      PROVE  /\ recovering_ => recovering_'
             /\ \A t \in DOMAIN inflight_' : t < nextPublishTag_ =>
                 t \in DOMAIN inflight_ /\ inflight_'[t] = inflight_[t]
  <2>1. DOMAIN flying \subseteq 1..(nextPublishTag_ - 1)
    BY <1>a, <1>b
  <2>2. PICK count \in 0..Len(waiting) : SendBatch(waiting, flying, frames, count)
    BY <1>0, <1>b, <2>1, DrainPendingSends
  <2>3. recovering_ => recovering_'
    BY <1>0, <1>b, <2>1, DrainPendingSends
  <2>4. \A t \in DOMAIN inflight_' :
            \/ t \in DOMAIN flying /\ inflight_'[t] = flying[t]
            \/ \E k \in 1..count : /\ t = nextPublishTag_ + k - 1
                                   /\ inflight_'[t] = waiting[k]
    BY <1>0, <2>1, <2>2, SendBatchItems
  <2>5. \A k \in 1..count : ~(nextPublishTag_ + k - 1 < nextPublishTag_)
    BY <1>a
  <2> QED BY <1>b, <2>3, <2>4, <2>5
<1>1. CASE Publishing \/ RunCompletion \/ OnError \/ OnLost \/ ProducerMainDeclared
             \/ ProducerDeadDeclared \/ ConsumerStarted \/ Persisted \/ PersistFails \/ ParseFails
             \/ OnNackOrReturn \/ UNCHANGED vars
             \/ (OnAck /\ UNCHANGED <<toBroker, outboxVars, recoverVars>>)
             \/ \E timer \in retryTimers : RetryTimerFires(timer)
  <2>1. UNCHANGED <<generation_, link, inflight_>>
    BY <1>1 DEF Publishing, PublishLoad, PublishReserve, PublishEnqueue, RunCompletion, OnError,
                OnLost, ProducerMainDeclared, ProducerDeadDeclared, DeclareOnProducer,
                ConsumerStarted, Persisted, PersistFails, ParseFails, Delivered, OnNackOrReturn,
                OnAck, RetryTimerFires, vars, handlerVars, brokerVars, storeVars, outboxVars
  <2>2. recovering_ => recovering_'
    BY <1>1 DEF Publishing, PublishLoad, PublishReserve, PublishEnqueue, RunCompletion, OnError,
                OnLost, ProducerMainDeclared, ProducerDeadDeclared, DeclareOnProducer,
                ConsumerStarted, Persisted, PersistFails, ParseFails, Delivered, OnNackOrReturn,
                OnAck, RetryTimerFires, vars, handlerVars, recoverVars, PublishRefused, ConnectionFailed
  <2> QED BY <2>1, <2>2
<1>2. CASE RunSubmitted
  <2>1. submitted # <<>> /\ UNCHANGED <<link, generation_>>
    BY <1>2 DEF RunSubmitted, storeVars
  <2>2. Append(pending_, Head(submitted)) \in Seq(Publication)
    BY <1>a, <2>1
  <2>3. PICK waiting \in Seq(Publication) : waiting = Append(pending_, Head(submitted))
    BY <2>2
  <2>4. DrainPending(producerReady_, waiting, inflight_, <<>>)
    BY <1>2, <2>3 DEF RunSubmitted
  <2> QED BY <1>a, <1>b, <2>1, <2>4
<1>3. CASE ProducerConfirmSelected
  <2>1. UNCHANGED <<link, generation_>>
    BY <1>3 DEF ProducerConfirmSelected, storeVars
  <2>2. PICK ready \in BOOLEAN : DrainPending(ready, pending_, inflight_, <<>>)
    BY <1>3, Zenon DEF ProducerConfirmSelected
  <2> QED BY <1>a, <1>b, <2>1, <2>2
<1>4. CASE OnAck /\ Confirm(Head(toClient))
  <2>1. UNCHANGED <<link, generation_>>
    BY <1>4 DEF OnAck, storeVars
  <2>2. PICK tags : tags = Confirmable(Head(toClient))
    OBVIOUS
  <2>3. PICK rest : rest = [t \in DOMAIN inflight_ \ tags |-> inflight_[t]]
    OBVIOUS
  <2>4. /\ tags \subseteq DOMAIN inflight_ /\ DOMAIN rest \subseteq DOMAIN inflight_
        /\ \A t \in DOMAIN rest : rest[t] = inflight_[t]
    BY <2>2, <2>3 DEF Confirmable
  <2>5. CompletionAcks(tags) \in Seq(ClientFrame)
    BY <1>0, <2>4, CompletionAcksAreFrames DEF TypeOK
  <2>6. PICK acks \in Seq(ClientFrame) : acks = CompletionAcks(tags)
    BY <2>5
  <2>7. DrainPending(producerReady_, pending_, rest, acks)
    BY <1>4, <2>2, <2>3, <2>6 DEF Confirm
  <2> QED BY <1>a, <1>b, <2>1, <2>4, <2>7
<1>5. CASE Brokering
  <2>1. UNCHANGED <<generation_, recovering_, inflight_>>
    BY <1>5 DEF Brokering, handlerVars, recoverVars, outboxVars
  <2>2. link' = "up" => link = "up"
    BY <1>5 DEF Brokering, LinkBreaks, CloseLink, BrokerStores, BrokerNacks, BrokerReturns,
                BrokerConfirmsSome, BrokerConfirms, BrokerAcked, BrokerRejected, BrokerDelivers,
                DeadQueueDeleted
  <2> QED BY <2>1, <2>2
<1>6. ~(RunRecover \/ Shutdown \/ Crash)
  BY DEF RunRecover, Shutdown, Crash, NoHandler, CloseLink
<1>7. ~(ReconnectTimerFires \/ Start \/ OnConnected)
  BY DEF ReconnectTimerFires, Start, OnConnected, LinkShape
<1>8. OnAck => UNCHANGED <<toBroker, outboxVars, recoverVars>> \/ Confirm(Head(toClient))
  BY DEF OnAck
<1> QED BY <1>1, <1>2, <1>3, <1>4, <1>5, <1>6, <1>7, <1>8 DEF Next, Looping, Connecting, Receiving

\* What is kept stays kept on one connection.
LEMMA KeptStays ==
    ASSUME Inv, Inv', LinkShape, Carries, Confirmed, [Next]_vars, link # "none", link' # "none",
           NEW n \in Nat, n < nextPublishTag_, KeptUpTo(n)
    PROVE  KeptUpTo(n)'
<1>0. /\ TypeOK /\ nextPublishTag_ \in Nat /\ nextPublishTag_' \in Nat
      /\ DOMAIN inflight_' \subseteq 1..(nextPublishTag_' - 1)
  BY DEF Inv, TypeOK, OutboxTypeOK
<1>1. /\ generation_' = generation_ /\ (link' = "up" => link = "up")
      /\ \A t \in DOMAIN inflight_' : t < nextPublishTag_ =>
            t \in DOMAIN inflight_ /\ inflight_'[t] = inflight_[t]
  BY SameConnection
<1>2. SafeJobs \subseteq SafeJobs' /\ (unacked # <<>> => CoveredJobs \subseteq CoveredJobs')
  BY SafeGrows
<1>3. SUFFICES ASSUME NEW t \in DOMAIN inflight_', t <= n
               PROVE  inflight_'[t] \in KeptItems'
  BY DEF KeptUpTo
<1>4. t \in Nat /\ t < nextPublishTag_
  BY <1>0, <1>3
<1>5. t \in DOMAIN inflight_ /\ inflight_'[t] = inflight_[t]
  BY <1>1, <1>4
<1>6. PICK item : item = inflight_[t]
  OBVIOUS
<1>7. item \in Publication /\ item.body.job \in SafeJobs
      /\ (link = "up" /\ Bound(item) => item.body.job \in CoveredJobs)
  BY <1>3, <1>5, <1>6 DEF KeptUpTo, KeptItems
<1>8. ASSUME link = "up", Bound(item)
      PROVE  unacked # <<>>
  <2>1. <<item.source.tag, item.body.job>> \in Handled
    BY <1>5, <1>6, <1>8, HandledItems
  <2>2. <<item.source.tag, item.body.job>> \in Expected
    BY <2>1 DEF Carries
  <2> QED BY <1>8, <2>2 DEF Expected, Awaits
<1>9. link' = "up" /\ Bound(item)' => link = "up" /\ Bound(item)
  <2>1. item' = item
    OBVIOUS
  <2> QED BY <1>1 DEF Bound
<1>10. /\ item.body.job \in SafeJobs'
       /\ link' = "up" /\ Bound(item)' => item.body.job \in CoveredJobs'
  BY <1>2, <1>7, <1>8, <1>9
<1>11. item \in KeptItems'
  BY <1>7, <1>10 DEF KeptItems, Bound
<1> QED BY <1>5, <1>6, <1>11

\* The delivery the broker waits for is not replaced by another one.
LEMMA AwaitedStays ==
    ASSUME [Next]_vars, unacked # <<>>
    PROVE  unacked' \in {unacked, <<>>}
<1>1. CASE Brokering
  BY <1>1 DEF Brokering, LinkBreaks, CloseLink, BrokerStores, BrokerNacks, BrokerReturns,
              BrokerConfirmsSome, BrokerConfirms, BrokerAcked, BrokerRejected, BrokerDelivers,
              DeadQueueDeleted
<1>2. CASE RunRecover \/ Shutdown \/ Crash
  BY <1>2 DEF RunRecover, Shutdown, Crash, NoHandler, CloseLink
<1>3. CASE Publishing \/ RunSubmitted \/ RunCompletion \/ ReconnectTimerFires \/ Connecting
             \/ Receiving \/ Start \/ UNCHANGED vars
             \/ \E timer \in retryTimers : RetryTimerFires(timer)
  BY <1>3 DEF Publishing, PublishLoad, PublishReserve, PublishEnqueue, RunSubmitted, RunCompletion,
              ReconnectTimerFires, RetryTimerFires, Connecting, OnConnected, OpenLink, OnError,
              OnLost, ProducerMainDeclared, ProducerDeadDeclared, DeclareOnProducer,
              ProducerConfirmSelected, ConsumerStarted, Receiving, Persisted, PersistFails,
              ParseFails, Delivered, OnAck, OnNackOrReturn, Start, vars, brokerVars, storeVars
<1> QED BY <1>1, <1>2, <1>3 DEF Next, Looping

\* The frames the client has yet to dispatch stay in order: some are added at the end, or the
\* first one is dispatched, and if that one is a refusal the handler enters recovery.
LEMMA FramesShift ==
    ASSUME Inv, [Next]_vars, link' # "none"
    PROVE  \/ \E more \in Seq(BrokerFrame) : toClient' = toClient \o more
           \/ /\ toClient # <<>> /\ toClient' = Tail(toClient)
              /\ Head(toClient).type \in {"nack", "return"} => recovering_'
              /\ received' = received /\ link' = link
<1>0. toClient \in Seq(BrokerFrame) /\ received \in Nat
  BY DEF Inv, TypeOK, AmqpTypeOK
<1>1. ASSUME toClient' = toClient
      PROVE  \E more \in Seq(BrokerFrame) : toClient' = toClient \o more
  <2>1. <<>> \in Seq(BrokerFrame) /\ toClient' = toClient \o <<>>
    BY <1>0, <1>1
  <2> QED BY <2>1
<1>2. CASE Publishing \/ RunSubmitted \/ RunCompletion \/ ReconnectTimerFires \/ Connecting
             \/ Start \/ UNCHANGED vars \/ \E timer \in retryTimers : RetryTimerFires(timer)
  <2>1. toClient' = toClient
    BY <1>2 DEF Publishing, PublishLoad, PublishReserve, PublishEnqueue, RunSubmitted, RunCompletion,
              ReconnectTimerFires, RetryTimerFires, Connecting, OnConnected, OpenLink, OnError,
              OnLost, ProducerMainDeclared, ProducerDeadDeclared, DeclareOnProducer,
              ProducerConfirmSelected, ConsumerStarted, Start, vars, brokerVars
  <2> QED BY <1>1, <2>1
<1>3. CASE Receiving
  <2>1. CASE Persisted \/ PersistFails \/ ParseFails \/ OnAck
    BY <2>1 DEF Persisted, PersistFails, ParseFails, Delivered, OnAck, Receives, storeVars
  <2>2. CASE OnNackOrReturn
    BY <2>2 DEF OnNackOrReturn, PublishRefused, ConnectionFailed, Receives, storeVars
  <2> QED BY <1>3, <2>1, <2>2 DEF Receiving
<1>4. ~(RunRecover \/ Shutdown \/ Crash)
  BY DEF RunRecover, Shutdown, Crash, NoHandler, CloseLink
<1>5. CASE Brokering
  <2>1. CASE LinkBreaks \/ BrokerStores \/ BrokerAcked \/ BrokerRejected \/ DeadQueueDeleted
    <3>1. toClient' = toClient
      BY <2>1 DEF LinkBreaks, CloseLink, BrokerStores, BrokerAcked, BrokerRejected, DeadQueueDeleted
    <3> QED BY <1>1, <3>1
  <2>2. ASSUME NEW frame \in BrokerFrame, toClient' = Append(toClient, frame)
        PROVE  \E more \in Seq(BrokerFrame) : toClient' = toClient \o more
    <3>1. <<frame>> \in Seq(BrokerFrame) /\ toClient' = toClient \o <<frame>>
      BY <1>0, <2>2
    <3> QED BY <3>1
  <2>3. CASE BrokerNacks
    <3>1. [type |-> "nack", tag |-> received + 1] \in BrokerFrame
      BY <1>0 DEF BrokerFrame
    <3> QED BY <2>2, <2>3, <3>1 DEF BrokerNacks
  <2>4. CASE BrokerReturns
    <3>1. <<[type |-> "return"],
            [type |-> "confirm", tag |-> received + 1, multiple |-> FALSE]>> \in Seq(BrokerFrame)
      BY <1>0 DEF BrokerFrame
    <3> QED BY <2>4, <3>1 DEF BrokerReturns
  <2>5. CASE BrokerConfirmsSome
    <3>1. PICK tag \in unconfirmed, multiple \in BOOLEAN : BrokerConfirms(tag, multiple)
      BY <2>5 DEF BrokerConfirmsSome
    <3>2. tag \in Nat \ {0}
      BY <3>1 DEF Inv, TypeOK, AmqpTypeOK
    <3>3. [type |-> "confirm", tag |-> tag, multiple |-> multiple] \in BrokerFrame
      BY <3>2 DEF BrokerFrame
    <3> QED BY <2>2, <3>1, <3>3 DEF BrokerConfirms
  <2>6. CASE BrokerDelivers
    <3>1. Head(mainQueue) \in Body /\ deliveries \in Nat
      BY <2>6 DEF BrokerDelivers, Inv, TypeOK, AmqpTypeOK
    <3>2. [type |-> "deliver", tag |-> deliveries + 1, body |-> Head(mainQueue)] \in BrokerFrame
      BY <3>1 DEF BrokerFrame
    <3> QED BY <2>2, <2>6, <3>2 DEF BrokerDelivers
  <2> QED BY <1>5, <2>1, <2>3, <2>4, <2>5, <2>6 DEF Brokering
<1> QED BY <1>2, <1>3, <1>4, <1>5 DEF Next, Looping

\* So a refusal that precedes a frame is still before it, or has been noticed.
LEMMA WarnedStays ==
    ASSUME Inv, Inv', LinkShape, [Next]_vars, link # "none", link' # "none"
    PROVE  \/ /\ \A i \in DOMAIN toClient : i \in DOMAIN toClient' /\ toClient'[i] = toClient[i]
              /\ \A i \in DOMAIN toClient : Warned(i) => Warned(i)'
              /\ Warned(Len(toClient) + 1) =>
                    /\ Warned(Len(toClient) + 1)'
                    /\ \A i \in DOMAIN toClient' : i > Len(toClient) => Warned(i)'
           \/ /\ received' = received /\ link' = link
              /\ \A i \in DOMAIN toClient' :
                    i + 1 \in DOMAIN toClient /\ toClient'[i] = toClient[i + 1]
              /\ \A i \in DOMAIN toClient' : Warned(i + 1) => Warned(i)'
              /\ Warned(Len(toClient) + 1) => Warned(Len(toClient) + 1)'
<1>0. toClient \in Seq(BrokerFrame) /\ toClient' \in Seq(BrokerFrame) /\ Len(toClient) \in Nat
  BY DEF Inv, TypeOK, AmqpTypeOK
<1>1. recovering_ => recovering_'
  BY SameConnection
<1>2. ASSUME NEW more \in Seq(BrokerFrame), toClient' = toClient \o more
      PROVE  /\ \A i \in DOMAIN toClient : i \in DOMAIN toClient' /\ toClient'[i] = toClient[i]
             /\ \A i \in DOMAIN toClient : Warned(i) => Warned(i)'
             /\ Warned(Len(toClient) + 1) =>
                   /\ Warned(Len(toClient) + 1)'
                   /\ \A i \in DOMAIN toClient' : i > Len(toClient) => Warned(i)'
  <2>1. /\ \A i \in 1..Len(toClient) : i \in DOMAIN toClient' /\ toClient'[i] = toClient[i]
        /\ Len(toClient') >= Len(toClient) /\ Len(toClient') \in Nat
        /\ DOMAIN toClient = 1..Len(toClient) /\ DOMAIN toClient' = 1..Len(toClient')
    BY <1>0, <1>2
  <2>2. ASSUME NEW i \in Nat, NEW j \in Nat, i <= Len(toClient) + 1, i <= j, Warned(i)
        PROVE  Warned(j)'
    <3>1. CASE recovering_
      BY <1>1, <3>1 DEF Warned
    <3>2. CASE \E k \in 1..(i - 1) : toClient[k].type \in {"nack", "return"}
      <4>1. PICK k \in 1..(i - 1) : toClient[k].type \in {"nack", "return"}
        BY <3>2
      <4>2. k \in 1..Len(toClient) /\ k \in 1..(j - 1)
        BY <1>0, <2>2
      <4>3. toClient'[k].type \in {"nack", "return"}
        BY <2>1, <4>1, <4>2
      <4> QED BY <4>2, <4>3 DEF Warned
    <3> QED BY <2>2, <3>1, <3>2 DEF Warned
  <2>3. \A i \in DOMAIN toClient : Warned(i) => Warned(i)'
    BY <1>0, <2>1, <2>2
  <2>4. Warned(Len(toClient) + 1) => Warned(Len(toClient) + 1)'
    <3>1. Len(toClient) + 1 \in Nat /\ Len(toClient') + 1 \in Nat
          /\ Len(toClient) + 1 <= Len(toClient') + 1
      BY <1>0, <2>1
    <3>2. ASSUME Warned(Len(toClient) + 1), NEW j \in Nat, j = Len(toClient') + 1
          PROVE  Warned(j)'
      BY <1>0, <2>2, <3>1, <3>2
    <3>3. ASSUME NEW j, j = Len(toClient') + 1, Warned(j)'
          PROVE  Warned(Len(toClient) + 1)'
      BY <3>3 DEF Warned
    <3> QED BY <3>1, <3>2, <3>3
  <2>5. ASSUME Warned(Len(toClient) + 1), NEW i \in DOMAIN toClient', i > Len(toClient)
        PROVE  Warned(i)'
    <3>1. Len(toClient) + 1 \in Nat /\ i \in Nat /\ Len(toClient) + 1 <= i
      BY <1>0, <2>1, <2>5
    <3> QED BY <1>0, <2>2, <2>5, <3>1
  <2> QED BY <2>1, <2>3, <2>4, <2>5
<1>3. ASSUME toClient # <<>>, toClient' = Tail(toClient),
             Head(toClient).type \in {"nack", "return"} => recovering_'
      PROVE  /\ \A i \in DOMAIN toClient' :
                    i + 1 \in DOMAIN toClient /\ toClient'[i] = toClient[i + 1]
             /\ \A i \in DOMAIN toClient' : Warned(i + 1) => Warned(i)'
             /\ Warned(Len(toClient) + 1) => Warned(Len(toClient) + 1)'
  <2>1. /\ \A i \in DOMAIN toClient' : i + 1 \in DOMAIN toClient /\ toClient'[i] = toClient[i + 1]
        /\ Len(toClient') = Len(toClient) - 1 /\ Len(toClient) \in Nat \ {0}
        /\ DOMAIN toClient = 1..Len(toClient) /\ DOMAIN toClient' = 1..Len(toClient')
        /\ Head(toClient) = toClient[1]
    BY <1>0, <1>3
  <2>2. ASSUME NEW i \in 1..Len(toClient), Warned(i + 1)
        PROVE  Warned(i)'
    <3>1. CASE recovering_
      BY <1>1, <3>1 DEF Warned
    <3>2. CASE \E k \in 1..i : toClient[k].type \in {"nack", "return"}
      <4>1. PICK k \in 1..i : toClient[k].type \in {"nack", "return"}
        BY <3>2
      <4>2. CASE k = 1
        BY <1>3, <2>1, <4>1, <4>2 DEF Warned
      <4>3. CASE k # 1
        <5>1. k - 1 \in DOMAIN toClient' /\ k - 1 \in 1..(i - 1) /\ (k - 1) + 1 = k
          BY <2>1, <4>3
        <5>2. toClient'[k - 1] = toClient[k]
          BY <2>1, <5>1
        <5> QED BY <4>1, <5>1, <5>2 DEF Warned
      <4> QED BY <4>2, <4>3
    <3>3. (i + 1) - 1 = i
      OBVIOUS
    <3> QED BY <2>2, <3>1, <3>2, <3>3 DEF Warned
  <2>3. \A i \in DOMAIN toClient' : Warned(i + 1) => Warned(i)'
    BY <2>1, <2>2
  <2>4. Warned(Len(toClient) + 1) => Warned(Len(toClient) + 1)'
    <3>1. ASSUME NEW j \in 1..Len(toClient), j = Len(toClient') + 1, Warned(j)'
          PROVE  Warned(Len(toClient) + 1)'
      BY <3>1 DEF Warned
    <3>2. Len(toClient) \in 1..Len(toClient) /\ Len(toClient) = Len(toClient') + 1
      BY <2>1
    <3> QED BY <2>2, <3>1, <3>2
  <2> QED BY <2>1, <2>3, <2>4
<1>4. \/ \E more \in Seq(BrokerFrame) : toClient' = toClient \o more
      \/ /\ toClient # <<>> /\ toClient' = Tail(toClient)
         /\ Head(toClient).type \in {"nack", "return"} => recovering_'
         /\ received' = received /\ link' = link
  BY FramesShift
<1> QED BY <1>2, <1>3, <1>4

\* Where an acknowledgement on the wire comes from: it was there, completeDelivery has just sent
\* it, or the confirm of a replacement has.
LEMMA AckOrigins ==
    ASSUME Inv, LinkShape, [Next]_vars, NEW i \in DOMAIN toBroker', toBroker'[i].type = "ack"
    PROVE  \/ \E k \in DOMAIN toBroker : toBroker[k].type = "ack"
           \/ /\ link = "up" /\ RunCompletion
              /\ MayComplete(Head(completions)) /\ AcksNow(Head(completions))
           \/ /\ link = "up" /\ OnAck /\ ~recovering_
              /\ \E t \in Confirmable(Head(toClient)) : Bound(inflight_[t])
<1>0. TypeOK
  BY DEF Inv
<1>a. /\ toBroker \in Seq(ClientFrame) /\ pending_ \in Seq(Publication)
      /\ submitted \in Seq(Publication) /\ producerReady_ \in BOOLEAN
      /\ DOMAIN inflight_ \subseteq 1..(nextPublishTag_ - 1) /\ <<>> \in Seq(ClientFrame)
  BY <1>0, EmptySeq DEF TypeOK, AmqpTypeOK, OutboxTypeOK, QueueTypeOK, ControlTypeOK
<1>b. SUFFICES ASSUME \A k \in DOMAIN toBroker : toBroker'[i] # toBroker[k]
               PROVE  \/ /\ link = "up" /\ RunCompletion
                         /\ MayComplete(Head(completions)) /\ AcksNow(Head(completions))
                      \/ /\ link = "up" /\ OnAck /\ ~recovering_
                         /\ \E t \in Confirmable(Head(toClient)) : Bound(inflight_[t])
  OBVIOUS
<1>c. ASSUME NEW ready \in BOOLEAN, NEW waiting \in Seq(Publication), NEW frames \in Seq(ClientFrame),
             NEW flying, DOMAIN flying \subseteq DOMAIN inflight_,
             DrainPending(ready, waiting, flying, frames)
      PROVE  link = "up" /\ \E k \in DOMAIN frames : toBroker'[i] = frames[k]
  <2>1. DOMAIN flying \subseteq 1..(nextPublishTag_ - 1)
    BY <1>a, <1>c
  <2>2. PICK count \in 0..Len(waiting) : SendBatch(waiting, flying, frames, count)
    BY <1>0, <1>c, <2>1, DrainPendingSends
  <2>3. \A n \in DOMAIN toBroker' :
            \/ n \in DOMAIN toBroker /\ toBroker'[n] = toBroker[n]
            \/ \E k \in DOMAIN frames : toBroker'[n] = frames[k]
            \/ \E k \in DOMAIN waiting :
                  toBroker'[n] = PublishFrame(waiting[k].queue, waiting[k].body)
    BY <1>0, <2>1, <2>2, SendBatchItems
  <2>4. \A k \in DOMAIN waiting : PublishFrame(waiting[k].queue, waiting[k].body).type = "publish"
    BY DEF PublishFrame
  <2>5. toBroker' # toBroker
    BY <1>b
  <2>6. link = "up"
    BY <2>2, <2>5 DEF SendBatch, Sent
  <2> QED BY <1>b, <2>3, <2>4, <2>6
<1>d. ~(toBroker' = toBroker \/ toBroker' = <<>> \/ (toBroker # <<>> /\ toBroker' = Tail(toBroker)))
  <2>1. ASSUME toBroker # <<>>, toBroker' = Tail(toBroker)
        PROVE  i + 1 \in DOMAIN toBroker /\ toBroker'[i] = toBroker[i + 1]
    BY <1>a, <2>1
  <2> QED BY <1>b, <2>1
<1>1. ~(Publishing \/ ReconnectTimerFires \/ OnConnected \/ OnError \/ OnLost \/ ProducerMainDeclared
          \/ ProducerDeadDeclared \/ ConsumerStarted \/ Persisted \/ PersistFails \/ ParseFails
          \/ OnNackOrReturn \/ Start \/ UNCHANGED vars)
  BY <1>d DEF Publishing, PublishLoad, PublishReserve, PublishEnqueue, ReconnectTimerFires,
              OnConnected, OpenLink, OnError, OnLost, ProducerMainDeclared, ProducerDeadDeclared,
              DeclareOnProducer, ConsumerStarted, Persisted, PersistFails, ParseFails, Delivered,
              OnNackOrReturn, Start, vars, brokerVars
<1>2. ~(RunRecover \/ Shutdown \/ Crash \/ Brokering)
  BY <1>d DEF RunRecover, Shutdown, Crash, NoHandler, CloseLink, Brokering, LinkBreaks, BrokerStores,
              BrokerNacks, BrokerReturns, BrokerConfirmsSome, BrokerConfirms, BrokerAcked,
              BrokerRejected, BrokerDelivers, DeadQueueDeleted
<1>3. ~RunSubmitted
  <2>1. SUFFICES ASSUME RunSubmitted PROVE FALSE
    OBVIOUS
  <2>2. Append(pending_, Head(submitted)) \in Seq(Publication)
    BY <1>a, <2>1 DEF RunSubmitted
  <2>3. PICK waiting \in Seq(Publication) : waiting = Append(pending_, Head(submitted))
    BY <2>2
  <2>4. PICK none \in Seq(ClientFrame) : none = <<>>
    BY <1>a
  <2>5. DrainPending(producerReady_, waiting, inflight_, none)
    BY <2>1, <2>3, <2>4 DEF RunSubmitted
  <2>6. \E k \in DOMAIN none : toBroker'[i] = none[k]
    BY <1>a, <1>c, <2>5
  <2> QED BY <2>4, <2>6
<1>4. ~ProducerConfirmSelected
  <2>1. SUFFICES ASSUME ProducerConfirmSelected PROVE FALSE
    OBVIOUS
  <2>2. PICK ready \in BOOLEAN : DrainPending(ready, pending_, inflight_, <<>>)
    BY <2>1, Zenon DEF ProducerConfirmSelected
  <2>3. PICK none \in Seq(ClientFrame) : none = <<>>
    BY <1>a
  <2>4. \E k \in DOMAIN none : toBroker'[i] = none[k]
    BY <1>a, <1>c, <2>2, <2>3
  <2> QED BY <2>3, <2>4
<1>5. ASSUME NEW timer \in retryTimers, RetryTimerFires(timer)
      PROVE  FALSE
  <2>1. toBroker' = toBroker \/ toBroker' = Sent(<<RejectFrame(timer.tag)>>)
    BY <1>5 DEF RetryTimerFires, GivenBack
  <2>2. toBroker' = toBroker \o <<RejectFrame(timer.tag)>>
    BY <1>d, <2>1 DEF Sent
  <2>3. \/ i \in DOMAIN toBroker /\ toBroker'[i] = toBroker[i]
        \/ toBroker'[i] = RejectFrame(timer.tag)
    BY <1>a, <2>2
  <2> QED BY <1>b, <2>3 DEF RejectFrame
<1>6. CASE RunCompletion
  <2>1. toBroker' = Sent(<<AckFrame(Head(completions).tag)>>)
        /\ MayComplete(Head(completions)) /\ AcksNow(Head(completions))
    BY <1>6, <1>d DEF RunCompletion
  <2>2. link = "up"
    BY <1>d, <2>1 DEF Sent
  <2> QED BY <1>6, <2>1, <2>2
<1>7. CASE OnAck
  <2>1. Confirm(Head(toClient)) /\ ~recovering_
    BY <1>7, <1>d DEF OnAck, IgnoresConfirm
  <2>2. PICK tags : tags = Confirmable(Head(toClient))
    OBVIOUS
  <2>3. PICK rest : rest = [t \in DOMAIN inflight_ \ tags |-> inflight_[t]]
    OBVIOUS
  <2>4. tags \subseteq DOMAIN inflight_ /\ DOMAIN rest \subseteq DOMAIN inflight_
    BY <2>2, <2>3 DEF Confirmable
  <2>5. CompletionAcks(tags) \in Seq(ClientFrame)
    BY <1>0, <2>4, CompletionAcksAreFrames DEF TypeOK
  <2>6. PICK acks \in Seq(ClientFrame) : acks = CompletionAcks(tags)
    BY <2>5
  <2>7. DrainPending(producerReady_, pending_, rest, acks)
    BY <2>1, <2>2, <2>3, <2>6 DEF Confirm
  <2>8. link = "up" /\ \E k \in DOMAIN acks : toBroker'[i] = acks[k]
    BY <1>a, <1>c, <2>4, <2>7
  <2>9. \A k \in DOMAIN acks : \E t \in tags : Bound(inflight_[t])
    BY <1>0, <2>4, <2>6, CompletionAcksItems
  <2> QED BY <1>7, <2>1, <2>2, <2>8, <2>9
<1> QED BY <1>1, <1>2, <1>3, <1>4, <1>5, <1>6, <1>7 DEF Next, Looping, Connecting, Receiving

\* The exchange that a current completion or publication carries is the awaited one.
LEMMA AwaitedIs ==
    ASSUME TypeOK, LinkShape, Carries, link = "up", NEW x \in Handled
    PROVE  unacked # <<>> /\ AwaitedJobs = {x[2]}
<1>1. x \in Expected
  BY DEF Carries
<1>2. unacked # <<>> /\ unacked[1].body.job = x[2] /\ Len(unacked) = 1
  BY <1>1 DEF Expected, Awaits, LinkShape
<1>3. 1 \in DOMAIN unacked /\ \A i \in DOMAIN unacked : i = 1
  <2>1. unacked \in Seq(Delivery)
    BY DEF TypeOK, AmqpTypeOK
  <2> QED BY <1>2, <2>1
<1> QED BY <1>2, <1>3 DEF AwaitedJobs

\* An acknowledgement is sent only for a delivery whose exchange is held elsewhere.
LEMMA AcksConfirmed ==
    ASSUME Inv, LinkShape, BodiesKnown, Carries, AcksAreCurrent, Confirmed, [Next]_vars,
           NEW i \in DOMAIN toBroker', toBroker'[i].type = "ack"
    PROVE  AwaitedJobs' \subseteq CoveredJobs'
<1>0. TypeOK
  BY DEF Inv
<1>1. AwaitedJobs \subseteq CoveredJobs /\ unacked # <<>>
  <2>1. CASE \E k \in DOMAIN toBroker : toBroker[k].type = "ack"
    BY <2>1 DEF Confirmed, AcksAreCurrent, Awaits
  <2>2. CASE /\ link = "up" /\ RunCompletion
             /\ MayComplete(Head(completions)) /\ AcksNow(Head(completions))
    <3>1. PICK done : done = Head(completions)
      OBVIOUS
    <3>2. 1 \in DOMAIN completions /\ completions[1] = done
      BY <1>0, <2>2, <3>1 DEF TypeOK, QueueTypeOK, RunCompletion
    <3>3. done.gen = generation_ /\ done.result = "Ack"
      BY <2>2, <3>1 DEF MayComplete, IsCurrent, AcksNow
    <3>4. done.body.job \in database
      BY <3>2, <3>3 DEF BodiesKnown, Judged
    <3>5. <<done.tag, done.body.job>> \in Handled
      BY <3>2, <3>3, HandledItems
    <3>6. PICK x \in Handled : x = <<done.tag, done.body.job>>
      BY <3>5
    <3>7. unacked # <<>> /\ AwaitedJobs = {x[2]}
      BY <1>0, <2>2, AwaitedIs
    <3> QED BY <3>4, <3>6, <3>7 DEF CoveredJobs
  <2>3. CASE /\ link = "up" /\ OnAck /\ ~recovering_
             /\ \E t \in Confirmable(Head(toClient)) : Bound(inflight_[t])
    <3>1. PICK t \in Confirmable(Head(toClient)) : Bound(inflight_[t])
      BY <2>3
    <3>2. PICK frame : frame = Head(toClient)
      OBVIOUS
    <3>3. 1 \in DOMAIN toClient /\ toClient[1] = frame /\ frame \in BrokerFrame /\ frame.type = "confirm"
      BY <1>0, <2>3, <3>2 DEF TypeOK, AmqpTypeOK, OnAck, Receives
    <3>4. frame.tag \in Nat /\ DOMAIN inflight_ \subseteq Nat
      BY <1>0, <3>3 DEF BrokerFrame, TypeOK, OutboxTypeOK
    <3>5. t \in DOMAIN inflight_ /\ t <= frame.tag
      BY <3>1, <3>2, <3>4 DEF Confirmable
    <3>6. ~Warned(1)
      BY <2>3 DEF Warned
    <3>7. KeptUpTo(frame.tag)
      BY <3>3, <3>6 DEF Confirmed
    <3>8. inflight_[t].body.job \in CoveredJobs
      BY <2>3, <3>1, <3>5, <3>7 DEF KeptUpTo, KeptItems
    <3>9. <<inflight_[t].source.tag, inflight_[t].body.job>> \in Handled
      BY <3>1, <3>5, HandledItems
    <3>10. PICK x \in Handled : x = <<inflight_[t].source.tag, inflight_[t].body.job>>
      BY <3>9
    <3>11. unacked # <<>> /\ AwaitedJobs = {x[2]}
      BY <1>0, <2>3, AwaitedIs
    <3> QED BY <3>8, <3>10, <3>11
  <2> QED BY <2>1, <2>2, <2>3, AckOrigins
<1>2. CoveredJobs \subseteq CoveredJobs'
  BY <1>1, SafeGrows
<1>3. unacked' \in {unacked, <<>>}
  BY <1>1, AwaitedStays
<1>4. AwaitedJobs' \subseteq AwaitedJobs
  BY <1>3 DEF AwaitedJobs
<1> QED BY <1>1, <1>2, <1>4

\* The publish the broker numbers next is the one inflight_ has under that tag.
LEMMA NextPublish ==
    ASSUME Inv, Numbered, link = "up", toBroker # <<>>, Head(toBroker).type = "publish"
    PROVE  /\ received + 1 \in DOMAIN inflight_ /\ received < nextPublishTag_
           /\ inflight_[received + 1].queue = Head(toBroker).queue
           /\ inflight_[received + 1].body = Head(toBroker).body
<1>0. toBroker \in Seq(ClientFrame) /\ received \in Nat
  BY DEF Inv, TypeOK, AmqpTypeOK
<1>1. PICK num : Numbering(num)
  BY DEF Numbered
<1>2. 1 \in 1..Len(toBroker) /\ toBroker[1] = Head(toBroker)
  BY <1>0
<1>3. /\ num[1] = num[1 - 1] + 1 /\ num[1] \in DOMAIN inflight_
      /\ inflight_[num[1]].queue = toBroker[1].queue /\ inflight_[num[1]].body = toBroker[1].body
  BY <1>1, <1>2 DEF Numbering
<1>4. 1 - 1 = 0 /\ num[0] = received
  BY <1>1 DEF Numbering
<1>5. num[1] = received + 1
  BY <1>3, <1>4
<1>6. DOMAIN inflight_ \subseteq 1..(nextPublishTag_ - 1) /\ nextPublishTag_ \in Nat
  BY DEF Inv, TypeOK, OutboxTypeOK
<1> QED BY <1>0, <1>2, <1>3, <1>5, <1>6

\* The broker has numbered no more than the handler has sent.
LEMMA ReceivedBelow ==
    ASSUME Inv, Numbered, link = "up"
    PROVE  received \in Nat /\ received < nextPublishTag_
<1>0. toBroker \in Seq(ClientFrame) /\ received \in Nat /\ nextPublishTag_ \in Nat
  BY DEF Inv, TypeOK, AmqpTypeOK, OutboxTypeOK
<1>1. PICK num : Numbering(num)
  BY DEF Numbered
<1>2. 0 \in 0..Len(toBroker) /\ Len(toBroker) \in 0..Len(toBroker) /\ 0 <= Len(toBroker)
  BY <1>0
<1>3. num[0] <= num[Len(toBroker)] /\ num[Len(toBroker)] \in Nat
  BY <1>1, <1>2 DEF Numbering
<1> QED BY <1>0, <1>1, <1>3 DEF Numbering

\* A publish that the broker stores is kept.
LEMMA StoredIsKept ==
    ASSUME Inv, Numbered, BrokerStores, UNCHANGED handlerVars, NEW n, n = received, KeptUpTo(n)'
    PROVE  KeptUpTo(received)'
<1>0. /\ toBroker \in Seq(ClientFrame) /\ received \in Nat /\ mainQueue \in Seq(Body)
      /\ DOMAIN inflight_ \subseteq Nat /\ inflight_ \in [DOMAIN inflight_ -> Publication]
  BY DEF Inv, TypeOK, AmqpTypeOK, OutboxTypeOK
<1>1. /\ link = "up" /\ toBroker # <<>> /\ Head(toBroker).type = "publish"
      /\ received' = received + 1
  BY DEF BrokerStores
<1>2. /\ received + 1 \in DOMAIN inflight_
      /\ inflight_[received + 1].body = Head(toBroker).body
  BY <1>1, NextPublish
<1>3. inflight_' = inflight_
  BY DEF handlerVars, outboxVars
<1>4. PICK item : item = inflight_[received + 1]
  OBVIOUS
<1>5. item \in Publication /\ item.body = Head(toBroker).body
  BY <1>0, <1>2, <1>4
<1>6. item.body.job \in CoveredJobs'
  <2>1. Head(toBroker) \in ClientFrame
    BY <1>0, <1>1
  <2>2. CASE Head(toBroker).queue = "main"
    <3>1. mainQueue' = Append(mainQueue, item.body)
      BY <1>5, <2>2 DEF BrokerStores
    <3>2. Len(mainQueue) + 1 \in DOMAIN mainQueue' /\ mainQueue'[Len(mainQueue) + 1] = item.body
      BY <1>0, <3>1
    <3>3. item.body.job \in ReadyJobs'
      BY <3>2 DEF ReadyJobs
    <3> QED BY <3>3 DEF CoveredJobs
  <2>3. CASE Head(toBroker).queue = "dead"
    <3>1. item.body \in deadQueue'
      BY <1>5, <2>3 DEF BrokerStores
    <3>2. item.body.job \in DeadJobs'
      BY <3>1 DEF DeadJobs
    <3> QED BY <3>2 DEF CoveredJobs
  <2> QED BY <1>1, <2>1, <2>2, <2>3 DEF ClientFrame, Queues
<1>7. item \in KeptItems'
  BY <1>5, <1>6 DEF KeptItems, SafeJobs
<1>8. ASSUME NEW t \in DOMAIN inflight_', t <= received'
      PROVE  inflight_'[t] \in KeptItems'
  <2>1. t \in Nat
    BY <1>0, <1>3
  <2>2. CASE t <= n
    BY <2>2 DEF KeptUpTo
  <2>3. CASE t = received + 1
    BY <1>3, <1>4, <1>7, <2>3
  <2> QED BY <1>0, <1>1, <1>8, <2>1, <2>2, <2>3
<1> QED BY <1>8 DEF KeptUpTo

\* A confirm that is new on the wire is preceded by a return or is for a stored publish.
LEMMA NewConfirms ==
    ASSUME Inv, [Next]_vars, link' # "none", NEW i \in DOMAIN toClient', i > Len(toClient),
           toClient'[i].type = "confirm"
    PROVE  \/ i - 1 \in 1..(i - 1) /\ toClient'[i - 1].type = "return"
           \/ link = "up" /\ toClient'[i].tag \in unconfirmed
<1>0. toClient \in Seq(BrokerFrame) /\ Len(toClient) \in Nat
  BY DEF Inv, TypeOK, AmqpTypeOK
<1>1. ~(toClient' = toClient \/ (toClient # <<>> /\ toClient' = Tail(toClient)))
  BY <1>0
<1>2. ~(Publishing \/ RunSubmitted \/ RunCompletion \/ ReconnectTimerFires \/ Connecting
          \/ Start \/ Receiving \/ UNCHANGED vars \/ \E timer \in retryTimers : RetryTimerFires(timer))
  BY <1>1 DEF Publishing, PublishLoad, PublishReserve, PublishEnqueue, RunSubmitted, RunCompletion,
              ReconnectTimerFires, RetryTimerFires, Connecting, OnConnected, OpenLink, OnError,
              OnLost, ProducerMainDeclared, ProducerDeadDeclared, DeclareOnProducer,
              ProducerConfirmSelected, ConsumerStarted, Start, vars, brokerVars, Receiving,
              Persisted, PersistFails, ParseFails, Delivered, OnAck, OnNackOrReturn, Receives
<1>3. ~(RunRecover \/ Shutdown \/ Crash)
  BY DEF RunRecover, Shutdown, Crash, NoHandler, CloseLink
<1>4. ~(LinkBreaks \/ BrokerStores \/ BrokerAcked \/ BrokerRejected \/ DeadQueueDeleted)
  BY <1>1 DEF LinkBreaks, CloseLink, BrokerStores, BrokerAcked, BrokerRejected, DeadQueueDeleted
<1>5. ASSUME NEW frame, toClient' = Append(toClient, frame)
      PROVE  toClient'[i] = frame
  BY <1>0, <1>5
<1>6. ~BrokerNacks
  BY <1>5 DEF BrokerNacks
<1>7. ~BrokerDelivers
  BY <1>5 DEF BrokerDelivers
<1>8. CASE BrokerReturns
  <2>1. PICK two : two = [type |-> "confirm", tag |-> received + 1, multiple |-> FALSE]
    OBVIOUS
  <2>2. toClient' = toClient \o <<[type |-> "return"], two>>
    BY <1>8, <2>1 DEF BrokerReturns
  <2>3. /\ Len(toClient') = Len(toClient) + 2
        /\ toClient'[Len(toClient) + 1] = [type |-> "return"]
    BY <1>0, <2>2
  <2>4. i \in Nat /\ (i = Len(toClient) + 1 \/ i = Len(toClient) + 2)
    BY <1>0, <2>2, <2>3
  <2>5. i # Len(toClient) + 1
    BY <2>3
  <2>6. i - 1 = Len(toClient) + 1 /\ i - 1 \in 1..(i - 1)
    BY <1>0, <2>4, <2>5
  <2> QED BY <2>3, <2>6
<1>9. CASE BrokerConfirmsSome
  <2>1. PICK tag \in unconfirmed, multiple \in BOOLEAN : BrokerConfirms(tag, multiple)
    BY <1>9 DEF BrokerConfirmsSome
  <2>2. toClient'[i].tag = tag
    BY <1>5, <2>1 DEF BrokerConfirms
  <2> QED BY <2>1, <2>2 DEF BrokerConfirms
<1> QED BY <1>2, <1>3, <1>4, <1>6, <1>7, <1>8, <1>9 DEF Next, Looping, Brokering

\* Only a publish makes the broker count.
LEMMA ReceivedStays ==
    ASSUME [Next]_vars, link = "up", link' = "up"
    PROVE  received' = received \/ (BrokerStores /\ UNCHANGED handlerVars) \/ BrokerNacks \/ BrokerReturns
<1>1. CASE Publishing \/ RunSubmitted \/ RunCompletion \/ ReconnectTimerFires \/ Connecting
          \/ Start \/ Receiving \/ UNCHANGED vars \/ \E timer \in retryTimers : RetryTimerFires(timer)
  BY <1>1 DEF Publishing, PublishLoad, PublishReserve, PublishEnqueue, RunSubmitted, RunCompletion,
              ReconnectTimerFires, RetryTimerFires, Connecting, OnConnected, OpenLink, OnError,
              OnLost, ProducerMainDeclared, ProducerDeadDeclared, DeclareOnProducer,
              ProducerConfirmSelected, ConsumerStarted, Start, vars, brokerVars, storeVars, Receiving,
              Persisted, PersistFails, ParseFails, Delivered, OnAck, OnNackOrReturn
<1>2. ~(RunRecover \/ Shutdown \/ Crash \/ LinkBreaks)
  BY DEF RunRecover, Shutdown, Crash, NoHandler, CloseLink, LinkBreaks
<1>3. CASE Brokering
  BY <1>2, <1>3 DEF Brokering, BrokerConfirmsSome, BrokerConfirms, BrokerAcked, BrokerRejected,
                    BrokerDelivers, DeadQueueDeleted
<1> QED BY <1>1, <1>2, <1>3 DEF Next, Looping

\* Confirmed is inductive.
LEMMA ConfirmedStep ==
    ASSUME Inv, Inv', LinkShape, LinkShape', BodiesKnown, Carries, Numbered, AcksAreCurrent,
           Confirmed, [Next]_vars
    PROVE  Confirmed'
<1>0. /\ toClient \in Seq(BrokerFrame) /\ toClient' \in Seq(BrokerFrame)
      /\ received \in Nat /\ Len(toClient) \in Nat /\ DOMAIN inflight_' \subseteq Nat
  <2>1. nextPublishTag_' \in Nat /\ DOMAIN inflight_' \subseteq 1..(nextPublishTag_' - 1)
    BY DEF Inv, TypeOK, OutboxTypeOK
  <2>2. toClient \in Seq(BrokerFrame) /\ toClient' \in Seq(BrokerFrame) /\ received \in Nat
    BY DEF Inv, TypeOK, AmqpTypeOK
  <2> QED BY <2>1, <2>2
<1>1. \A i \in DOMAIN toBroker' : toBroker'[i].type = "ack" => AwaitedJobs' \subseteq CoveredJobs'
  BY AcksConfirmed
<1>2. CASE link' = "none"
  <2>1. toClient' = <<>>
    BY <1>2 DEF LinkShape
  <2> QED BY <1>1, <1>2, <2>1 DEF Confirmed
<1>3. CASE link = "none" /\ link' # "none"
  <2>1. toClient = <<>> /\ DOMAIN inflight_ = {}
    BY <1>3 DEF LinkShape
  <2>2. OnConnected
    <3>1. ~(Publishing \/ RunSubmitted \/ RunCompletion \/ ReconnectTimerFires \/ OnError
             \/ OnLost \/ ProducerMainDeclared \/ ProducerDeadDeclared \/ ProducerConfirmSelected
             \/ ConsumerStarted \/ Receiving \/ Start \/ UNCHANGED vars
             \/ \E timer \in retryTimers : RetryTimerFires(timer))
      BY <1>3 DEF Publishing, PublishLoad, PublishReserve, PublishEnqueue, RunSubmitted,
              RunCompletion, ReconnectTimerFires, RetryTimerFires, OnError, OnLost,
              ProducerMainDeclared, ProducerDeadDeclared, DeclareOnProducer,
              ProducerConfirmSelected, ConsumerStarted, Receiving, Persisted, PersistFails,
              ParseFails, Delivered, OnAck, OnNackOrReturn, Start, vars, brokerVars, storeVars
    <3>2. ~(RunRecover \/ Shutdown \/ Crash \/ Brokering)
      BY <1>3 DEF RunRecover, Shutdown, Crash, NoHandler, CloseLink, Brokering, LinkBreaks,
              BrokerStores, BrokerNacks, BrokerReturns, BrokerConfirmsSome, BrokerConfirms,
              BrokerAcked, BrokerRejected, BrokerDelivers, DeadQueueDeleted
    <3> QED BY <3>1, <3>2 DEF Next, Looping, Connecting
  <2>3. toClient' = <<>> /\ DOMAIN inflight_' = {}
    BY <2>1, <2>2 DEF OnConnected, OpenLink, outboxVars
  <2> QED BY <1>1, <2>3 DEF Confirmed, KeptUpTo
<1>4. CASE link # "none" /\ link' # "none"
  <2>1. ASSUME NEW n \in Nat, n < nextPublishTag_, KeptUpTo(n)
        PROVE  KeptUpTo(n)'
    BY <1>4, <2>1, KeptStays
  <2>2. ASSUME NEW i \in DOMAIN toClient, toClient[i].type = "confirm", NEW tag, tag = toClient[i].tag
        PROVE  Warned(i) \/ KeptUpTo(tag)'
    <3>1. toClient[i] \in BrokerFrame
      BY <1>0
    <3>2. tag \in Nat
      BY <2>2, <3>1 DEF BrokerFrame
    <3> QED BY <2>1, <2>2, <3>2 DEF Confirmed, Numbered
  <2>3. ASSUME link = "up", NEW n, n = received
        PROVE  Warned(Len(toClient) + 1) \/ KeptUpTo(n)'
    <3>1. n \in Nat /\ n < nextPublishTag_
      BY <2>3, ReceivedBelow
    <3> QED BY <2>1, <2>3, <3>1 DEF Confirmed
  <2>4. \/ /\ \A i \in DOMAIN toClient : i \in DOMAIN toClient' /\ toClient'[i] = toClient[i]
           /\ \A i \in DOMAIN toClient : Warned(i) => Warned(i)'
           /\ Warned(Len(toClient) + 1) =>
                 /\ Warned(Len(toClient) + 1)'
                 /\ \A i \in DOMAIN toClient' : i > Len(toClient) => Warned(i)'
        \/ /\ received' = received /\ link' = link
           /\ \A i \in DOMAIN toClient' :
                 i + 1 \in DOMAIN toClient /\ toClient'[i] = toClient[i + 1]
           /\ \A i \in DOMAIN toClient' : Warned(i + 1) => Warned(i)'
           /\ Warned(Len(toClient) + 1) => Warned(Len(toClient) + 1)'
    BY <1>4, WarnedStays
  <2>5. link' = "up" => link = "up"
    BY <1>4, SameConnection
  <2>6. link' = "up" => Warned(Len(toClient) + 1)' \/ KeptUpTo(received)'
    <3>1. SUFFICES ASSUME link = "up", link' = "up", ~Warned(Len(toClient) + 1)
                   PROVE  Warned(Len(toClient) + 1)' \/ KeptUpTo(received)'
      BY <2>4, <2>5
    <3>2. PICK n \in Nat : n = received
      BY <1>0
    <3>3. KeptUpTo(n)'
      BY <2>3, <3>1, <3>2
    <3>4. CASE received' = received
      BY <3>2, <3>3, <3>4 DEF KeptUpTo
    <3>5. CASE BrokerStores /\ UNCHANGED handlerVars
      BY <3>2, <3>3, <3>5, StoredIsKept
    <3>6. ASSUME NEW k \in 1..Len(toClient'), toClient'[k].type \in {"nack", "return"}
          PROVE  Warned(Len(toClient) + 1)'
      <4>1. k \in 1..((Len(toClient') + 1) - 1)
        BY <1>0
      <4> QED BY <3>6, <4>1 DEF Warned
    <3>7. CASE BrokerNacks
      <4>1. toClient' = Append(toClient, [type |-> "nack", tag |-> received + 1])
        BY <3>7 DEF BrokerNacks
      <4>2. Len(toClient) + 1 \in 1..Len(toClient') /\ toClient'[Len(toClient) + 1].type = "nack"
        BY <1>0, <4>1
      <4> QED BY <3>6, <4>2
    <3>8. CASE BrokerReturns
      <4>1. PICK two : two = [type |-> "confirm", tag |-> received + 1, multiple |-> FALSE]
        OBVIOUS
      <4>2. toClient' = toClient \o <<[type |-> "return"], two>>
        BY <3>8, <4>1 DEF BrokerReturns
      <4>3. Len(toClient) + 1 \in 1..Len(toClient') /\ toClient'[Len(toClient) + 1].type = "return"
        BY <1>0, <4>2
      <4> QED BY <3>6, <4>3
    <3> QED BY <3>1, <3>4, <3>5, <3>7, <3>8, ReceivedStays
  <2>7. ASSUME NEW i \in DOMAIN toClient', toClient'[i].type = "confirm", NEW tag, tag = toClient'[i].tag
        PROVE  Warned(i)' \/ KeptUpTo(tag)'
    <3>1. ASSUME NEW k \in DOMAIN toClient, toClient'[i] = toClient[k], Warned(k) => Warned(i)'
          PROVE  Warned(i)' \/ KeptUpTo(tag)'
      BY <2>2, <2>7, <3>1
    <3>2. CASE \A j \in DOMAIN toClient' :
                   /\ j + 1 \in DOMAIN toClient /\ toClient'[j] = toClient[j + 1]
                   /\ Warned(j + 1) => Warned(j)'
      BY <3>1, <3>2
    <3>3. CASE i \in DOMAIN toClient /\ toClient'[i] = toClient[i] /\ (Warned(i) => Warned(i)')
      BY <3>1, <3>3
    <3>4. CASE i > Len(toClient) /\ (Warned(Len(toClient) + 1) => Warned(i)')
      <4>1. CASE i - 1 \in 1..(i - 1) /\ toClient'[i - 1].type = "return"
        BY <4>1 DEF Warned
      <4>2. CASE link = "up" /\ toClient'[i].tag \in unconfirmed
        <5>1. tag \in Nat /\ tag <= received
          BY <1>0, <2>7, <4>2 DEF Numbered
        <5>2. PICK n \in Nat : n = received
          BY <1>0
        <5>3. KeptUpTo(n)' => KeptUpTo(tag)'
          <6>1. \A t \in DOMAIN inflight_' : t <= tag => t <= n
            BY <1>0, <5>1, <5>2
          <6> QED BY <6>1 DEF KeptUpTo
        <5> QED BY <2>3, <3>4, <4>2, <5>2, <5>3
      <4> QED BY <1>4, <2>7, <3>4, <4>1, <4>2, NewConfirms
    <3>5. i \in DOMAIN toClient \/ i > Len(toClient)
      BY <1>0
    <3> QED BY <2>4, <3>2, <3>3, <3>4, <3>5
  <2>8. \A i \in DOMAIN toClient' :
            toClient'[i].type = "confirm" => Warned(i)' \/ KeptUpTo(toClient[i].tag)'
    <3>1. ASSUME NEW i \in DOMAIN toClient', NEW tag, tag = toClient'[i].tag
          PROVE  KeptUpTo(tag)' => KeptUpTo(toClient[i].tag)'
      BY <3>1 DEF KeptUpTo
    <3> QED BY <2>7, <3>1
  <2> QED BY <1>1, <2>6, <2>8 DEF Confirmed
<1> QED BY <1>2, <1>3, <1>4

-----------------------------------------------------------------------------
(* What the process keeps in memory *)

JobsOf(f)  == {f[i].body.job : i \in DOMAIN f}
OutboxJobs == JobsOf(submitted) \cup JobsOf(pending_) \cup JobsOf(inflight_)

LEMMA JobsOfAppend ==
    ASSUME NEW s \in Seq(Publication), NEW item
    PROVE  JobsOf(Append(s, item)) = JobsOf(s) \cup {item.body.job}
<1>1. PICK t : t = Append(s, item)
  OBVIOUS
<1>2. /\ \A i \in DOMAIN s : i \in DOMAIN t /\ t[i] = s[i]
      /\ \A i \in DOMAIN t : (i \in DOMAIN s /\ t[i] = s[i]) \/ t[i] = item
      /\ Len(s) + 1 \in DOMAIN t /\ t[Len(s) + 1] = item
  BY <1>1
<1>3. JobsOf(t) \subseteq JobsOf(s) \cup {item.body.job}
  BY <1>2 DEF JobsOf
<1>4. JobsOf(s) \cup {item.body.job} \subseteq JobsOf(t)
  BY <1>2 DEF JobsOf
<1> QED BY <1>1, <1>3, <1>4

LEMMA JobsOfTail ==
    ASSUME NEW s \in Seq(Publication), s # <<>>
    PROVE  JobsOf(s) = JobsOf(Tail(s)) \cup {Head(s).body.job}
<1>1. PICK t : t = Tail(s)
  OBVIOUS
<1>2. /\ \A i \in DOMAIN s : i = 1 \/ (i - 1 \in DOMAIN t /\ t[i - 1] = s[i])
      /\ \A i \in DOMAIN t : i + 1 \in DOMAIN s /\ t[i] = s[i + 1]
      /\ 1 \in DOMAIN s /\ Head(s) = s[1]
  BY <1>1
<1>3. JobsOf(s) \subseteq JobsOf(t) \cup {Head(s).body.job}
  BY <1>2 DEF JobsOf
<1>4. JobsOf(t) \cup {Head(s).body.job} \subseteq JobsOf(s)
  BY <1>2 DEF JobsOf
<1> QED BY <1>1, <1>3, <1>4

\* drainPending moves publications and drops none.
LEMMA DrainPendingJobs ==
    ASSUME TypeOK, NEW ready \in BOOLEAN, NEW waiting \in Seq(Publication),
           NEW frames \in Seq(ClientFrame), NEW flying, DOMAIN flying \subseteq DOMAIN inflight_,
           DrainPending(ready, waiting, flying, frames)
    PROVE  JobsOf(pending_') \cup JobsOf(inflight_') = JobsOf(waiting) \cup JobsOf(flying)
<1>1. DOMAIN flying \subseteq 1..(nextPublishTag_ - 1)
  BY DEF TypeOK, OutboxTypeOK
<1>2. PICK count \in 0..Len(waiting) : SendBatch(waiting, flying, frames, count)
  BY <1>1, DrainPendingSends
<1>3. /\ \A i \in DOMAIN pending_' : \E k \in DOMAIN waiting : pending_'[i] = waiting[k]
      /\ \A t \in DOMAIN inflight_' :
            \/ t \in DOMAIN flying /\ inflight_'[t] = flying[t]
            \/ \E k \in 1..count : /\ t = nextPublishTag_ + k - 1
                                   /\ inflight_'[t] = waiting[k]
      /\ \A t \in DOMAIN flying : t \in DOMAIN inflight_' /\ inflight_'[t] = flying[t]
      /\ \A k \in DOMAIN waiting :
            \/ \E i \in DOMAIN pending_' : pending_'[i] = waiting[k]
            \/ \E t \in DOMAIN inflight_' : inflight_'[t] = waiting[k]
  BY <1>1, <1>2, SendBatchItems
<1>4. 1..count \subseteq DOMAIN waiting
  OBVIOUS
<1>5. \A t \in DOMAIN inflight_' :
          \/ t \in DOMAIN flying /\ inflight_'[t] = flying[t]
          \/ \E k \in DOMAIN waiting : inflight_'[t] = waiting[k]
  BY <1>3, <1>4
<1>6. PICK p, f : p = pending_' /\ f = inflight_'
  OBVIOUS
<1>7. JobsOf(p) \subseteq JobsOf(waiting)
  BY <1>3, <1>6 DEF JobsOf
<1>8. JobsOf(f) \subseteq JobsOf(waiting) \cup JobsOf(flying)
  BY <1>5, <1>6 DEF JobsOf
<1>9. JobsOf(waiting) \subseteq JobsOf(p) \cup JobsOf(f)
  BY <1>3, <1>6 DEF JobsOf
<1>10. JobsOf(flying) \subseteq JobsOf(f)
  BY <1>3, <1>6 DEF JobsOf
<1> QED BY <1>6, <1>7, <1>8, <1>9, <1>10

\* The exchange of each publication that a confirm covers is safe.
LEMMA ConfirmedAreSafe ==
    ASSUME TypeOK, Confirmed, Receives("confirm"), ~recovering_
    PROVE  \A t \in Confirmable(Head(toClient)) : t \in DOMAIN inflight_ /\ inflight_[t].body.job \in SafeJobs
<1>1. SUFFICES ASSUME NEW t \in Confirmable(Head(toClient))
               PROVE  t \in DOMAIN inflight_ /\ inflight_[t].body.job \in SafeJobs
  OBVIOUS
<1>2. PICK frame : frame = Head(toClient)
  OBVIOUS
<1>3. 1 \in DOMAIN toClient /\ toClient[1] = frame /\ frame \in BrokerFrame /\ frame.type = "confirm"
  BY <1>2 DEF TypeOK, AmqpTypeOK, Receives
<1>4. frame.tag \in Nat /\ DOMAIN inflight_ \subseteq Nat
  BY <1>3 DEF BrokerFrame, TypeOK, OutboxTypeOK
<1>5. t \in DOMAIN inflight_ /\ t <= frame.tag
  BY <1>1, <1>2, <1>4 DEF Confirmable
<1>6. ~Warned(1)
  BY DEF Warned
<1>7. KeptUpTo(frame.tag)
  BY <1>3, <1>6 DEF Confirmed
<1> QED BY <1>5, <1>7 DEF KeptUpTo, KeptItems

\* What each step does to the memory of the process.
LEMMA OutboxStep ==
    ASSUME Inv, Confirmed, [Next]_vars
    PROVE  \/ OutboxJobs' = OutboxJobs
           \/ NoHandler /\ OutboxJobs' = {}
           \/ PublishEnqueue /\ OutboxJobs' = OutboxJobs \cup {publisher.job}
           \/ \E timer \in retryTimers :
                 /\ RetryTimerFires(timer) /\ IsCurrent(timer.gen)
                 /\ OutboxJobs' = OutboxJobs \cup {timer.body.job}
           \/ OnAck /\ OutboxJobs' \subseteq OutboxJobs /\ OutboxJobs \subseteq OutboxJobs' \cup SafeJobs
<1>0. TypeOK
  BY DEF Inv
<1>a. /\ pending_ \in Seq(Publication) /\ submitted \in Seq(Publication)
      /\ producerReady_ \in BOOLEAN /\ <<>> \in Seq(ClientFrame)
  BY <1>0, EmptySeq DEF TypeOK, OutboxTypeOK, QueueTypeOK, ControlTypeOK
<1>b. OutboxJobs' = JobsOf(submitted') \cup JobsOf(pending_') \cup JobsOf(inflight_')
  BY DEF OutboxJobs, JobsOf
<1>1. CASE PublishEnqueue
  <2>1. PICK item : item = [queue |-> "main", body |-> FirstBody(publisher.job), source |-> NoDelivery]
    OBVIOUS
  <2>2. publisher.job \in Jobs
    BY <1>0, <1>1 DEF PublishEnqueue, TypeOK, QueueTypeOK, Publisher, Idle
  <2>3. item \in Publication /\ item.body.job = publisher.job
    BY <2>1, <2>2, AttemptAssumption DEF Publication, Queues, FirstBody, Body, AllJobs, Source
  <2>4. submitted' = Append(submitted, item) /\ UNCHANGED <<pending_, inflight_>>
    BY <1>1, <2>1 DEF PublishEnqueue, outboxVars
  <2>5. JobsOf(submitted') = JobsOf(submitted) \cup {publisher.job}
    BY <1>a, <2>3, <2>4, JobsOfAppend
  <2> QED BY <1>1, <1>b, <2>4, <2>5 DEF OutboxJobs
<1>2. CASE \E timer \in retryTimers : RetryTimerFires(timer)
  <2>1. PICK timer \in retryTimers : RetryTimerFires(timer)
    BY <1>2
  <2>2. UNCHANGED <<pending_, inflight_>>
    BY <2>1 DEF RetryTimerFires, outboxVars
  <2>4. CASE submitted' = submitted
    BY <1>b, <2>2, <2>4 DEF OutboxJobs
  <2>5. CASE submitted' # submitted
    <3>1. PICK item : item = [queue |-> timer.queue, body |-> timer.body,
                              source |-> [gen |-> timer.gen, tag |-> timer.tag]]
      OBVIOUS
    <3>2. timer \in RetryTimer
      BY <1>0, <2>1 DEF TypeOK, QueueTypeOK
    <3>3. item \in Publication /\ item.body.job = timer.body.job
      BY <3>1, <3>2 DEF Publication, RetryTimer, Source
    <3>4. IsCurrent(timer.gen) /\ submitted' = Append(submitted, item)
      BY <2>1, <2>5, <3>1 DEF RetryTimerFires
    <3>5. JobsOf(submitted') = JobsOf(submitted) \cup {timer.body.job}
      BY <1>a, <3>3, <3>4, JobsOfAppend
    <3>6. OutboxJobs' = OutboxJobs \cup {timer.body.job}
      BY <1>b, <2>2, <3>5 DEF OutboxJobs
    <3> QED BY <2>1, <3>4, <3>6
  <2> QED BY <2>4, <2>5
<1>3. CASE RunSubmitted
  <2>1. submitted # <<>> /\ submitted' = Tail(submitted)
    BY <1>3 DEF RunSubmitted
  <2>2. Append(pending_, Head(submitted)) \in Seq(Publication)
    BY <1>a, <2>1
  <2>3. PICK waiting \in Seq(Publication) : waiting = Append(pending_, Head(submitted))
    BY <2>2
  <2>4. DrainPending(producerReady_, waiting, inflight_, <<>>)
    BY <1>3, <2>3 DEF RunSubmitted
  <2>5. JobsOf(pending_') \cup JobsOf(inflight_') = JobsOf(waiting) \cup JobsOf(inflight_)
    BY <1>0, <1>a, <2>4, DrainPendingJobs
  <2>6. JobsOf(waiting) = JobsOf(pending_) \cup {Head(submitted).body.job}
    BY <1>a, <2>3, JobsOfAppend
  <2>7. JobsOf(submitted) = JobsOf(submitted') \cup {Head(submitted).body.job}
    BY <1>a, <2>1, JobsOfTail
  <2> QED BY <1>b, <2>5, <2>6, <2>7 DEF OutboxJobs
<1>4. CASE ProducerConfirmSelected
  <2>1. PICK ready \in BOOLEAN : DrainPending(ready, pending_, inflight_, <<>>)
    BY <1>4, Zenon DEF ProducerConfirmSelected
  <2>2. JobsOf(pending_') \cup JobsOf(inflight_') = JobsOf(pending_) \cup JobsOf(inflight_)
    BY <1>0, <1>a, <2>1, DrainPendingJobs
  <2>3. submitted' = submitted
    BY <1>4 DEF ProducerConfirmSelected, queueVars
  <2> QED BY <1>b, <2>2, <2>3 DEF OutboxJobs
<1>5. CASE OnAck /\ Confirm(Head(toClient)) /\ ~recovering_
  <2>1. Receives("confirm") /\ submitted' = submitted
    BY <1>5 DEF OnAck, queueVars
  <2>2. PICK tags : tags = Confirmable(Head(toClient))
    OBVIOUS
  <2>3. PICK rest : rest = [t \in DOMAIN inflight_ \ tags |-> inflight_[t]]
    OBVIOUS
  <2>4. tags \subseteq DOMAIN inflight_ /\ DOMAIN rest = DOMAIN inflight_ \ tags
        /\ \A t \in DOMAIN rest : rest[t] = inflight_[t]
    BY <2>2, <2>3 DEF Confirmable
  <2>5. CompletionAcks(tags) \in Seq(ClientFrame)
    BY <1>0, <2>4, CompletionAcksAreFrames DEF TypeOK
  <2>6. PICK acks \in Seq(ClientFrame) : acks = CompletionAcks(tags)
    BY <2>5
  <2>7. DrainPending(producerReady_, pending_, rest, acks)
    BY <1>5, <2>2, <2>3, <2>6 DEF Confirm
  <2>8. JobsOf(pending_') \cup JobsOf(inflight_') = JobsOf(pending_) \cup JobsOf(rest)
    BY <1>0, <1>a, <2>4, <2>7, DrainPendingJobs
  <2>9. \A t \in tags : inflight_[t].body.job \in SafeJobs
    BY <1>0, <1>5, <2>1, <2>2, ConfirmedAreSafe
  <2>10. JobsOf(rest) \subseteq JobsOf(inflight_)
    BY <2>4 DEF JobsOf
  <2>11. JobsOf(inflight_) \subseteq JobsOf(rest) \cup SafeJobs
    BY <2>4, <2>9 DEF JobsOf
  <2> QED BY <1>5, <1>b, <2>1, <2>8, <2>10, <2>11 DEF OutboxJobs
<1>6. CASE RunRecover
  <2>1. pending_' = Reclaimed /\ DOMAIN inflight_' = {} /\ submitted' = submitted
    BY <1>6 DEF RunRecover, queueVars
  <2>2. /\ \A i \in DOMAIN pending_' :
              \/ \E t \in DOMAIN inflight_ : pending_'[i] = inflight_[t]
              \/ \E k \in DOMAIN pending_ : pending_'[i] = pending_[k]
        /\ \A t \in DOMAIN inflight_ : \E i \in DOMAIN pending_' : pending_'[i] = inflight_[t]
        /\ \A k \in DOMAIN pending_ : \E i \in DOMAIN pending_' : pending_'[i] = pending_[k]
    BY <1>0, <2>1, ReclaimedItems
  <2>3. PICK p : p = pending_'
    OBVIOUS
  <2>4. JobsOf(p) \subseteq JobsOf(pending_) \cup JobsOf(inflight_)
    BY <2>2, <2>3 DEF JobsOf
  <2>5. JobsOf(pending_) \subseteq JobsOf(p) /\ JobsOf(inflight_) \subseteq JobsOf(p)
    BY <2>2, <2>3 DEF JobsOf
  <2>6. JobsOf(inflight_') = {}
    BY <2>1 DEF JobsOf
  <2> QED BY <1>b, <2>1, <2>3, <2>4, <2>5, <2>6 DEF OutboxJobs
<1>7. CASE Shutdown \/ Crash
  <2>1. NoHandler
    BY <1>7 DEF Shutdown, Crash
  <2>2. DOMAIN submitted' = {} /\ DOMAIN pending_' = {} /\ DOMAIN inflight_' = {}
    BY <2>1 DEF NoHandler
  <2>3. OutboxJobs' = {}
    BY <1>b, <2>2 DEF JobsOf
  <2> QED BY <2>1, <2>3
<1>8. CASE \/ \E job \in Jobs : PublishLoad(job)
           \/ PublishReserve \/ RunCompletion \/ ReconnectTimerFires \/ OnConnected \/ OnError \/ OnLost
           \/ ProducerMainDeclared \/ ProducerDeadDeclared \/ ConsumerStarted \/ Persisted
           \/ PersistFails \/ ParseFails \/ OnNackOrReturn \/ Brokering \/ Start \/ UNCHANGED vars
           \/ (OnAck /\ UNCHANGED <<toBroker, outboxVars, recoverVars>>)
  <2>1. UNCHANGED <<submitted, pending_, inflight_>>
    BY <1>8 DEF PublishLoad, PublishReserve, RunCompletion, ReconnectTimerFires, OnConnected, OpenLink,
                OnError, OnLost, ProducerMainDeclared, ProducerDeadDeclared, DeclareOnProducer,
                ConsumerStarted, Persisted, PersistFails, ParseFails, Delivered, OnNackOrReturn,
                Brokering, Start, OnAck, vars, handlerVars, outboxVars, queueVars
  <2> QED BY <1>b, <2>1 DEF OutboxJobs
<1>9. OnAck => UNCHANGED <<toBroker, outboxVars, recoverVars>>
                 \/ (Confirm(Head(toClient)) /\ ~recovering_)
  BY DEF OnAck, IgnoresConfirm
<1> QED BY <1>1, <1>2, <1>3, <1>4, <1>5, <1>6, <1>7, <1>8, <1>9
        DEF Next, Publishing, Looping, Connecting, Receiving

-----------------------------------------------------------------------------
(* No exchange is lost *)

\* What the broker confirmed, and the backlog, is safe; what was admitted is safe or in memory.
Accounted ==
    /\ confirmed \cup Legacy \subseteq SafeJobs
    /\ admitted \subseteq SafeJobs \cup OutboxJobs

\* Accounted is inductive.
LEMMA AccountedStep ==
    ASSUME Inv, Confirmed, Accounted, [Next]_vars
    PROVE  Accounted'
<1>0. TypeOK
  BY DEF Inv
<1>1. SafeJobs \subseteq SafeJobs'
  BY SafeGrows
<1>2. confirmed' \subseteq confirmed \cup SafeJobs
  <2>1. CASE OnAck /\ ~recovering_ /\ Confirm(Head(toClient))
    <3>1. confirmed' = confirmed \cup {inflight_[t].body.job : t \in Confirmable(Head(toClient))}
      BY <2>1 DEF Confirm
    <3>2. \A t \in Confirmable(Head(toClient)) : inflight_[t].body.job \in SafeJobs
      BY <1>0, <2>1, ConfirmedAreSafe DEF OnAck
    <3> QED BY <3>1, <3>2
  <2>2. CASE OnAck /\ ~(~recovering_ /\ Confirm(Head(toClient)))
    BY <2>2 DEF OnAck, IgnoresConfirm
  <2>3. CASE [Next]_vars /\ ~OnAck
    BY <2>3 DEF Next, Publishing, PublishLoad, PublishReserve, PublishEnqueue, Looping, RunSubmitted,
              RunCompletion, RunRecover, ReconnectTimerFires, RetryTimerFires, Connecting, OnConnected,
              OnError, OnLost, ProducerMainDeclared, ProducerDeadDeclared, DeclareOnProducer,
              ProducerConfirmSelected, ConsumerStarted, Receiving, Persisted, PersistFails,
              ParseFails, Delivered, OnNackOrReturn, Brokering, Start, Shutdown, Crash, NoHandler,
              vars, handlerVars, historyVars
  <2> QED BY <2>1, <2>2, <2>3
<1>3. admitted' = {} \/ (~NoHandler /\ admitted' \subseteq admitted \cup OutboxJobs')
  <2>1. CASE PublishEnqueue
    <3>1. PICK item : item = [queue |-> "main", body |-> FirstBody(publisher.job), source |-> NoDelivery]
      OBVIOUS
    <3>2. submitted' = Append(submitted, item) /\ item.body.job = publisher.job
      BY <2>1, <3>1 DEF PublishEnqueue, FirstBody
    <3>3. submitted \in Seq(Publication)
      BY <1>0 DEF TypeOK, QueueTypeOK
    <3>4. publisher.job \in JobsOf(submitted')
      BY <3>2, <3>3, JobsOfAppend
    <3>5. publisher.job \in OutboxJobs'
      BY <3>4 DEF OutboxJobs, JobsOf
    <3>6. admitted' = admitted \cup {publisher.job}
      BY <2>1 DEF PublishEnqueue
    <3> QED BY <3>5, <3>6 DEF NoHandler
  <2>2. CASE Shutdown \/ Crash
    BY <2>2 DEF Shutdown, Crash, NoHandler
  <2>3. CASE [Next]_vars /\ ~(PublishEnqueue \/ Shutdown \/ Crash)
    <3>1. admitted' = admitted
      BY <2>3 DEF Next, Publishing, PublishLoad, PublishReserve, Looping, RunSubmitted,
              RunCompletion, RunRecover, ReconnectTimerFires, RetryTimerFires, Connecting, OnConnected,
              OnError, OnLost, ProducerMainDeclared, ProducerDeadDeclared, DeclareOnProducer,
              ProducerConfirmSelected, ConsumerStarted, Receiving, Persisted, PersistFails,
              ParseFails, Delivered, OnAck, OnNackOrReturn, Brokering, Start, vars, handlerVars,
              historyVars
    <3> QED BY <3>1 DEF NoHandler
  <2> QED BY <2>1, <2>2, <2>3
<1>4. \/ NoHandler \/ OutboxJobs \subseteq OutboxJobs' \cup SafeJobs
  BY OutboxStep
<1>5. admitted' \subseteq SafeJobs' \cup OutboxJobs'
  BY <1>1, <1>3, <1>4 DEF Accounted
<1> QED BY <1>1, <1>2, <1>5 DEF Accounted

\* Before the first connection the backlog is all there is.
LEMMA BacklogIsReady ==
    ASSUME Init
    PROVE  Legacy = ReadyJobs /\ AwaitedJobs = {} /\ DeadJobs = {} /\ database = {} /\ confirmed = {}
           /\ admitted = {} /\ OutboxJobs = {}
<1>1. PICK backlog \in [1..Cardinality(Legacy) -> {FirstBody(j) : j \in Legacy}] :
          /\ \A a, b \in DOMAIN backlog : a # b => backlog[a] # backlog[b]
          /\ AmqpInit(backlog)
  BY DEF Init
<1>2. PICK n : n = Cardinality(Legacy)
  OBVIOUS
<1>3. n \in Nat
  BY <1>2, FS_CardinalityType, JobsAssumption
<1>4. PICK f : f = [i \in 1..n |-> backlog[i].job]
  OBVIOUS
<1>5. \A i \in 1..n : backlog[i] = FirstBody(f[i]) /\ f[i] \in Legacy
  <2>1. ASSUME NEW i \in 1..n
        PROVE  backlog[i] = FirstBody(f[i]) /\ f[i] \in Legacy
    <3>1. PICK j \in Legacy : backlog[i] = FirstBody(j)
      BY <1>1, <1>2
    <3> QED BY <1>4, <3>1 DEF FirstBody
  <2> QED BY <2>1
<1>6. f \in Injection(1..n, Legacy)
  <2>1. \A a, b \in 1..n : f[a] = f[b] => a = b
    BY <1>1, <1>2, <1>5
  <2> QED BY <1>4, <1>5, <2>1 DEF Injection, IsInjective
<1>7. Cardinality(1..n) = Cardinality(Legacy)
  BY <1>2, <1>3, FS_Interval
<1>8. f \in Surjection(1..n, Legacy)
  BY <1>6, <1>7, FS_Injection, JobsAssumption
<1>9. mainQueue = backlog /\ DOMAIN unacked = {} /\ deadQueue = {}
  BY <1>1 DEF AmqpInit
<1>10. Legacy = ReadyJobs
  <2>1. \A j \in Legacy : \E i \in 1..n : f[i] = j
    BY <1>8 DEF Surjection
  <2>2. DOMAIN mainQueue = 1..n /\ \A i \in 1..n : mainQueue[i].job = f[i]
    BY <1>1, <1>2, <1>4, <1>9
  <2>3. Legacy \subseteq ReadyJobs
    BY <2>1, <2>2 DEF ReadyJobs
  <2>4. ReadyJobs \subseteq Legacy
    BY <1>5, <2>2 DEF ReadyJobs
  <2> QED BY <2>3, <2>4
<1>11. AwaitedJobs = {} /\ DeadJobs = {}
  BY <1>9 DEF AwaitedJobs, DeadJobs
<1>12. OutboxJobs = {}
  <2>1. DOMAIN submitted = {} /\ DOMAIN pending_ = {} /\ DOMAIN inflight_ = {}
    BY DEF Init
  <2> QED BY <2>1 DEF OutboxJobs, JobsOf
<1> QED BY <1>10, <1>11, <1>12 DEF Init

\* The whole inductive invariant of the queue.
LossInv == DeliveryInv /\ Carries /\ Numbered /\ Confirmed /\ Accounted

LEMMA LossInit ==
    ASSUME Init
    PROVE  LossInv
<1>1. DeliveryInv
  BY InitHolds, DeliveryInit DEF DeliveryInv
<1>2. PICK backlog : AmqpInit(backlog)
  BY DEF Init
<1>3. link = "none" /\ DOMAIN toBroker = {} /\ DOMAIN toClient = {}
  BY <1>2 DEF AmqpInit
<1>4. Carries
  BY <1>1, <1>3, NothingHandled DEF DeliveryInv, Inv, Carries
<1>5. Numbered
  BY <1>3 DEF Numbered
<1>6. Confirmed
  BY <1>3 DEF Confirmed
<1>7. Accounted
  BY BacklogIsReady DEF Accounted, SafeJobs, CoveredJobs
<1> QED BY <1>1, <1>4, <1>5, <1>6, <1>7 DEF LossInv

LEMMA LossStep ==
    ASSUME LossInv, DeliveryInv', [Next]_vars
    PROVE  LossInv'
<1>1. Inv /\ LinkShape /\ BodiesKnown /\ SettlersExact /\ Carries /\ Numbered /\ Confirmed /\ Accounted
  BY DEF LossInv, DeliveryInv
<1>2. Inv' /\ LinkShape' /\ SettlersExact'
  BY DEF DeliveryInv
<1>3. AcksAreCurrent
  BY AnswersAreAwaited DEF LossInv
<1>4. Carries'
  BY <1>1, <1>2, CarriesStep
<1>5. Numbered'
  BY <1>1, <1>2, NumberedStep
<1>6. Confirmed'
  BY <1>1, <1>2, <1>3, ConfirmedStep
<1>7. Accounted'
  BY <1>1, AccountedStep
<1> QED BY <1>4, <1>5, <1>6, <1>7 DEF LossInv

\* The inductive invariant holds: besides DeliveryInv, whoever will settle a delivery carries
\* its exchange (Carries), the broker and nextPublishTag_ number publications alike (Numbered),
\* the confirms that are acted on cover only kept publications (Confirmed), and every exchange
\* that was admitted or confirmed is accounted for (Accounted).
THEOREM LossInvCorrect == Spec => []LossInv
<1>1. Init => LossInv
  BY LossInit
<1>2. LossInv /\ DeliveryInv' /\ [Next]_vars => LossInv'
  BY LossStep
<1> QED BY <1>1, <1>2, DeliveryInvCorrect, PTL DEF Spec

\* No exchange for which publish returned true is lost while the process lives, and none that
\* the broker has confirmed ever is: drainPending, disconnect and completeDelivery together keep
\* a copy in memory, in sql_queue, in sql_queue.dead or in chat_message.
THEOREM NoLossCorrect == Spec => []NoLoss
<1>1. LossInv => NoLoss
  <2>1. ASSUME NEW job, job \in SafeJobs
        PROVE  InBroker(job) \/ job \in database
    BY <2>1 DEF SafeJobs, CoveredJobs, ReadyJobs, DeadJobs, AwaitedJobs, InBroker, InMainQueue,
                InDeadQueue, Holds
  <2>2. ASSUME NEW job, job \in OutboxJobs
        PROVE  InOutbox(job)
    BY <2>2 DEF OutboxJobs, JobsOf, InOutbox, Holds
  <2> QED BY <2>1, <2>2 DEF LossInv, Accounted, NoLoss
<1> QED BY <1>1, LossInvCorrect, PTL

-----------------------------------------------------------------------------
(* The handler, the broker and executeMysql implement the queue of ExchangeQueue *)

QueuedJobs == ReadyJobs \cup AwaitedJobs

\* The variables of the abstract queue, under the mapping of the instance Queue.
LEMMA QueueView ==
    TypeOK => /\ JobsIn(InOutbox) = OutboxJobs /\ JobsIn(InMainQueue) = QueuedJobs
              /\ JobsIn(InDeadQueue) = DeadJobs
<1> SUFFICES ASSUME TypeOK
             PROVE  /\ JobsIn(InOutbox) = OutboxJobs /\ JobsIn(InMainQueue) = QueuedJobs
                    /\ JobsIn(InDeadQueue) = DeadJobs
  OBVIOUS
<1>0. /\ \A b \in Body : b.job \in AllJobs
      /\ \A p \in Publication : p.body \in Body
      /\ \A d \in Delivery : d.body \in Body
  BY DEF Body, Publication, Delivery
<1>1. /\ submitted \in Seq(Publication) /\ pending_ \in Seq(Publication)
      /\ \A t \in DOMAIN inflight_ : inflight_[t] \in Publication
      /\ mainQueue \in Seq(Body) /\ unacked \in Seq(Delivery) /\ deadQueue \subseteq Body
  BY DEF TypeOK, OutboxTypeOK, QueueTypeOK, AmqpTypeOK
<1>2. /\ \A i \in DOMAIN submitted : submitted[i].body.job \in AllJobs
      /\ \A i \in DOMAIN pending_ : pending_[i].body.job \in AllJobs
      /\ \A t \in DOMAIN inflight_ : inflight_[t].body.job \in AllJobs
  BY <1>0, <1>1
<1>3. /\ \A i \in DOMAIN mainQueue : mainQueue[i].job \in AllJobs
      /\ \A i \in DOMAIN unacked : unacked[i].body.job \in AllJobs
      /\ \A b \in deadQueue : b.job \in AllJobs
  BY <1>0, <1>1
<1>4. JobsIn(InOutbox) = OutboxJobs
  <2>1. \A job : job \in OutboxJobs <=> InOutbox(job)
    BY DEF OutboxJobs, JobsOf, InOutbox, Holds
  <2>2. OutboxJobs \subseteq AllJobs
    BY <1>2 DEF OutboxJobs, JobsOf
  <2> QED BY <2>1, <2>2 DEF JobsIn
<1>5. JobsIn(InMainQueue) = QueuedJobs
  <2>1. \A job : job \in QueuedJobs <=> InMainQueue(job)
    BY DEF QueuedJobs, ReadyJobs, AwaitedJobs, InMainQueue, Holds
  <2>2. QueuedJobs \subseteq AllJobs
    BY <1>3 DEF QueuedJobs, ReadyJobs, AwaitedJobs
  <2> QED BY <2>1, <2>2 DEF JobsIn
<1>6. JobsIn(InDeadQueue) = DeadJobs
  <2>1. \A job : job \in DeadJobs <=> InDeadQueue(job)
    BY DEF DeadJobs, InDeadQueue
  <2>2. DeadJobs \subseteq AllJobs
    BY <1>3 DEF DeadJobs
  <2> QED BY <2>1, <2>2 DEF JobsIn
<1> QED BY <1>4, <1>5, <1>6

\* The exchange that publish is admitting is new.
LEMMA AdmittedIsNew ==
    ASSUME Inv, BodiesKnown, PublishEnqueue
    PROVE  publisher.job \in Jobs \ (OutboxJobs \cup SafeJobs)
<1>1. publisher.job \in Jobs /\ publisher.job \notin KnownJobs
  <2>1. publisher.pc = "enqueue" /\ publisher \in Publisher
    BY DEF PublishEnqueue, Inv, TypeOK, QueueTypeOK
  <2>2. publisher.job \in Jobs
    BY <2>1 DEF Publisher, Idle
  <2> QED BY <2>1, <2>2, JobsAssumption DEF KnownJobs
<1>2. /\ \A b \in Circulating : b.job \in KnownJobs
      /\ \A b \in GivenUp : b.job \in KnownJobs
  BY DEF Circulating, GivenUp
<1>3. \A q, b : <<q, b>> \in Addressed => b.job \in KnownJobs
  BY <1>2 DEF Addressed
<1>4. OutboxJobs \subseteq KnownJobs
  BY <1>3 DEF OutboxJobs, JobsOf, BodiesKnown
<1>5. SafeJobs \subseteq KnownJobs
  BY <1>2 DEF SafeJobs, CoveredJobs, ReadyJobs, DeadJobs, AwaitedJobs, BodiesKnown
<1> QED BY <1>1, <1>4, <1>5

\* An exchange that a current step carries is in sql_queue.
LEMMA HandledIsQueued ==
    ASSUME TypeOK, SettlersExact, Carries, NEW x \in Handled
    PROVE  x[2] \in QueuedJobs
<1>1. x \in Expected
  BY DEF Carries
<1>2. link \in {"up", "broken"}
  <2>1. link # "none"
    BY NothingHandled
  <2> QED BY <2>1 DEF TypeOK, AmqpTypeOK
<1>3. CASE link = "up"
  <2>1. unacked # <<>> /\ unacked[1].body.job = x[2]
    BY <1>1, <1>3 DEF Expected, Awaits
  <2>2. 1 \in DOMAIN unacked
    BY <2>1 DEF TypeOK, AmqpTypeOK
  <2> QED BY <2>1, <2>2 DEF QueuedJobs, AwaitedJobs
<1>4. CASE link = "broken"
  BY <1>1, <1>4 DEF Expected, QueuedJobs, ReadyJobs
<1> QED BY <1>2, <1>3, <1>4

\* What each step does to the broker's queues and to the table.
LEMMA QueuesStep ==
    ASSUME LossInv, [Next]_vars
    PROVE  \/ UNCHANGED <<QueuedJobs, DeadJobs, database>>
           \/ /\ UNCHANGED <<submitted, pending_, inflight_, database>>
              /\ \E job \in OutboxJobs :
                    \/ QueuedJobs' = QueuedJobs \cup {job} /\ DeadJobs' = DeadJobs
                    \/ DeadJobs' = DeadJobs \cup {job} /\ QueuedJobs' = QueuedJobs
           \/ /\ UNCHANGED <<submitted, pending_, inflight_, database, DeadJobs>>
              /\ \E job \in QueuedJobs \cap (database \cup DeadJobs) : QueuedJobs' = QueuedJobs \ {job}
           \/ /\ UNCHANGED <<submitted, pending_, inflight_, QueuedJobs, DeadJobs>>
              /\ \E job \in QueuedJobs \cap Jobs : database' = database \cup {job}
<1>0. TypeOK /\ Inv /\ LinkShape /\ SettlersExact /\ Carries /\ Numbered /\ Confirmed
  BY DEF LossInv, DeliveryInv, Inv
<1>a. /\ mainQueue \in Seq(Body) /\ unacked \in Seq(Delivery) /\ toBroker \in Seq(ClientFrame)
      /\ toClient \in Seq(BrokerFrame)
  BY <1>0 DEF TypeOK, AmqpTypeOK
<1>b. ASSUME UNCHANGED <<mainQueue, unacked, deadQueue>>
      PROVE  UNCHANGED <<QueuedJobs, DeadJobs>>
  BY <1>b DEF QueuedJobs, ReadyJobs, AwaitedJobs, DeadJobs
<1>1. ASSUME mainQueue' = Requeued, unacked' = <<>>, UNCHANGED <<deadQueue, database>>
      PROVE  UNCHANGED <<QueuedJobs, DeadJobs, database>>
  <2>1. /\ \A i \in DOMAIN mainQueue' :
                 \/ \E k \in DOMAIN unacked : mainQueue'[i] = unacked[k].body
                 \/ \E k \in DOMAIN mainQueue : mainQueue'[i] = mainQueue[k]
        /\ \A k \in DOMAIN unacked : \E i \in DOMAIN mainQueue' : mainQueue'[i] = unacked[k].body
        /\ \A k \in DOMAIN mainQueue : \E i \in DOMAIN mainQueue' : mainQueue'[i] = mainQueue[k]
    BY <1>0, <1>1, RequeuedItems
  <2>2. QueuedJobs \subseteq ReadyJobs'
    BY <2>1 DEF QueuedJobs, ReadyJobs, AwaitedJobs
  <2>3. ReadyJobs' \subseteq QueuedJobs
    BY <2>1 DEF QueuedJobs, ReadyJobs, AwaitedJobs
  <2>4. DOMAIN unacked' = {}
    BY <1>1
  <2>5. AwaitedJobs' = {} /\ DeadJobs' = DeadJobs
    BY <1>1, <2>4 DEF AwaitedJobs, DeadJobs
  <2> QED BY <1>1, <2>2, <2>3, <2>5 DEF QueuedJobs
<1>2. CASE Publishing \/ RunSubmitted \/ RunCompletion \/ ReconnectTimerFires \/ Connecting
             \/ ParseFails \/ OnAck \/ OnNackOrReturn \/ Start \/ UNCHANGED vars
             \/ \E timer \in retryTimers : RetryTimerFires(timer)
  <2>1. UNCHANGED <<mainQueue, unacked, deadQueue>> /\ database' = database
    BY <1>2 DEF Publishing, PublishLoad, PublishReserve, PublishEnqueue, RunSubmitted, RunCompletion,
                ReconnectTimerFires, RetryTimerFires, Connecting, OnConnected, OpenLink, OnError,
                OnLost, ProducerMainDeclared, ProducerDeadDeclared, DeclareOnProducer,
                ProducerConfirmSelected, ConsumerStarted, ParseFails, Delivered, OnAck,
                OnNackOrReturn, Start, vars, handlerVars, brokerVars, storeVars, historyVars
  <2> QED BY <1>b, <2>1
<1>3. CASE Persisted \/ PersistFails
  <2>1. PICK frame : frame = Head(toClient)
    OBVIOUS
  <2>2. /\ Receives("deliver") /\ frame.body.job \in Jobs
        /\ database' \in {database, database \cup {frame.body.job}}
        /\ UNCHANGED <<mainQueue, unacked, deadQueue>> /\ UNCHANGED <<submitted, pending_, inflight_>>
    BY <1>3, <2>1 DEF Persisted, PersistFails, Delivered, storeVars, outboxVars
  <2>3. 1 \in DOMAIN toClient /\ toClient[1] = frame /\ frame.type = "deliver"
    BY <1>a, <2>1, <2>2 DEF Receives
  <2>4. <<frame.tag, frame.body.job>> \in Handled
    BY <2>3, HandledItems
  <2>5. PICK x \in Handled : x = <<frame.tag, frame.body.job>>
    BY <2>4
  <2>6. frame.body.job \in QueuedJobs
    BY <1>0, <2>5, HandledIsQueued
  <2>7. UNCHANGED <<QueuedJobs, DeadJobs>>
    BY <1>b, <2>2
  <2> QED BY <2>2, <2>6, <2>7
<1>4. CASE RunRecover \/ Shutdown \/ Crash \/ (LinkBreaks /\ UNCHANGED handlerVars)
  <2>1. mainQueue' = Requeued /\ unacked' = <<>> /\ UNCHANGED <<deadQueue, database>>
    BY <1>4 DEF RunRecover, Shutdown, Crash, NoHandler, LinkBreaks, CloseLink, handlerVars, historyVars
  <2> QED BY <1>1, <2>1
<1>5. CASE Brokering
  <2>0. UNCHANGED <<submitted, pending_, inflight_, database>>
    BY <1>5 DEF Brokering, handlerVars, historyVars, queueVars, outboxVars
  <2>1. CASE LinkBreaks
    BY <1>4, <1>5, <2>1 DEF Brokering
  <2>2. CASE BrokerNacks \/ BrokerReturns \/ BrokerConfirmsSome \/ DeadQueueDeleted
    <3>1. UNCHANGED <<mainQueue, unacked, deadQueue>>
      BY <2>2 DEF BrokerNacks, BrokerReturns, BrokerConfirmsSome, BrokerConfirms, DeadQueueDeleted
    <3> QED BY <1>b, <2>0, <3>1
  <2>3. CASE BrokerStores
    <3>1. /\ link = "up" /\ toBroker # <<>> /\ Head(toBroker).type = "publish" /\ unacked' = unacked
      BY <2>3 DEF BrokerStores
    <3>2. /\ received + 1 \in DOMAIN inflight_
          /\ inflight_[received + 1].body = Head(toBroker).body
      BY <1>0, <3>1, NextPublish
    <3>3. PICK body : body = Head(toBroker).body
      OBVIOUS
    <3>4. body.job \in OutboxJobs
      BY <3>2, <3>3 DEF OutboxJobs, JobsOf
    <3>5. AwaitedJobs' = AwaitedJobs
      BY <3>1 DEF AwaitedJobs
    <3>6. CASE Head(toBroker).queue = "main"
      <4>1. mainQueue' = Append(mainQueue, body) /\ deadQueue' = deadQueue
        BY <2>3, <3>3, <3>6 DEF BrokerStores
      <4>2. /\ \A i \in DOMAIN mainQueue : i \in DOMAIN mainQueue' /\ mainQueue'[i] = mainQueue[i]
            /\ \A i \in DOMAIN mainQueue' :
                  (i \in DOMAIN mainQueue /\ mainQueue'[i] = mainQueue[i]) \/ mainQueue'[i] = body
            /\ Len(mainQueue) + 1 \in DOMAIN mainQueue' /\ mainQueue'[Len(mainQueue) + 1] = body
        BY <1>a, <4>1
      <4>3. ReadyJobs' \subseteq ReadyJobs \cup {body.job}
        BY <4>2 DEF ReadyJobs
      <4>4. ReadyJobs \cup {body.job} \subseteq ReadyJobs'
        BY <4>2 DEF ReadyJobs
      <4>5. DeadJobs' = DeadJobs
        BY <4>1 DEF DeadJobs
      <4>6. QueuedJobs' = QueuedJobs \cup {body.job}
        BY <3>5, <4>3, <4>4 DEF QueuedJobs
      <4> QED BY <2>0, <3>4, <4>5, <4>6
    <3>7. CASE Head(toBroker).queue # "main"
      <4>1. mainQueue' = mainQueue /\ deadQueue' \in {deadQueue, deadQueue \cup {body}}
        BY <2>3, <3>3, <3>7 DEF BrokerStores
      <4>2. QueuedJobs' = QueuedJobs
        BY <3>5, <4>1 DEF QueuedJobs, ReadyJobs
      <4>3. DeadJobs' = DeadJobs \/ DeadJobs' = DeadJobs \cup {body.job}
        BY <4>1 DEF DeadJobs
      <4> QED BY <2>0, <3>4, <4>2, <4>3
    <3> QED BY <3>6, <3>7
  <2>4. CASE BrokerAcked
    <3>1. toBroker # <<>> /\ Head(toBroker).type = "ack" /\ UNCHANGED <<mainQueue, deadQueue>>
          /\ unacked' = IF Awaits(Head(toBroker).tag) THEN <<>> ELSE unacked
      BY <2>4 DEF BrokerAcked
    <3>2. 1 \in DOMAIN toBroker /\ toBroker[1] = Head(toBroker)
      BY <1>a, <3>1
    <3>3. Awaits(Head(toBroker).tag) /\ AwaitedJobs \subseteq CoveredJobs
      BY <1>0, <3>1, <3>2, AnswersAreAwaited DEF LossInv, AcksAreCurrent, Confirmed
    <3>4. unacked # <<>> /\ Len(unacked) = 1 /\ unacked' = <<>>
      BY <1>0, <3>1, <3>3 DEF Awaits, LinkShape
    <3>5. PICK job : job = unacked[1].body.job
      OBVIOUS
    <3>6. DOMAIN unacked = {1} /\ DOMAIN unacked' = {}
      BY <1>a, <3>4
    <3>7. AwaitedJobs = {job} /\ AwaitedJobs' = {}
      BY <3>5, <3>6 DEF AwaitedJobs
    <3>8. ReadyJobs' = ReadyJobs /\ DeadJobs' = DeadJobs
      BY <3>1 DEF ReadyJobs, DeadJobs
    <3>9. QueuedJobs' = ReadyJobs /\ QueuedJobs = ReadyJobs \cup {job}
      BY <3>7, <3>8 DEF QueuedJobs
    <3>10. CASE job \in ReadyJobs
      BY <2>0, <3>8, <3>9, <3>10
    <3>11. CASE job \notin ReadyJobs
      <4>1. job \in database \cup DeadJobs
        BY <3>3, <3>7, <3>11 DEF CoveredJobs
      <4>2. QueuedJobs' = QueuedJobs \ {job} /\ job \in QueuedJobs
        BY <3>9, <3>11
      <4> QED BY <2>0, <3>8, <4>1, <4>2
    <3> QED BY <3>10, <3>11
  <2>5. CASE BrokerRejected
    <3>1. CASE mainQueue' = mainQueue /\ unacked' = unacked
      BY <1>b, <2>0, <2>5, <3>1 DEF BrokerRejected
    <3>2. CASE mainQueue' = Requeued /\ unacked' = <<>>
      BY <1>1, <2>0, <2>5, <3>2 DEF BrokerRejected
    <3> QED BY <2>5, <3>1, <3>2 DEF BrokerRejected
  <2>6. CASE BrokerDelivers
    <3>1. /\ unacked = <<>> /\ mainQueue # <<>> /\ deadQueue' = deadQueue
          /\ unacked' = <<[tag |-> deliveries + 1, body |-> Head(mainQueue)]>>
          /\ mainQueue' = Tail(mainQueue)
      BY <2>6 DEF BrokerDelivers
    <3>2. PICK body : body = mainQueue[1]
      OBVIOUS
    <3>3. /\ Head(mainQueue) = body /\ 1 \in DOMAIN mainQueue
          /\ \A k \in DOMAIN mainQueue : k = 1 \/ (k - 1 \in DOMAIN mainQueue' /\ mainQueue'[k - 1] = mainQueue[k])
          /\ \A k \in DOMAIN mainQueue' : k + 1 \in DOMAIN mainQueue /\ mainQueue'[k] = mainQueue[k + 1]
      BY <1>a, <3>1, <3>2
    <3>4. DOMAIN unacked' = {1} /\ unacked'[1].body = body /\ DOMAIN unacked = {}
      BY <3>1, <3>3
    <3>5. AwaitedJobs' = {body.job} /\ AwaitedJobs = {} /\ DeadJobs' = DeadJobs
      BY <3>1, <3>4 DEF AwaitedJobs, DeadJobs
    <3>6. ReadyJobs \subseteq ReadyJobs' \cup {body.job}
      BY <3>2, <3>3 DEF ReadyJobs
    <3>7. ReadyJobs' \cup {body.job} \subseteq ReadyJobs
      BY <3>2, <3>3 DEF ReadyJobs
    <3> QED BY <2>0, <3>5, <3>6, <3>7 DEF QueuedJobs
  <2> QED BY <1>5, <2>1, <2>2, <2>3, <2>4, <2>5, <2>6 DEF Brokering
<1> QED BY <1>2, <1>3, <1>4, <1>5 DEF Next, Looping, Receiving

\* The initial state is one of the abstract queue.
LEMMA QueueInitially ==
    ASSUME Init
    PROVE  Queue!QueueInit
<1>1. TypeOK
  BY InitHolds DEF Inv
<1>2. /\ JobsIn(InOutbox) = OutboxJobs /\ JobsIn(InMainQueue) = QueuedJobs
      /\ JobsIn(InDeadQueue) = DeadJobs
  BY <1>1, QueueView
<1>3. OutboxJobs = {} /\ QueuedJobs = Legacy /\ DeadJobs = {} /\ database = {}
  BY BacklogIsReady DEF QueuedJobs
<1> QED BY <1>2, <1>3 DEF Queue!QueueInit

\* Every step of the code is a step of the abstract queue, or none.
LEMMA QueueStep ==
    ASSUME LossInv, LossInv', [Next]_vars
    PROVE  [Queue!QueueNext]_(Queue!queueState)
<1>0. TypeOK /\ Inv /\ BodiesKnown /\ SettlersExact /\ Carries /\ Confirmed
  BY DEF LossInv, DeliveryInv, Inv
<1>1. PICK o, q, d, s : /\ o = OutboxJobs /\ q = QueuedJobs /\ d = DeadJobs /\ s = database
                        /\ o = JobsIn(InOutbox) /\ q = JobsIn(InMainQueue) /\ d = JobsIn(InDeadQueue)
  BY <1>0, QueueView
<1>2. PICK oo, qq, dd, ss :
          /\ oo = OutboxJobs' /\ qq = QueuedJobs' /\ dd = DeadJobs' /\ ss = database'
          /\ oo = JobsIn(InOutbox)' /\ qq = JobsIn(InMainQueue)' /\ dd = JobsIn(InDeadQueue)'
  <2>1. (TypeOK => /\ JobsIn(InOutbox) = OutboxJobs /\ JobsIn(InMainQueue) = QueuedJobs
                   /\ JobsIn(InDeadQueue) = DeadJobs)'
    BY QueueView, PTL
  <2>2. TypeOK'
    BY DEF LossInv, DeliveryInv, Inv
  <2> QED BY <2>1, <2>2
<1>3. SafeJobs = q \cup d \cup s
  BY <1>1 DEF SafeJobs, CoveredJobs, QueuedJobs
<1>4. ASSUME qq = q, dd = d, ss = s
      PROVE  [Queue!QueueNext]_(Queue!queueState)
  <2>1. CASE oo = o
    BY <1>1, <1>2, <1>4, <2>1 DEF Queue!queueState
  <2>2. CASE oo = {}
    <3>1. Queue!LoseOutbox
      BY <1>1, <1>2, <1>4, <2>2 DEF Queue!LoseOutbox
    <3> QED BY <3>1 DEF Queue!QueueNext
  <2>3. CASE PublishEnqueue /\ oo = o \cup {publisher.job}
    <3>1. publisher.job \in Jobs \ (o \cup (q \cup d \cup s))
      BY <1>0, <1>1, <1>3, <2>3, AdmittedIsNew
    <3>2. Queue!Accept(publisher.job)
      BY <1>1, <1>2, <1>4, <2>3, <3>1 DEF Queue!Accept, Queue!Held
    <3> QED BY <3>1, <3>2 DEF Queue!QueueNext
  <2>4. ASSUME NEW timer \in retryTimers, IsCurrent(timer.gen), oo = o \cup {timer.body.job}
        PROVE  [Queue!QueueNext]_(Queue!queueState)
    <3>1. <<timer.tag, timer.body.job>> \in Handled
      BY <2>4, HandledItems DEF IsCurrent
    <3>2. PICK x \in Handled : x = <<timer.tag, timer.body.job>>
      BY <3>1
    <3>3. timer.body.job \in q
      BY <1>0, <1>1, <3>2, HandledIsQueued
    <3>4. timer.body.job \in Jobs \cup Legacy
      BY <1>0, <2>4 DEF TypeOK, QueueTypeOK, RetryTimer, Body, AllJobs
    <3>5. Queue!Replace(timer.body.job)
      BY <1>1, <1>2, <1>4, <2>4, <3>3 DEF Queue!Replace
    <3> QED BY <3>4, <3>5 DEF Queue!QueueNext
  <2>5. CASE oo \subseteq o /\ o \subseteq oo \cup (q \cup d \cup s)
    <3>1. PICK jobs : jobs = o \ oo
      OBVIOUS
    <3>2. jobs \subseteq o /\ jobs \subseteq q \cup d \cup s /\ oo = o \ jobs
      BY <2>5, <3>1
    <3>3. Queue!Forget(jobs)
      BY <1>1, <1>2, <1>4, <3>2 DEF Queue!Forget, Queue!Held
    <3>4. jobs \in SUBSET JobsIn(InOutbox)
      BY <1>1, <3>2
    <3> QED BY <3>3, <3>4 DEF Queue!QueueNext
  <2> QED BY <1>0, <1>1, <1>2, <1>3, <2>1, <2>2, <2>3, <2>4, <2>5, OutboxStep
<1>5. ASSUME UNCHANGED <<submitted, pending_, inflight_>>
      PROVE  oo = o
  BY <1>1, <1>2, <1>5 DEF OutboxJobs, JobsOf
<1>6. ASSUME NEW job \in o, oo = o, ss = s,
             (qq = q \cup {job} /\ dd = d) \/ (dd = d \cup {job} /\ qq = q)
      PROVE  [Queue!QueueNext]_(Queue!queueState)
  <2>1. Queue!Deposit(job)
    BY <1>1, <1>2, <1>6 DEF Queue!Deposit
  <2>2. job \in Jobs \cup Legacy
    BY <1>1, <1>6 DEF JobsIn, AllJobs
  <2> QED BY <2>1, <2>2 DEF Queue!QueueNext
<1>7. ASSUME NEW job \in q \cap (s \cup d), oo = o, ss = s, dd = d, qq = q \ {job}
      PROVE  [Queue!QueueNext]_(Queue!queueState)
  <2>1. Queue!Remove(job)
    BY <1>1, <1>2, <1>7 DEF Queue!Remove
  <2>2. job \in Jobs \cup Legacy
    BY <1>1, <1>7 DEF JobsIn, AllJobs
  <2> QED BY <2>1, <2>2 DEF Queue!QueueNext
<1>8. ASSUME NEW job \in q \cap Jobs, oo = o, qq = q, dd = d, ss = s \cup {job}
      PROVE  [Queue!QueueNext]_(Queue!queueState)
  <2>1. Queue!Store(job)
    BY <1>1, <1>2, <1>8 DEF Queue!Store
  <2> QED BY <1>8, <2>1 DEF Queue!QueueNext
<1>9. \/ UNCHANGED <<QueuedJobs, DeadJobs, database>>
      \/ /\ UNCHANGED <<submitted, pending_, inflight_, database>>
         /\ \E job \in OutboxJobs :
               \/ QueuedJobs' = QueuedJobs \cup {job} /\ DeadJobs' = DeadJobs
               \/ DeadJobs' = DeadJobs \cup {job} /\ QueuedJobs' = QueuedJobs
      \/ /\ UNCHANGED <<submitted, pending_, inflight_, database, DeadJobs>>
         /\ \E job \in QueuedJobs \cap (database \cup DeadJobs) : QueuedJobs' = QueuedJobs \ {job}
      \/ /\ UNCHANGED <<submitted, pending_, inflight_, QueuedJobs, DeadJobs>>
         /\ \E job \in QueuedJobs \cap Jobs : database' = database \cup {job}
  BY QueuesStep
<1>10. \/ qq = q /\ dd = d /\ ss = s
       \/ oo = o /\ ss = s /\ \E job \in o : \/ qq = q \cup {job} /\ dd = d
                                             \/ dd = d \cup {job} /\ qq = q
       \/ oo = o /\ ss = s /\ dd = d /\ \E job \in q \cap (s \cup d) : qq = q \ {job}
       \/ oo = o /\ qq = q /\ dd = d /\ \E job \in q \cap Jobs : ss = s \cup {job}
  BY <1>1, <1>2, <1>5, <1>9
<1> QED BY <1>4, <1>6, <1>7, <1>8, <1>10

\* MQManager keeps the promise that the chat helper is built on: with the broker and
\* executeMysql it implements a queue that delivers at least once.  publish puts an exchange
\* into memory, a confirm takes it out only when a queue or the table holds it, and an
\* acknowledged delivery leaves sql_queue only when it is stored or quarantined.
THEOREM QueueCorrect == Spec => ImplementsQueue
<1>1. Init => Queue!QueueInit
  BY QueueInitially
<1>2. LossInv /\ LossInv' /\ [Next]_vars => [Queue!QueueNext]_(Queue!queueState)
  BY QueueStep
<1> QED BY <1>1, <1>2, LossInvCorrect, PTL DEF Spec, ImplementsQueue, Queue!QueueSpec

=============================================================================
