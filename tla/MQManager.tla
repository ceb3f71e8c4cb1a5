------------------------------ MODULE MQManager ------------------------------
(***************************************************************************)
(* MQManager::Handler, the bridge between the chat server's threads and    *)
(* RabbitMQ, with the consumer callback executeMysql that stores a chat    *)
(* exchange in MySQL.                                                      *)
(*                                                                         *)
(* An HTTP thread calls MQManager::publish, which reserves one of          *)
(* MaxPending places and queues a functor for the event loop.  The loop    *)
(* moves publications from pending_ to inflight_, at most MaxInflight at a *)
(* time, and forgets one when the broker confirms it.  The same loop       *)
(* consumes the queue: a delivery is acknowledged when it is stored, and   *)
(* is otherwise replaced, after a delay, by a publication to the queue     *)
(* (next attempt) or to the quarantine queue; the original is acknowledged *)
(* only when the replacement is confirmed.  Every error ends in            *)
(* connectionFailed, which rebuilds the connection and publishes every     *)
(* unconfirmed publication again.                                          *)
(*                                                                         *)
(* Functors queued with queueInLoop are kept in one queue per kind, and    *)
(* the loop may take the next one of any kind.  Delays are not modelled: a *)
(* timer that is set may fire at any later time.                           *)
(***************************************************************************)
EXTENDS Amqp

CONSTANTS MaxPending,  \* 10000: publications admitted and not yet confirmed
          MaxInflight  \* 128: publications sent and not yet confirmed

ASSUME PendingAssumption  == MaxPending \in Nat \ {0}
ASSUME InflightAssumption == MaxInflight \in Nat \ {0}

VARIABLES
    handler_,            \* MQManager::handler_ is set (and alive_)
    connection_,         \* "none", "connecting", or "open": onConnected has run
    producerSetup,       \* last callback of setupProducer that has run
    consumerSetup,       \* last callback of startConsumer that has run
    producerReady_,
    recovering_,
    recoverQueued,       \* the functor queued by connectionFailed
    reconnectScheduled_,
    generation_,
    nextPublishTag_,
    outstanding_,
    pending_,
    inflight_,
    publisher,           \* the thread inside MQManager::publish (it holds mutex_)
    submitted,           \* publications whose loop functor has not run
    completions,         \* completeDelivery functors that have not run
    retryTimers,         \* runAfter timers of completeDelivery
    database,            \* exchanges stored in chat_message
    offered,             \* history: jobs publish was called for
    admitted,            \* history: jobs this process admitted (publish returned true)
    confirmed,           \* history: jobs with a confirmed publication
    failures             \* history: failed persist calls of each job

setupVars   == <<connection_, producerSetup, consumerSetup>>
recoverVars == <<producerReady_, recovering_, recoverQueued>>
timerVars   == <<reconnectScheduled_, retryTimers>>
outboxVars  == <<pending_, inflight_, nextPublishTag_>>
queueVars   == <<publisher, submitted, completions>>
historyVars == <<database, offered, admitted, confirmed, failures>>
handlerVars == <<handler_, setupVars, recoverVars, timerVars, generation_, outboxVars,
                 outstanding_, queueVars, historyVars>>
vars == <<brokerVars, faults, handlerVars>>

-----------------------------------------------------------------------------
(* Types *)

\* The delivery a publication replaces: its completion captures the pair.
NoDelivery == [gen |-> 0, tag |-> 0]
Source     == {NoDelivery} \cup [gen : Nat, tag : Nat \ {0}]

Publication == [queue : Queues, body : Body, source : Source]
Disposition == {"Ack", "Retry", "Reject"}
Completion  == [gen : Nat, tag : Nat \ {0}, result : Disposition, body : Body]
RetryTimer  == [gen : Nat, tag : Nat \ {0}, queue : Queues, body : Body]

Idle      == [pc |-> "idle"]
Publisher == {Idle} \cup [pc : {"cas"}, job : Jobs, count : Nat]
                    \cup [pc : {"enqueue"}, job : Jobs]

FirstBody(job) == [job |-> job, attempt |-> 0]

-----------------------------------------------------------------------------
(* Helpers *)

\* The i-th key of the ordered map inflight_.
TagAt(tags, i) == CHOOSE t \in tags : Cardinality({u \in tags : u <= t}) = i

\* Values of an ordered map, or what F makes of them, in the order of the keys.
InTagOrder(tags, F(_)) == [i \in 1..Cardinality(tags) |-> F(TagAt(tags, i))]

Smaller(a, b) == IF a <= b THEN a ELSE b

\* Mutant: steps of an earlier connection are let through.
IsCurrentAlways(gen) == TRUE

IsCurrent(gen) == gen = generation_

\* connectionFailed: the first failure of a connection queues the recovery.
ConnectionFailed ==
    /\ recovering_' = TRUE
    /\ recoverQueued' = (recoverQueued \/ ~recovering_)
    /\ producerReady_' = (producerReady_ /\ recovering_)

MayPublish(ready) == ready /\ ~recovering_ /\ connection_ = "open"

\* drainPending's loop sends `count` publications.
SendBatch(waiting, flying, frames, count) ==
    /\ pending_' = SubSeq(waiting, count + 1, Len(waiting))
    /\ inflight_' = [t \in DOMAIN flying \cup nextPublishTag_..(nextPublishTag_ + count - 1) |->
                       IF t \in DOMAIN flying THEN flying[t]
                                              ELSE waiting[t - nextPublishTag_ + 1]]
    /\ nextPublishTag_' = nextPublishTag_ + count
    /\ toBroker' = Sent(frames \o
                        [i \in 1..count |-> PublishFrame(waiting[i].queue, waiting[i].body)])

\* How many publications the loop can send before the queue or the window ends.
BatchSize(ready, waiting, flying) ==
    IF MayPublish(ready) /\ Cardinality(DOMAIN flying) < MaxInflight
    THEN Smaller(Len(waiting), MaxInflight - Cardinality(DOMAIN flying))
    ELSE 0

\* drainPending, after the caller has written `frames`: it sends what the window
\* allows, or stops early at a publish that AMQP refuses.
DrainPending(ready, waiting, flying, frames) ==
    \/ /\ SendBatch(waiting, flying, frames, BatchSize(ready, waiting, flying))
       /\ producerReady_' = ready
       /\ UNCHANGED <<faults, recovering_, recoverQueued>>
    \/ \E count \in 0..(BatchSize(ready, waiting, flying) - 1) :
          /\ Fault
          /\ SendBatch(waiting, flying, frames, count)
          /\ ConnectionFailed

-----------------------------------------------------------------------------
(* MQManager::publish, on an HTTP thread.  mutex_ admits one thread at a time. *)

\* publish returns false when there is no handler; otherwise outstanding_ is read.
PublishLoad(job) ==
    /\ publisher = Idle
    /\ job \in Jobs \ offered
    /\ offered' = offered \cup {job}
    /\ publisher' = IF handler_ THEN [pc |-> "cas", job |-> job, count |-> outstanding_]
                                ELSE Idle
    /\ UNCHANGED <<brokerVars, faults, setupVars, recoverVars, timerVars, outboxVars,
                   handler_, generation_, outstanding_, submitted, completions,
                   database, admitted, confirmed, failures>>

\* Mutant: a plain store in place of the compare-and-swap.
CasSucceedsAlways == TRUE

\* compare_exchange: nobody changed outstanding_ since it was read.
CasSucceeds == publisher.count = outstanding_

\* One round of the compare-and-swap loop: refuse, reserve, or reload.
PublishReserve ==
    /\ publisher.pc = "cas"
    /\ \/ /\ publisher.count >= MaxPending
          /\ publisher' = Idle
          /\ UNCHANGED outstanding_
       \/ /\ publisher.count < MaxPending /\ CasSucceeds
          /\ outstanding_' = publisher.count + 1
          /\ publisher' = [pc |-> "enqueue", job |-> publisher.job]
       \/ /\ publisher.count < MaxPending /\ ~CasSucceeds
          /\ publisher' = [publisher EXCEPT !.count = outstanding_]
          /\ UNCHANGED outstanding_
    /\ UNCHANGED <<brokerVars, faults, setupVars, recoverVars, timerVars, outboxVars,
                   historyVars, handler_, generation_, submitted, completions>>

\* queueInLoop, and publish returns true.
PublishEnqueue ==
    /\ publisher.pc = "enqueue"
    /\ submitted' = Append(submitted, [queue |-> "main", body |-> FirstBody(publisher.job),
                                       source |-> NoDelivery])
    /\ admitted' = admitted \cup {publisher.job}
    /\ publisher' = Idle
    /\ UNCHANGED <<brokerVars, faults, setupVars, recoverVars, timerVars, outboxVars,
                   handler_, generation_, outstanding_, completions, database, offered,
                   confirmed, failures>>

-----------------------------------------------------------------------------
(* Event-loop functors and timers *)

\* The functor of schedulePublish.
RunSubmitted ==
    /\ submitted # <<>>
    /\ submitted' = Tail(submitted)
    /\ DrainPending(producerReady_, Append(pending_, Head(submitted)), inflight_, <<>>)
    /\ UNCHANGED <<storeVars, toClient, setupVars, timerVars, historyVars, handler_,
                   generation_, outstanding_, publisher, completions>>

Replaces(done, queue, body) ==
    [gen |-> done.gen, tag |-> done.tag, queue |-> queue, body |-> body]

\* Mutant: gives up one attempt early.
ReplacementTooEarly(done) ==
    IF done.result = "Retry" /\ done.body.attempt + 1 < MaxAttempt
    THEN Replaces(done, "main", [done.body EXCEPT !.attempt = @ + 1])
    ELSE Replaces(done, "dead", done.body)

\* What completeDelivery publishes in place of a delivery that was not stored.
Replacement(done) ==
    IF done.result = "Retry" /\ done.body.attempt < MaxAttempt
    THEN Replaces(done, "main", [done.body EXCEPT !.attempt = @ + 1])
    ELSE Replaces(done, "dead", done.body)

MayComplete(done) == IsCurrent(done.gen) /\ connection_ = "open" /\ ~recovering_

\* Mutant: the original is acknowledged before its replacement is confirmed.
AcksNowAlways(done) == TRUE

AcksNow(done) == done.result = "Ack"

\* completeDelivery.
RunCompletion ==
    /\ completions # <<>>
    /\ completions' = Tail(completions)
    /\ LET done == Head(completions)
       IN  /\ toBroker' = IF MayComplete(done) /\ AcksNow(done)
                          THEN Sent(<<AckFrame(done.tag)>>) ELSE toBroker
           /\ retryTimers' = IF MayComplete(done) /\ done.result # "Ack"
                             THEN retryTimers \cup {Replacement(done)} ELSE retryTimers
    /\ UNCHANGED <<storeVars, toClient, faults, setupVars, recoverVars, outboxVars,
                   historyVars, handler_, reconnectScheduled_, generation_,
                   outstanding_, publisher, submitted>>

\* confirmed(false): the delivery goes back to its queue.
GivenBack(timer) ==
    IF connection_ = "open" THEN Sent(<<RejectFrame(timer.tag)>>) ELSE toBroker

\* completeDelivery's timer: publish the replacement, or give the delivery back
\* when there is no place for it.
RetryTimerFires(timer) ==
    /\ timer \in retryTimers
    /\ retryTimers' = retryTimers \ {timer}
    /\ \/ /\ ~IsCurrent(timer.gen)
          /\ UNCHANGED <<toBroker, outstanding_, submitted>>
       \/ /\ IsCurrent(timer.gen) /\ outstanding_ < MaxPending
          /\ outstanding_' = outstanding_ + 1
          /\ submitted' = Append(submitted, [queue |-> timer.queue, body |-> timer.body,
                                    source |-> [gen |-> timer.gen, tag |-> timer.tag]])
          /\ UNCHANGED toBroker
       \/ /\ IsCurrent(timer.gen) /\ outstanding_ >= MaxPending
          /\ toBroker' = GivenBack(timer)
          /\ UNCHANGED <<outstanding_, submitted>>
    /\ UNCHANGED <<storeVars, toClient, faults, setupVars, recoverVars, outboxVars,
                   historyVars, handler_, reconnectScheduled_, generation_, publisher,
                   completions>>

\* Mutant: unconfirmed publications are forgotten on disconnect.
ReclaimedNothing == pending_

\* disconnect gives every unconfirmed publication back to the head of pending_.
Reclaimed == InTagOrder(DOMAIN inflight_, LAMBDA t : inflight_[t]) \o pending_

\* The functor of connectionFailed: disconnect, then scheduleReconnect.
RunRecover ==
    /\ recoverQueued
    /\ recoverQueued' = FALSE
    /\ generation_' = generation_ + 1
    /\ producerReady_' = FALSE
    /\ pending_' = Reclaimed
    /\ inflight_' = <<>>
    /\ nextPublishTag_' = 1
    /\ connection_' = "none"
    /\ producerSetup' = "none"
    /\ consumerSetup' = "none"
    /\ reconnectScheduled_' = TRUE
    /\ CloseLink("none", <<>>)
    /\ UNCHANGED <<faults, queueVars, historyVars, handler_, recovering_, retryTimers,
                   outstanding_>>

\* Mutant: connect leaves recovering_ set.
ConnectStuck == connection_' = "connecting" /\ UNCHANGED recovering_

Connect == connection_' = "connecting" /\ recovering_' = FALSE

\* scheduleReconnect's timer, and connect.
ReconnectTimerFires ==
    /\ reconnectScheduled_
    /\ reconnectScheduled_' = FALSE
    /\ Connect
    /\ UNCHANGED <<brokerVars, faults, outboxVars, queueVars, historyVars, handler_,
                   producerSetup, consumerSetup, producerReady_, recoverQueued,
                   retryTimers, generation_, outstanding_>>

-----------------------------------------------------------------------------
(* AMQP callbacks of the connection and of the set-up of its two channels *)

\* onConnected opens both channels.
OnConnected ==
    /\ connection_ = "connecting" /\ ~recovering_
    /\ connection_' = "open"
    /\ producerSetup' = "opening"
    /\ consumerSetup' = "opening"
    /\ OpenLink
    /\ UNCHANGED <<faults, recoverVars, timerVars, outboxVars, queueVars, historyVars,
                   handler_, generation_, outstanding_>>

\* The constructor throws, or onError reports a refused connection or a channel
\* error; the connection to the broker may still be up.
OnError ==
    /\ connection_ # "none" /\ ~recovering_
    /\ Fault
    /\ ConnectionFailed
    /\ UNCHANGED <<brokerVars, setupVars, timerVars, outboxVars, queueVars, historyVars,
                   handler_, generation_, outstanding_>>

\* onLost, or muduo's close callback, once the connection has been cut.
OnLost ==
    /\ link = "broken" /\ ~recovering_
    /\ ConnectionFailed
    /\ UNCHANGED <<brokerVars, faults, setupVars, timerVars, outboxVars, queueVars,
                   historyVars, handler_, generation_, outstanding_>>

\* Producer channel: declare both queues in turn, then select confirms.
DeclareOnProducer(stage, queue, next) ==
    /\ link = "up" /\ producerSetup = stage
    /\ producerSetup' = next
    /\ declared' = declared \cup {queue}
    /\ UNCHANGED <<link, toBroker, toClient, mainQueue, deadQueue, unacked, deliveries,
                   received, unconfirmed, faults, recoverVars, timerVars, outboxVars,
                   queueVars, historyVars, handler_, connection_, consumerSetup,
                   generation_, outstanding_>>

ProducerMainDeclared == DeclareOnProducer("opening", "main", "main")
ProducerDeadDeclared == DeclareOnProducer("main", "dead", "dead")

\* confirmSelect succeeds: publishing may start.
ProducerConfirmSelected ==
    /\ link = "up" /\ producerSetup = "dead"
    /\ producerSetup' = "confirm"
    /\ DrainPending(TRUE, pending_, inflight_, <<>>)
    /\ UNCHANGED <<storeVars, toClient, timerVars, queueVars, historyVars, handler_,
                   connection_, consumerSetup, generation_, outstanding_>>

\* Consumer channel: declare the queue, set the prefetch, consume.
ConsumerStarted ==
    /\ link = "up" /\ consumerSetup = "opening"
    /\ consumerSetup' = "consuming"
    /\ declared' = declared \cup {"main"}
    /\ UNCHANGED <<link, toBroker, toClient, mainQueue, deadQueue, unacked, deliveries,
                   received, unconfirmed, faults, recoverVars, timerVars, outboxVars,
                   queueVars, historyVars, handler_, connection_, producerSetup,
                   generation_, outstanding_>>

-----------------------------------------------------------------------------
(* Frames of the broker.  A buffer that is being parsed is dispatched to its end *)
(* even after connectionFailed, so none of these actions waits for recovery.     *)

Receives(type) == toClient # <<>> /\ Head(toClient).type = type

\* onConsumerMessage with executeMysql: `stored` tells whether the INSERT took
\* effect, `result` what the callback passes to done.  The INSERT may take effect
\* and still be reported as failed.
Delivered(stored, result) ==
    LET frame == Head(toClient)
        job   == frame.body.job
    IN  /\ database' = IF stored THEN database \cup {job} ELSE database
        /\ failures' = IF result = "Retry" THEN [failures EXCEPT ![job] = @ + 1] ELSE failures
        /\ completions' = Append(completions, [gen |-> generation_, tag |-> frame.tag,
                                               result |-> result, body |-> frame.body])
        /\ toClient' = Tail(toClient)
        /\ UNCHANGED <<storeVars, toBroker, setupVars, recoverVars, timerVars,
                       outboxVars, handler_, generation_, outstanding_, publisher,
                       submitted, offered, admitted, confirmed>>

Persisted ==
    /\ Receives("deliver") /\ Head(toClient).body.job \in Jobs
    /\ Delivered(TRUE, "Ack")
    /\ UNCHANGED faults

PersistFails ==
    /\ Receives("deliver") /\ Head(toClient).body.job \in Jobs
    /\ \E stored \in BOOLEAN : Delivered(stored, "Retry")
    /\ Fault

ParseFails ==
    /\ Receives("deliver") /\ Head(toClient).body.job \in Legacy
    /\ Delivered(FALSE, "Reject")
    /\ UNCHANGED faults

Confirmable(frame) ==
    {t \in DOMAIN inflight_ : IF frame.multiple THEN t <= frame.tag ELSE t = frame.tag}

\* Mutant: the completion of a confirmed replacement is lost.
CompletionAcksNone(tags) == <<>>

\* Completions that still belong to this connection acknowledge their delivery.
CompletionAcks(tags) ==
    LET owners == {t \in tags : /\ inflight_[t].source # NoDelivery
                                /\ IsCurrent(inflight_[t].source.gen)}
    IN  InTagOrder(owners, LAMBDA t : AckFrame(inflight_[t].source.tag))

\* Mutant: no drainPending after a confirm.
ConfirmWithoutDrain(frame) ==
    LET tags == Confirmable(frame)
    IN  /\ outstanding_' = outstanding_ - Cardinality(tags)
        /\ confirmed' = confirmed \cup {inflight_[t].body.job : t \in tags}
        /\ inflight_' = [t \in DOMAIN inflight_ \ tags |-> inflight_[t]]
        /\ toBroker' = Sent(CompletionAcks(tags))
        /\ UNCHANGED <<faults, recoverVars, pending_, nextPublishTag_>>

\* confirm(tag, multiple, true), outside recovery.
Confirm(frame) ==
    LET tags == Confirmable(frame)
    IN  /\ outstanding_' = outstanding_ - Cardinality(tags)
        /\ confirmed' = confirmed \cup {inflight_[t].body.job : t \in tags}
        /\ DrainPending(producerReady_, pending_,
                        [t \in DOMAIN inflight_ \ tags |-> inflight_[t]],
                        CompletionAcks(tags))

IgnoresConfirm == recovering_

OnAck ==
    /\ Receives("confirm")
    /\ toClient' = Tail(toClient)
    /\ \/ ~IgnoresConfirm /\ Confirm(Head(toClient))
       \/ IgnoresConfirm /\ UNCHANGED <<toBroker, faults, recoverVars, outboxVars,
                                        outstanding_, confirmed>>
    /\ UNCHANGED <<storeVars, setupVars, timerVars, queueVars, handler_, generation_,
                   database, offered, admitted, failures>>

\* Mutant: a nack or a return is only logged.
PublishRefusedLogged == UNCHANGED recoverVars

PublishRefused == ConnectionFailed

\* confirm(tag, multiple, false), and the recall of an unroutable publish.
OnNackOrReturn ==
    /\ Receives("nack") \/ Receives("return")
    /\ toClient' = Tail(toClient)
    /\ PublishRefused
    /\ UNCHANGED <<storeVars, toBroker, faults, setupVars, timerVars, outboxVars,
                   queueVars, historyVars, handler_, generation_, outstanding_>>

-----------------------------------------------------------------------------
(* Start, stop and crash *)

\* The state of a handler that does not exist.  What its functors and timers
\* would still do is nothing: they hold a weak pointer and test alive_.
NoHandler ==
    /\ handler_' = FALSE
    /\ connection_' = "none" /\ producerSetup' = "none" /\ consumerSetup' = "none"
    /\ producerReady_' = FALSE /\ recovering_' = FALSE /\ recoverQueued' = FALSE
    /\ reconnectScheduled_' = FALSE /\ retryTimers' = {}
    /\ generation_' = 0 /\ nextPublishTag_' = 1
    /\ outstanding_' = 0 /\ pending_' = <<>> /\ inflight_' = <<>>
    /\ submitted' = <<>> /\ completions' = <<>>
    /\ publisher' = Idle
    /\ admitted' = {}
    /\ CloseLink("none", <<>>)
    /\ UNCHANGED <<database, offered, confirmed, failures>>

\* MQManager::start: a new handler connects.
Start ==
    /\ ~handler_
    /\ handler_' = TRUE
    /\ Connect
    /\ UNCHANGED <<brokerVars, faults, timerVars, outboxVars, queueVars, historyVars,
                   producerSetup, consumerSetup, producerReady_, recoverQueued,
                   generation_, outstanding_>>

\* MQManager::shutdown needs mutex_, so no thread is inside publish.
Shutdown ==
    /\ handler_ /\ publisher = Idle
    /\ Fault
    /\ NoHandler

\* The process dies at any point.
Crash ==
    /\ handler_
    /\ Fault
    /\ NoHandler

-----------------------------------------------------------------------------
(* The specification *)

Init ==
    /\ \E backlog \in [1..Cardinality(Legacy) -> {FirstBody(j) : j \in Legacy}] :
          /\ \A a, b \in DOMAIN backlog : a # b => backlog[a] # backlog[b]
          /\ AmqpInit(backlog)
    /\ handler_ = FALSE
    /\ connection_ = "none" /\ producerSetup = "none" /\ consumerSetup = "none"
    /\ producerReady_ = FALSE /\ recovering_ = FALSE /\ recoverQueued = FALSE
    /\ reconnectScheduled_ = FALSE /\ retryTimers = {}
    /\ generation_ = 0 /\ nextPublishTag_ = 1
    /\ outstanding_ = 0 /\ pending_ = <<>> /\ inflight_ = <<>>
    /\ submitted = <<>> /\ completions = <<>>
    /\ publisher = Idle
    /\ database = {} /\ offered = {} /\ admitted = {} /\ confirmed = {}
    /\ failures = [j \in AllJobs |-> 0]

Publishing == (\E job \in Jobs : PublishLoad(job)) \/ PublishReserve \/ PublishEnqueue

Looping ==
    \/ RunSubmitted \/ RunCompletion \/ RunRecover \/ ReconnectTimerFires
    \/ \E timer \in retryTimers : RetryTimerFires(timer)

Connecting ==
    \/ OnConnected \/ OnError \/ OnLost
    \/ ProducerMainDeclared \/ ProducerDeadDeclared \/ ProducerConfirmSelected
    \/ ConsumerStarted

Receiving == Persisted \/ PersistFails \/ ParseFails \/ OnAck \/ OnNackOrReturn

BrokerConfirmsSome ==
    \E tag \in unconfirmed, multiple \in BOOLEAN : BrokerConfirms(tag, multiple)

Brokering ==
    /\ \/ LinkBreaks
       \/ BrokerStores \/ BrokerNacks \/ BrokerReturns \/ BrokerConfirmsSome
       \/ BrokerAcked \/ BrokerRejected
       \/ consumerSetup = "consuming" /\ BrokerDelivers
       \/ DeadQueueDeleted
    /\ UNCHANGED handlerVars

Next == Publishing \/ Looping \/ Connecting \/ Receiving \/ Brokering
        \/ Start \/ Shutdown \/ Crash

Spec == Init /\ [][Next]_vars

\* A thread inside publish, the event loop, the broker and the supervisor that
\* restarts the container all keep running; no fault is ever forced.
Fairness ==
    /\ WF_vars(PublishReserve) /\ WF_vars(PublishEnqueue)
    /\ WF_vars(RunSubmitted) /\ WF_vars(RunCompletion) /\ WF_vars(RunRecover)
    /\ WF_vars(ReconnectTimerFires)
    /\ WF_vars(\E timer \in retryTimers : RetryTimerFires(timer))
    /\ WF_vars(OnConnected) /\ WF_vars(OnLost)
    /\ WF_vars(ProducerMainDeclared) /\ WF_vars(ProducerDeadDeclared)
    /\ WF_vars(ProducerConfirmSelected) /\ WF_vars(ConsumerStarted)
    /\ WF_vars(Persisted \/ ParseFails) /\ WF_vars(OnAck) /\ WF_vars(OnNackOrReturn)
    /\ WF_vars((BrokerStores \/ BrokerReturns) /\ UNCHANGED handlerVars)
    /\ WF_vars(BrokerConfirmsSome /\ UNCHANGED handlerVars)
    /\ WF_vars((BrokerAcked \/ BrokerRejected) /\ UNCHANGED handlerVars)
    /\ WF_vars(consumerSetup = "consuming" /\ BrokerDelivers /\ UNCHANGED handlerVars)
    /\ WF_vars(Start)

FairSpec == Spec /\ Fairness

-----------------------------------------------------------------------------
(* Properties *)

ControlTypeOK ==
    /\ handler_ \in BOOLEAN
    /\ connection_ \in {"none", "connecting", "open"}
    /\ producerSetup \in {"none", "opening", "main", "dead", "confirm"}
    /\ consumerSetup \in {"none", "opening", "consuming"}
    /\ producerReady_ \in BOOLEAN /\ recovering_ \in BOOLEAN
    /\ recoverQueued \in BOOLEAN /\ reconnectScheduled_ \in BOOLEAN
    /\ generation_ \in Nat

OutboxTypeOK ==
    /\ nextPublishTag_ \in Nat \ {0}
    /\ pending_ \in Seq(Publication)
    /\ DOMAIN inflight_ \subseteq 1..(nextPublishTag_ - 1)
    /\ inflight_ \in [DOMAIN inflight_ -> Publication]

QueueTypeOK ==
    /\ outstanding_ \in Nat
    /\ publisher \in Publisher
    /\ submitted \in Seq(Publication)
    /\ completions \in Seq(Completion)
    /\ retryTimers \in SUBSET RetryTimer

HistoryTypeOK ==
    /\ database \in SUBSET Jobs /\ offered \in SUBSET Jobs
    /\ admitted \in SUBSET Jobs /\ confirmed \in SUBSET AllJobs
    /\ failures \in [AllJobs -> Nat]

\* Every variable keeps its type; the keys of inflight_ are tags already given out.
TypeOK ==
    AmqpTypeOK /\ ControlTypeOK /\ OutboxTypeOK /\ QueueTypeOK /\ HistoryTypeOK

Holds(seq, job) == \E i \in DOMAIN seq : seq[i].body.job = job

InOutbox(job) == Holds(submitted, job) \/ Holds(pending_, job) \/ Holds(inflight_, job)

InMainQueue(job) ==
    (\E i \in DOMAIN mainQueue : mainQueue[i].job = job) \/ Holds(unacked, job)

InDeadQueue(job) == \E body \in deadQueue : body.job = job

InBroker(job) == InMainQueue(job) \/ InDeadQueue(job)

\* No admitted exchange is lost while the process lives, and none of the backlog
\* ever is: it is in the outbox, in a broker queue, or stored.  This is what
\* `publish` returning true, the resend in disconnect and the confirm-before-ACK
\* rule of completeDelivery add up to.  What the broker has confirmed is in a queue of
\* the broker or stored for ever after, whatever becomes of the process.
NoLoss ==
    /\ \A job \in admitted \cup Legacy : InOutbox(job) \/ InBroker(job) \/ job \in database
    /\ \A job \in confirmed : InBroker(job) \/ job \in database

\* A thread between its compare-and-swap and queueInLoop holds one place.
Reserved == IF publisher.pc = "enqueue" THEN 1 ELSE 0

\* outstanding_ counts exactly the places in use (a thread between its
\* compare-and-swap and queueInLoop included), so admission neither leaks places
\* nor admits more than MaxPending.
OutstandingExact ==
    /\ outstanding_ = Reserved + Len(submitted) + Len(pending_) + Cardinality(DOMAIN inflight_)
    /\ outstanding_ <= MaxPending

Count(seq, Test(_)) == Cardinality({i \in DOMAIN seq : Test(seq[i])})

\* The steps that will settle delivery `tag` of the present connection.
Settlers(tag) ==
    LET Owns(item) == item.source = [gen |-> generation_, tag |-> tag]
    IN  Count(toClient, LAMBDA f : f.type = "deliver" /\ f.tag = tag)
        + Count(completions, LAMBDA c : c.gen = generation_ /\ c.tag = tag)
        + Cardinality({t \in retryTimers : t.gen = generation_ /\ t.tag = tag})
        + Count(submitted, Owns) + Count(pending_, Owns) + Count(inflight_, Owns)
        + Count(toBroker, LAMBDA f : f.type \in {"ack", "reject"} /\ f.tag = tag)

\* Until the connection fails, the delivery the broker waits for is settled by
\* exactly one pending step.  None would stop the consumer for good (the prefetch
\* is one); two would acknowledge a tag twice, which closes the channel.
OneSettler ==
    link = "up" /\ ~recovering_ =>
        \A i \in DOMAIN unacked : Settlers(unacked[i].tag) = 1

\* Every acknowledgement on the wire is for the delivery the broker waits for:
\* tags restart with each connection, and no step of an earlier one gets through.
AcksAreCurrent ==
    \A i \in DOMAIN toBroker :
        toBroker[i].type \in {"ack", "reject"} => Awaits(toBroker[i].tag)

\* A well-formed exchange is quarantined only when its first delivery and all of
\* its MaxAttempt retries have failed.
QuarantinedOnlyExhausted ==
    \A body \in deadQueue :
        body.job \in Jobs => body.attempt = MaxAttempt /\ failures[body.job] > MaxAttempt

\* Every admitted exchange is stored or quarantined, unless the process ends first; a
\* confirmed one is, even if the process ends.
AdmittedIsSettled ==
    \A job \in Jobs :
       LET settled == job \in database \/ InDeadQueue(job)
       IN  /\ job \in admitted ~> settled \/ job \notin admitted
           /\ job \in confirmed ~> settled

\* The backlog an earlier release left behind ends in the quarantine queue.
LegacyIsQuarantined ==
    \A job \in Legacy : <>(\E body \in deadQueue : body.job = job)

\* Whatever fails, the producer becomes usable again.
Reconnects == []<>(producerReady_ /\ ~recovering_ /\ link = "up")
-----------------------------------------------------------------------------
(* What the chat helper may rely on *)

JobsIn(Test(_)) == {job \in AllJobs : Test(job)}

Queue == INSTANCE ExchangeQueue WITH
    outbox      <- JobsIn(InOutbox),
    queued      <- JobsIn(InMainQueue),
    quarantined <- JobsIn(InDeadQueue),
    stored      <- database

\* The handler, the broker and executeMysql together implement the queue that
\* delivers at least once: a publication leaves the outbox only when the broker or
\* the table holds its exchange or with the process, and a delivery leaves
\* sql_queue only when its exchange is stored or quarantined.
ImplementsQueue == Queue!QueueSpec
=============================================================================
