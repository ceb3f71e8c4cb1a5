-------------------------------- MODULE Amqp --------------------------------
(***************************************************************************)
(* The RabbitMQ broker and the one TCP connection to it, as MQManager.cpp  *)
(* uses them: two durable queues (sql_queue and sql_queue.dead), publisher *)
(* confirms on the producer channel, a consumer with a prefetch of one,    *)
(* and manual acknowledgement.  The broker is not part of the repository:  *)
(* everything here is external and models only what the handler relies on. *)
(*                                                                         *)
(* Both directions of the connection are FIFO; both AMQP channels share    *)
(* them.  The broker's queues outlive the connection and the process.      *)
(***************************************************************************)
EXTENDS Naturals, Sequences, FiniteSets

CONSTANTS Jobs,       \* exchanges (message ids) the application may publish
          Legacy,     \* backlog items that ChatExchange::parse refuses
          MaxAttempt, \* retries before quarantine: 5 in completeDelivery
          MaxFaults,  \* bound: faults of every kind in one behaviour
          MaxDeliveries \* bound: deliveries on one consumer channel

ASSUME JobsAssumption    == Jobs \cap Legacy = {} /\ IsFiniteSet(Legacy)
ASSUME AttemptAssumption == MaxAttempt \in Nat
ASSUME BoundsAssumption  == MaxFaults \in Nat /\ MaxDeliveries \in Nat

VARIABLES link,       \* "none", "up", or "broken": cut, and the client has not noticed
          toBroker,   \* frames sent and not yet handled by the broker
          toClient,   \* frames sent and not yet dispatched by AMQP::TcpConnection
          declared,   \* queues that exist
          mainQueue,  \* bodies ready in sql_queue, oldest first
          deadQueue,  \* bodies in sql_queue.dead
          unacked,    \* the deliveries not acknowledged yet: at most one, QoS 1
          deliveries, \* delivery tags given out on this consumer channel
          received,   \* publishes the broker has numbered on this producer channel
          unconfirmed,\* numbers of the stored publishes not confirmed yet
          faults      \* faults so far, bounded by MaxFaults

storeVars  == <<link, declared, mainQueue, deadQueue, unacked, deliveries, received,
                unconfirmed>>
brokerVars == <<storeVars, toBroker, toClient>>

-----------------------------------------------------------------------------
(* Messages *)

AllJobs == Jobs \cup Legacy
Body    == [job : AllJobs, attempt : 0..MaxAttempt]
Queues  == {"main", "dead"}

Delivery == [tag : Nat \ {0}, body : Body]

ClientFrame ==
    [type : {"publish"}, queue : Queues, body : Body]
        \cup [type : {"ack", "reject"}, tag : Nat \ {0}]

BrokerFrame ==
    [type : {"deliver"}, tag : Nat \ {0}, body : Body]
        \cup [type : {"confirm"}, tag : Nat \ {0}, multiple : BOOLEAN]
        \cup [type : {"nack"}, tag : Nat \ {0}]
        \cup [type : {"return"}]

PublishFrame(queue, body) == [type |-> "publish", queue |-> queue, body |-> body]
AckFrame(tag)             == [type |-> "ack", tag |-> tag]
RejectFrame(tag)          == [type |-> "reject", tag |-> tag]

AmqpTypeOK ==
    /\ link \in {"none", "up", "broken"}
    /\ toBroker \in Seq(ClientFrame)
    /\ toClient \in Seq(BrokerFrame)
    /\ declared \in SUBSET Queues
    /\ mainQueue \in Seq(Body)
    /\ deadQueue \in SUBSET Body
    /\ unacked \in Seq(Delivery)
    /\ deliveries \in Nat
    /\ received \in Nat
    /\ unconfirmed \in SUBSET (Nat \ {0})
    /\ faults \in 0..MaxFaults

\* The broker before the first connection: the backlog of an earlier release.
AmqpInit(backlog) ==
    /\ link = "none"
    /\ toBroker = <<>>
    /\ toClient = <<>>
    /\ declared = IF backlog = <<>> THEN {} ELSE {"main"}
    /\ mainQueue = backlog
    /\ deadQueue = {}
    /\ unacked = <<>>
    /\ deliveries = 0
    /\ received = 0
    /\ unconfirmed = {}
    /\ faults = 0

-----------------------------------------------------------------------------
(* The connection *)

Fault == faults < MaxFaults /\ faults' = faults + 1

\* What is written after the connection is cut goes nowhere.
Sent(frames) == IF link = "up" THEN toBroker \o frames ELSE toBroker

OpenLink ==
    /\ link' = "up"
    /\ UNCHANGED <<toBroker, toClient, declared, mainQueue, deadQueue, unacked,
                   deliveries, received, unconfirmed>>

Requeued == [i \in 1..Len(unacked) |-> unacked[i].body] \o mainQueue

\* The broker's half of a closed connection: unread frames are gone, the
\* unacknowledged delivery returns to the head of its queue.
CloseLink(state, unread) ==
    /\ link' = state
    /\ toBroker' = <<>>
    /\ toClient' = unread
    /\ mainQueue' = Requeued
    /\ unacked' = <<>>
    /\ deliveries' = 0
    /\ received' = 0
    /\ unconfirmed' = {}
    /\ UNCHANGED <<declared, deadQueue>>

\* The network or the broker cuts the connection.  Frames that already reached
\* the client can still be dispatched.
LinkBreaks ==
    /\ link = "up"
    /\ Fault
    /\ CloseLink("broken", toClient)

-----------------------------------------------------------------------------
(* The broker's steps *)

\* A publish to a queue that exists is stored; its confirm follows later.
BrokerStores ==
    /\ link = "up" /\ toBroker # <<>> /\ Head(toBroker).type = "publish"
    /\ LET frame == Head(toBroker)
       IN  /\ frame.queue \in declared
           /\ mainQueue' = IF frame.queue = "main" THEN Append(mainQueue, frame.body)
                                                   ELSE mainQueue
           /\ deadQueue' = IF frame.queue = "dead" THEN deadQueue \cup {frame.body}
                                                   ELSE deadQueue
    /\ toBroker' = Tail(toBroker)
    /\ received' = received + 1
    /\ unconfirmed' = unconfirmed \cup {received + 1}
    /\ UNCHANGED <<link, toClient, declared, unacked, deliveries, faults>>

\* An internal error: the broker refuses the publish it has just numbered.
BrokerNacks ==
    /\ link = "up" /\ toBroker # <<>> /\ Head(toBroker).type = "publish"
    /\ Fault
    /\ toBroker' = Tail(toBroker)
    /\ received' = received + 1
    /\ toClient' = Append(toClient, [type |-> "nack", tag |-> received + 1])
    /\ UNCHANGED <<link, declared, mainQueue, deadQueue, unacked, deliveries, unconfirmed>>

\* A mandatory publish to a queue that does not exist is returned, and then
\* confirmed like any other.
BrokerReturns ==
    /\ link = "up" /\ toBroker # <<>> /\ Head(toBroker).type = "publish"
    /\ Head(toBroker).queue \notin declared
    /\ toBroker' = Tail(toBroker)
    /\ received' = received + 1
    /\ toClient' = toClient \o <<[type |-> "return"],
                     [type |-> "confirm", tag |-> received + 1, multiple |-> FALSE]>>
    /\ UNCHANGED <<link, declared, mainQueue, deadQueue, unacked, deliveries,
                   unconfirmed, faults>>

\* Confirms may be out of order and may cover every number up to the tag.
BrokerConfirms(tag, multiple) ==
    /\ link = "up"
    /\ tag \in unconfirmed
    /\ unconfirmed' = IF multiple THEN {t \in unconfirmed : t > tag}
                                  ELSE unconfirmed \ {tag}
    /\ toClient' = Append(toClient,
                     [type |-> "confirm", tag |-> tag, multiple |-> multiple])
    /\ UNCHANGED <<link, toBroker, declared, mainQueue, deadQueue, unacked,
                   deliveries, received, faults>>

\* The broker still waits for this tag.
Awaits(tag) == unacked # <<>> /\ unacked[1].tag = tag

\* basic.ack removes the delivery for good; basic.reject with requeue puts it back.
BrokerAcked ==
    /\ link = "up" /\ toBroker # <<>> /\ Head(toBroker).type = "ack"
    /\ unacked' = IF Awaits(Head(toBroker).tag) THEN <<>> ELSE unacked
    /\ toBroker' = Tail(toBroker)
    /\ UNCHANGED <<link, toClient, declared, mainQueue, deadQueue, deliveries,
                   received, unconfirmed, faults>>

BrokerRejected ==
    /\ link = "up" /\ toBroker # <<>> /\ Head(toBroker).type = "reject"
    /\ mainQueue' = IF Awaits(Head(toBroker).tag) THEN Requeued ELSE mainQueue
    /\ unacked' = IF Awaits(Head(toBroker).tag) THEN <<>> ELSE unacked
    /\ toBroker' = Tail(toBroker)
    /\ UNCHANGED <<link, toClient, declared, deadQueue, deliveries, received,
                   unconfirmed, faults>>

\* With a prefetch of one the next delivery waits for the previous one's ack.
BrokerDelivers ==
    /\ link = "up" /\ mainQueue # <<>> /\ unacked = <<>>
    /\ deliveries < MaxDeliveries
    /\ deliveries' = deliveries + 1
    /\ unacked' = <<[tag |-> deliveries + 1, body |-> Head(mainQueue)]>>
    /\ mainQueue' = Tail(mainQueue)
    /\ toClient' = Append(toClient, [type |-> "deliver", tag |-> deliveries + 1,
                                     body |-> Head(mainQueue)])
    /\ UNCHANGED <<link, toBroker, declared, deadQueue, received, unconfirmed, faults>>

\* An operator removes the (empty) quarantine queue while the service runs.
DeadQueueDeleted ==
    /\ "dead" \in declared /\ deadQueue = {}
    /\ Fault
    /\ declared' = declared \ {"dead"}
    /\ UNCHANGED <<link, toBroker, toClient, mainQueue, deadQueue, unacked,
                   deliveries, received, unconfirmed>>
=============================================================================
