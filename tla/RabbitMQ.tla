------------------------------- MODULE RabbitMQ -------------------------------
(***************************************************************************)
(* The RabbitMQ broker (brokers/rabbitmq.py) for one event type.  Each     *)
(* service has a main queue, a retry queue and a dead-letter queue, bound  *)
(* with the event type as routing key to three exchanges all services      *)
(* share.  fail() nacks a message into the retry exchange; RabbitMQ counts *)
(* that in the x-death header.  The order within a queue is left open, and *)
(* a message prefetched into a consumer's buffer counts as queued.         *)
(***************************************************************************)
EXTENDS Naturals, FiniteSets, Bags, BagsExt

CONSTANTS
    Event, Receiver, Unreadable,
    Service,         \* the services with receivers for the event type
    Worker,          \* the eventbus_worker processes of all services
    ServiceOf,       \* worker -> its service
    MaxRetries,      \* option MAX_RETRIES
    PublishRetries,  \* option PUBLISH_RETRIES
    MaxQueue,        \* bound of the model on the messages routed to a queue
    MaxFaults        \* bound of the model on the faults of a behaviour

ASSUME WorkersAssumption == ServiceOf \in [Worker -> Service]
ASSUME BoundsAssumption ==
    /\ MaxRetries \in Nat \ {0} /\ PublishRetries \in Nat
    /\ MaxQueue \in Nat \ {0} /\ MaxFaults \in Nat

\* x-death, as _death_count() reads it: rejections by each service's main queue.
Message == [event : Event, deaths : [Service -> 0 .. MaxRetries - 1]]
None == [event |-> "none"]
Down == {"absent", "killed", "raised"}

VARIABLES
    declared,     \* the services whose topology exists
    main,         \* service -> bag of the messages of its main queue
    retry,        \* service -> bag of the messages of its retry queue
    dlq,          \* service -> [event, by] that its dead-letter queue received
    accepted,     \* service -> events that have reached a queue of it
    pub,          \* event -> state of its publish() call
    attempt,      \* event -> the attempt of publish() under way
    pc,           \* worker -> where it is in its loop, or why it is down
    cur,          \* worker -> the message in _pending, or None
    link,         \* worker -> "up"; "lost", unnoticed; "down", closed by itself
    served,       \* service -> event -> receivers that have processed it
    tried,        \* service -> event -> dispatches, kept up to MaxRetries + 1
    failed,       \* service -> event -> failed dispatches, up to MaxRetries
    faults

server == <<declared, main, retry, dlq, accepted>>
publisher == <<pub, attempt>>
worker == <<pc, cur, link>>
history == <<served, tried, failed>>
vars == <<server, publisher, worker, history, faults>>

IsQueue(q) == IsABag(q) /\ BagToSet(q) \subseteq Message

TypeOK ==
    /\ declared \subseteq Service
    /\ \A s \in Service : IsQueue(main[s]) /\ IsQueue(retry[s])
    /\ dlq \in [Service -> SUBSET [event : Event, by : Service]]
    /\ accepted \in [Service -> SUBSET Event]
    /\ pub \in [Event -> {"pending", "returned", "raised"}]
    /\ attempt \in [Event -> 1 .. PublishRetries + 1]
    /\ pc \in [Worker -> Down \cup {"poll", "discard", "handle", "ack", "fail"}]
    /\ cur \in [Worker -> Message \cup {None}]
    /\ link \in [Worker -> {"up", "lost", "down"}]
    /\ served \in [Service -> [Event -> SUBSET Receiver]]
    /\ tried \in [Service -> [Event -> 0 .. MaxRetries + 1]]
    /\ failed \in [Service -> [Event -> 0 .. MaxRetries]]
    /\ faults \in 0 .. MaxFaults

Init ==
    /\ declared = {}
    /\ main = [s \in Service |-> EmptyBag]
    /\ retry = [s \in Service |-> EmptyBag]
    /\ dlq = [s \in Service |-> {}]
    /\ accepted = [s \in Service |-> {}]
    /\ pub = [e \in Event |-> "pending"]
    /\ attempt = [e \in Event |-> 1]
    /\ pc = [w \in Worker |-> "absent"]
    /\ cur = [w \in Worker |-> None]
    /\ link = [w \in Worker |-> "down"]
    /\ served = [s \in Service |-> [e \in Event |-> {}]]
    /\ tried = [s \in Service |-> [e \in Event |-> 0]]
    /\ failed = [s \in Service |-> [e \in Event |-> 0]]
    /\ faults = MaxFaults

Fault == faults > 0 /\ faults' = faults - 1
Goto(w, label) == pc' = [pc EXCEPT ![w] = label]
Bump(n, cap) == IF n < cap THEN n + 1 ELSE cap

-------------------------------------------------------------------------------
(* The exchanges: routed to every queue bound with the event type *)

Route(queues, m) ==
    [s \in Service |-> IF s \in declared THEN BagAdd(queues[s], m) ELSE queues[s]]

Reach(e) ==
    accepted' = [s \in Service |->
        IF s \in declared THEN accepted[s] \cup {e} ELSE accepted[s]]

Room(queues) == \A s \in Service : BagCardinality(queues[s]) < MaxQueue

ToMain(m) == Room(main) /\ main' = Route(main, m) /\ Reach(m.event)

ToDeadLetter(e, s) ==
    dlq' = [t \in Service |->
        IF t \in declared THEN dlq[t] \cup {[event |-> e, by |-> s]} ELSE dlq[t]]

Fresh(e) == [event |-> e, deaths |-> [s \in Service |-> 0]]

\* RETRY_DELAY_MS expires: back to the main exchange.
Expire(s, m) ==
    /\ BagIn(m, retry[s])
    /\ retry' = [retry EXCEPT ![s] = BagRemove(@, m)]
    /\ ToMain(m)
    /\ UNCHANGED <<declared, dlq, publisher, worker, history, faults>>

\* An unacknowledged message goes back to its queue when its channel dies.
Requeue(w) ==
    main' = IF cur[w] = None \/ link[w] # "up" THEN main
            ELSE [main EXCEPT ![ServiceOf[w]] = BagAdd(@, cur[w])]

-------------------------------------------------------------------------------
(* publish() *)

\* A bug: publish() tries again after it succeeded.
Publish_Again(e) ==
    /\ pub[e] = "pending"
    /\ ToMain(Fresh(e))
    /\ IF attempt[e] <= PublishRetries
       THEN attempt' = [attempt EXCEPT ![e] = @ + 1] /\ UNCHANGED pub
       ELSE pub' = [pub EXCEPT ![e] = "returned"] /\ UNCHANGED attempt
    /\ UNCHANGED <<declared, retry, dlq, worker, history, faults>>

Publish(e) ==
    /\ pub[e] = "pending"
    /\ ToMain(Fresh(e))
    /\ pub' = [pub EXCEPT ![e] = "returned"]
    /\ UNCHANGED <<declared, retry, dlq, attempt, worker, history, faults>>

\* A bug: range(1, attempts + 2) in _publish_to().
PublishInterrupted_OffByOne(e) ==
    /\ pub[e] = "pending"
    /\ Fault
    /\ UNCHANGED <<main, accepted>>
    /\ attempt' = [attempt EXCEPT ![e] = @ + 1]
    /\ UNCHANGED <<pub, declared, retry, dlq, worker, history>>

\* The connection drops: basic_publish raises, stored or not, and the loop
\* tries again, unless it was the last attempt, _reconnect() raises, or the error is
\* not in _TRANSIENT_AMQP_ERRORS (ChannelWrongStateError: the channel is known to be closed).
PublishInterrupted(e) ==
    /\ pub[e] = "pending"
    /\ Fault
    /\ \/ ToMain(Fresh(e))
       \/ UNCHANGED <<main, accepted>>
    /\ \/ /\ attempt[e] <= PublishRetries
          /\ attempt' = [attempt EXCEPT ![e] = @ + 1]
          /\ UNCHANGED pub
       \/ pub' = [pub EXCEPT ![e] = "raised"] /\ UNCHANGED attempt
    /\ UNCHANGED <<declared, retry, dlq, worker, history>>

\* Nothing confirms a publication: written to a dying connection, it is gone.
PublishVanishes(e) ==
    /\ pub[e] = "pending"
    /\ Fault
    /\ pub' = [pub EXCEPT ![e] = "returned"]
    /\ UNCHANGED <<server, attempt, worker, history>>

-------------------------------------------------------------------------------
(* _consume() *)

\* A worker starts, or restarts, and listen() declares the topology.
Listen(w) ==
    /\ pc[w] \in Down
    /\ Goto(w, "poll")
    /\ link' = [link EXCEPT ![w] = "up"]
    /\ declared' = declared \cup {ServiceOf[w]}
    /\ UNCHANGED <<main, retry, dlq, accepted, publisher, cur, history, faults>>

\* next(consumer) delivers a message; one that does not load is only acked.
Receive(w) ==
    /\ pc[w] = "poll" /\ link[w] = "up"
    /\ \E m \in BagToSet(main[ServiceOf[w]]) :
        /\ main' = [main EXCEPT ![ServiceOf[w]] = BagRemove(@, m)]
        /\ cur' = [cur EXCEPT ![w] = m]
        /\ Goto(w, IF m.event \in Unreadable THEN "discard" ELSE "handle")
    /\ UNCHANGED <<declared, retry, dlq, accepted, publisher, link, history, faults>>

\* What next(consumer) has in its buffer it still delivers on a dead connection: a copy of
\* a message that went back to the queue.  Here, of one that no other worker has taken yet.
ReceiveStale(w) ==
    /\ pc[w] = "poll" /\ link[w] = "lost"
    /\ Fault
    /\ \E m \in BagToSet(main[ServiceOf[w]]) :
        /\ cur' = [cur EXCEPT ![w] = m]
        /\ Goto(w, IF m.event \in Unreadable THEN "discard" ELSE "handle")
    /\ UNCHANGED <<server, publisher, link, history>>

\* A bug: the loop goes on with the old consumers after an outage.
Reconnect_OldConsumers(w) ==
    /\ pc[w] = "poll" /\ link[w] # "up"
    /\ link' = [link EXCEPT ![w] = "lost"]
    /\ UNCHANGED <<server, publisher, pc, cur, history, faults>>

\* next(consumer) raises: a new connection, topology and consumers.
Reconnect(w) ==
    /\ pc[w] = "poll" /\ link[w] # "up"
    /\ link' = [link EXCEPT ![w] = "up"]
    /\ UNCHANGED <<server, publisher, pc, cur, history, faults>>

\* The worker ends.
Exit(w, why) ==
    /\ Goto(w, why)
    /\ cur' = [cur EXCEPT ![w] = None]
    /\ link' = [link EXCEPT ![w] = "down"]

\* The server is still away: _reconnect() raises.
ReconnectRaises(w) ==
    /\ pc[w] = "poll" /\ link[w] # "up"
    /\ Fault
    /\ Exit(w, "raised")
    /\ UNCHANGED <<server, publisher, history>>

\* The connection drops, or the server closes it on a handler that outlasts the
\* heartbeat; the worker goes on without knowing.
Drop(w) ==
    /\ pc[w] \notin Down /\ link[w] = "up"
    /\ Fault
    /\ Requeue(w)
    /\ link' = [link EXCEPT ![w] = "lost"]
    /\ UNCHANGED <<declared, retry, dlq, accepted, publisher, pc, cur, history>>

-------------------------------------------------------------------------------
(* dispatch(), ack() and fail() *)

RunReceivers(w, ok, isFailed) ==
    LET s == ServiceOf[w]
        e == cur[w].event
    IN  /\ served' = [served EXCEPT ![s][e] = @ \cup ok]
        /\ tried' = [tried EXCEPT ![s][e] = Bump(@, MaxRetries + 1)]
        /\ failed' = [failed EXCEPT ![s][e] = IF isFailed THEN Bump(@, MaxRetries) ELSE @]

Dispatch(w) ==
    /\ pc[w] = "handle"
    /\ \E bad \in SUBSET Receiver :
        /\ RunReceivers(w, Receiver \ bad, bad # {})
        /\ Goto(w, IF bad = {} THEN "ack" ELSE "fail")
    /\ UNCHANGED <<server, publisher, cur, link, faults>>

\* The worker is done with its message and looks for the next one.
Forget(w) ==
    /\ Goto(w, "poll")
    /\ cur' = [cur EXCEPT ![w] = None]

\* basic_ack; a frame written to a connection lost before changes nothing.
Ack(w) ==
    /\ pc[w] \in {"discard", "ack"}
    /\ link[w] # "down"
    /\ Forget(w)
    /\ UNCHANGED <<server, publisher, link, history, faults>>

\* A bug: _death_count() adds the rejections of all queues.
Attempt_AnyQueue(w) ==
    IF \E s \in Service : cur[w].deaths[s] > 0 THEN MaxRetries ELSE 1

\* A bug: _death_count() never finds its queue.
Attempt_Never(w) == 1

\* The attempt fail() is at.
Attempt(w) == cur[w].deaths[ServiceOf[w]] + 1

Rejected(m, s) == [m EXCEPT !.deaths[s] = @ + 1]

\* A bug: basic_nack with a retry queue that leads nowhere.
Nack_Dropped(w) ==
    /\ pc[w] = "fail"
    /\ Attempt(w) < MaxRetries
    /\ link[w] # "down"
    /\ Forget(w)
    /\ UNCHANGED <<server, publisher, link, history, faults>>

\* basic_nack(requeue=False), likewise.
Nack(w) ==
    /\ pc[w] = "fail"
    /\ Attempt(w) < MaxRetries
    /\ link[w] # "down"
    /\ IF link[w] = "up"
       THEN /\ Room(retry)
            /\ retry' = Route(retry, Rejected(cur[w], ServiceOf[w]))
            /\ Reach(cur[w].event)
       ELSE UNCHANGED <<retry, accepted>>
    /\ Forget(w)
    /\ UNCHANGED <<declared, main, dlq, publisher, link, history, faults>>

\* A dead channel makes ack() and fail() raise, which nothing catches.
SettleRaises(w) ==
    /\ link[w] # "up"
    /\ pc[w] \in {"discard", "ack"} \/ (pc[w] = "fail" /\ Attempt(w) < MaxRetries)
    /\ Exit(w, "raised")
    /\ UNCHANGED <<server, publisher, history, faults>>

\* A bug: fail() acknowledges the message before it publishes the dead-letter.
Bury_AckFirst(w) ==
    /\ pc[w] = "fail"
    /\ Attempt(w) >= MaxRetries
    /\ link[w] = "up"
    /\ Forget(w)
    /\ UNCHANGED dlq \/ ToDeadLetter(cur[w].event, ServiceOf[w])
    /\ UNCHANGED <<declared, main, retry, accepted, publisher, link, history, faults>>

\* The last attempt is published on the dead-letter exchange, then acked.  On a
\* lost connection the publication goes nowhere, or raises and is made again on
\* a new connection, which closes the channel that delivered the message.
Bury(w) ==
    /\ pc[w] = "fail"
    /\ Attempt(w) >= MaxRetries
    /\ \/ /\ link[w] = "up"
          /\ ToDeadLetter(cur[w].event, ServiceOf[w])
          /\ UNCHANGED link
       \/ /\ link[w] = "lost"
          /\ UNCHANGED <<dlq, link>>
       \/ /\ link[w] = "lost" /\ PublishRetries > 0
          /\ ToDeadLetter(cur[w].event, ServiceOf[w])
          /\ link' = [link EXCEPT ![w] = "down"]
    /\ Goto(w, "ack")
    /\ UNCHANGED <<declared, main, retry, accepted, publisher, cur, history, faults>>

\* All attempts of that publication fail, or _reconnect() does.
BuryRaises(w) ==
    /\ pc[w] = "fail"
    /\ Attempt(w) >= MaxRetries
    /\ Fault
    /\ UNCHANGED dlq \/ ToDeadLetter(cur[w].event, ServiceOf[w])
    /\ Requeue(w)
    /\ Exit(w, "raised")
    /\ UNCHANGED <<declared, retry, accepted, publisher, history>>

\* A kill, or a stop with an envelope in hand.
Kill(w) ==
    /\ pc[w] \notin Down
    /\ Fault
    /\ IF pc[w] = "handle"
       THEN \E ok \in SUBSET Receiver : RunReceivers(w, ok, FALSE)
       ELSE UNCHANGED history
    /\ Requeue(w)
    /\ Exit(w, "killed")
    /\ UNCHANGED <<declared, retry, dlq, accepted, publisher>>

-------------------------------------------------------------------------------
Work(w) ==
    \/ Listen(w) \/ Receive(w) \/ Reconnect(w) \/ Dispatch(w)
    \/ Ack(w) \/ Nack(w) \/ SettleRaises(w) \/ Bury(w)

Next ==
    \/ \E e \in Event : Publish(e) \/ PublishInterrupted(e) \/ PublishVanishes(e)
    \/ \E w \in Worker :
         Work(w) \/ ReceiveStale(w) \/ ReconnectRaises(w) \/ Drop(w) \/ BuryRaises(w) \/ Kill(w)
    \/ \E s \in Service : \E m \in BagToSet(retry[s]) : Expire(s, m)

Spec == Init /\ [][Next]_vars

\* Workers go on and are restarted, and retry delays pass.
Fairness ==
    /\ \A w \in Worker : WF_vars(Work(w))
    /\ \A s \in Service : WF_vars(\E m \in BagToSet(retry[s]) : Expire(s, m))

FairSpec == Spec /\ Fairness

-------------------------------------------------------------------------------
(* Properties *)

EventsOf(q) == {m.event : m \in BagToSet(q)}

Unacked(s) ==
    {cur[w].event : w \in {v \in Worker : /\ ServiceOf[v] = s
                                          /\ link[v] = "up"
                                          /\ cur[v] # None}}

BuriedBy(s) == {d.event : d \in {x \in dlq[s] : x.by = s}}

\* The bus as service s sees it: its queues and what its workers hold.
Bus(s) == INSTANCE EventBus WITH
    accepted <- accepted[s],
    owed <- EventsOf(main[s]) \cup EventsOf(retry[s]) \cup Unacked(s),
    served <- served[s],
    dead <- BuriedBy(s),
    lost <- {}

\* The broker implements the abstract bus for each service: what has reached a
\* queue of it stays owed to it until processed or put in the dead-letter by it,
\* through lost connections, failed acks, crashes and messages of other services.
BusSpec ==
    /\ \A s \in Service : Bus(s)!Init
    /\ [][\A s \in Service : Bus(s)!Next \/ UNCHANGED Bus(s)!vars]_vars

\* An event that has reached a service is processed by its receivers or put in
\* its dead-letter in the end.
EventuallySettled ==
    \A s \in Service, e \in Event :
        e \in accepted[s] ~>
            served[s][e] = Receiver \/ e \in BuriedBy(s) \/ e \in Unreadable

\* A service dead-letters an event only after MAX_RETRIES failed attempts of
\* its own, whatever the other services reject.
BuriedAfterMaxRetries ==
    \A s \in Service : \A e \in BuriedBy(s) : failed[s][e] >= MaxRetries

\* No other service has rejected e, and sent it round again.
Alone(s, e) == \A t \in Service \ {s} : failed[t][e] = 0

\* As long as nothing fails but receivers, and no other service rejects it, a service
\* runs its receivers on an event once; and, if it has the event type for itself, again
\* for each failure, MAX_RETRIES times at most.
AttemptsBounded ==
    faults = MaxFaults =>
        \A s \in Service, e \in Event :
            Alone(s, e) /\ (failed[s][e] = 0 \/ Service = {s}) =>
                tried[s][e] <= MaxRetries /\ tried[s][e] <= failed[s][e] + 1

-------------------------------------------------------------------------------
(* What the sources say and the code does not do *)

\* rabbitmq.py:85 "each service consumes its own queue, independently of the
\* others": no service is served again because another one rejected the event.
Independent ==
    faults = MaxFaults =>
        \A s \in Service, e \in Event : failed[s][e] = 0 => tried[s][e] <= 1

\* rabbitmq.py:94 "Past MAX_RETRIES, the message is published to {queue}.dlq":
\* to the queue of the service that has given it up.
DeadLetterIsOwn == \A s \in Service : \A d \in dlq[s] : d.by = s

\* rabbitmq.py:25 "Transient connection errors": "to retry, not to crash the worker
\* over".
NoWorkerCrash == \A w \in Worker : pc[w] # "raised"

\* README.md:192 "the publish fails and surfaces as a post-commit error": one that
\* does not raise has reached every declared service.
PublishFailureSurfaces ==
    [][\A e \in Event : pub[e] = "pending" /\ pub'[e] = "returned" =>
          \A s \in declared : e \in accepted'[s]]_vars
===============================================================================
