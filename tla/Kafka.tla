--------------------------------- MODULE Kafka ---------------------------------
(***************************************************************************)
(* The Kafka broker (brokers/kafka.py): one topic of one partition, shared *)
(* by the services subscribed to an event type, each with its consumer     *)
(* group.  fail() retries by publishing the event again on that topic with *)
(* its x-retry-count increased.  Faults spend a budget as in RedisStreams; *)
(* a stop (eventbus_worker) leaves an undispatched envelope as a kill does.*)
(***************************************************************************)
EXTENDS Naturals, Sequences, FiniteSets

CONSTANTS
    Event, Receiver, Unreadable,
    Service,         \* the services, one consumer group each
    Worker,          \* the eventbus_worker processes of all services
    ServiceOf,       \* worker -> its service
    MaxRetries,      \* option MAX_RETRIES
    MaxRecords,      \* bound of the model on the topic
    MaxFaults,       \* bound of the model on the faults of a behaviour
    FlushTimeouts    \* flush(10) may give up with the message still queued

ASSUME WorkersAssumption == ServiceOf \in [Worker -> Service]
ASSUME BoundsAssumption ==
    MaxRetries \in Nat \ {0} /\ MaxRecords \in Nat /\ MaxFaults \in Nat
ASSUME NamesAssumption ==
    "topic" \notin Service /\ "nobody" \notin Worker /\ Event \cap Worker = {}

Record == [event : Event, count : 0 .. MaxRetries - 1]
Message == [event : Event, count : 0 .. MaxRetries]
Down == {"absent", "killed", "raised"}
NoWorker == "nobody"

VARIABLES
    topic,        \* the records of the partition
    committed,    \* service -> number of records its group has committed
    owner,        \* service -> the worker the partition is assigned to
    queue,        \* messages left in the local queue of a producer
    lost,         \* service -> events whose retry it has lost in such a queue
    pub,          \* event -> state of its publish() call
    pc,           \* worker -> where it is in its loop, or why it is down
    position,     \* worker -> number of records its consumer has polled past
    cur,          \* worker -> offset of the message in _pending, 0 if none
    served,       \* service -> event -> receivers that have processed it
    tried,        \* service -> event -> dispatches, kept up to MaxRetries + 1
    failed,       \* service -> event -> failed dispatches, up to MaxRetries
    dead,         \* service -> events it has moved to the dead-letter topic
    faults

cluster == <<topic, dead>>
locals == <<queue, lost>>
worker == <<pc, position, cur>>
history == <<served, tried, failed>>
vars == <<cluster, committed, owner, locals, pub, worker, history, faults>>

TypeOK ==
    /\ topic \in Seq(Record) /\ Len(topic) <= MaxRecords
    /\ committed \in [Service -> 0 .. Len(topic)]
    /\ owner \in [Service -> Worker \cup {NoWorker}]
    /\ queue \subseteq [from : Event \cup Worker, rec : Message, to : Service \cup {"topic"}]
    /\ lost \in [Service -> SUBSET Event]
    /\ pub \in [Event -> {"pending", "returned", "raised"}]
    /\ pc \in [Worker -> Down \cup {"poll", "discard", "handle", "ack", "fail", "commit"}]
    /\ position \in [Worker -> 0 .. Len(topic)]
    /\ cur \in [Worker -> 0 .. Len(topic)]
    /\ served \in [Service -> [Event -> SUBSET Receiver]]
    /\ tried \in [Service -> [Event -> 0 .. MaxRetries + 1]]
    /\ failed \in [Service -> [Event -> 0 .. MaxRetries]]
    /\ dead \in [Service -> SUBSET Event]
    /\ faults \in 0 .. MaxFaults

Init ==
    /\ topic = <<>>
    /\ committed = [s \in Service |-> 0]
    /\ owner = [s \in Service |-> NoWorker]
    /\ queue = {}
    /\ lost = [s \in Service |-> {}]
    /\ pub = [e \in Event |-> "pending"]
    /\ pc = [w \in Worker |-> "absent"]
    /\ position = [w \in Worker |-> 0]
    /\ cur = [w \in Worker |-> 0]
    /\ served = [s \in Service |-> [e \in Event |-> {}]]
    /\ tried = [s \in Service |-> [e \in Event |-> 0]]
    /\ failed = [s \in Service |-> [e \in Event |-> 0]]
    /\ dead = [s \in Service |-> {}]
    /\ faults = MaxFaults

Fault == faults > 0 /\ faults' = faults - 1

-------------------------------------------------------------------------------
(* _produce() *)

\* A record reaches the event's topic, or the dead-letter a service sends it to.
Store(rec, to) ==
    IF to = "topic"
    THEN /\ Len(topic) < MaxRecords
         /\ topic' = Append(topic, rec)
         /\ UNCHANGED dead
    ELSE /\ dead' = [dead EXCEPT ![to] = @ \cup {rec.event}]
         /\ UNCHANGED topic

\* A bug: the retry loop of _produce() goes on after a successful produce().
Produced_NoBreak(from, rec, to) ==
    /\ to = "topic" => Len(topic) + 1 < MaxRecords
    /\ topic' = IF to = "topic" THEN topic \o <<rec, rec>> ELSE topic
    /\ dead' = IF to = "topic" THEN dead ELSE [dead EXCEPT ![to] = @ \cup {rec.event}]
    /\ UNCHANGED <<locals, faults>>

\* produce() and flush() return, the message delivered; or flush() gives up
\* after its 10 s, which nobody looks at, with the message in the local queue.
Produced(from, rec, to) ==
    \/ Store(rec, to) /\ UNCHANGED <<locals, faults>>
    \/ /\ FlushTimeouts
       /\ Fault
       /\ queue' = queue \cup {[from |-> from, rec |-> rec, to |-> to]}
       /\ UNCHANGED <<cluster, lost>>

\* BrokerError from the delivery report, or BufferError when the local queue
\* stays full: the message may have been stored all the same.
ProduceRaises(rec, to) ==
    /\ Fault
    /\ Store(rec, to) \/ UNCHANGED cluster
    /\ UNCHANGED locals

\* What service s has left in the local queues ms: events it must retry or bury.
LeftBy(s, ms) ==
    {m.rec.event : m \in {n \in ms : n.from \in Worker /\ ServiceOf[n.from] = s}}

\* The messages ms are gone.
LoseAll(ms) ==
    /\ queue' = queue \ ms
    /\ lost' = [s \in Service |-> lost[s] \cup LeftBy(s, ms)]

\* librdkafka delivers a queued message later, or gives it up when it expires
\* (message.timeout.ms): the outage that made flush() give up just goes on.
Deliver(m) ==
    /\ m \in queue
    /\ Store(m.rec, m.to)
    /\ queue' = queue \ {m}
    /\ UNCHANGED <<committed, owner, lost, pub, worker, history, faults>>

Lose(m) ==
    /\ m \in queue
    /\ LoseAll({m})
    /\ UNCHANGED <<cluster, committed, owner, pub, worker, history, faults>>

Publish(e) ==
    /\ pub[e] = "pending"
    /\ LET rec == [event |-> e, count |-> 0]
       IN  \/ Produced(e, rec, "topic") /\ pub' = [pub EXCEPT ![e] = "returned"]
           \/ ProduceRaises(rec, "topic") /\ pub' = [pub EXCEPT ![e] = "raised"]
    /\ UNCHANGED <<committed, owner, worker, history>>

-------------------------------------------------------------------------------
(* The consumer group, and _consume() *)

Goto(w, label) == pc' = [pc EXCEPT ![w] = label]

\* The process ends; the group notices, and takes the partition away.
Exit(w, why) ==
    /\ Goto(w, why)
    /\ cur' = [cur EXCEPT ![w] = 0]
    /\ position' = [position EXCEPT ![w] = 0]
    /\ owner' = [s \in Service |-> IF owner[s] = w THEN NoWorker ELSE owner[s]]

\* listen(): the topics exist from then on, and the consumer has subscribed.
Listen(w) ==
    /\ pc[w] \in Down
    /\ Goto(w, "poll")
    /\ UNCHANGED <<cluster, committed, owner, locals, pub, position, cur, history, faults>>

\* A bug: AUTO_OFFSET_RESET "latest": a group without an offset starts at the end.
Assign_Latest(w) ==
    LET s == ServiceOf[w]
    IN  /\ pc[w] \notin Down
        /\ owner[s] # w
        /\ IF owner[s] = NoWorker THEN UNCHANGED faults ELSE Fault
        /\ owner' = [owner EXCEPT ![s] = w]
        /\ position' = [position EXCEPT ![w] =
              IF committed[s] = 0 THEN Len(topic) ELSE committed[s]]
        /\ UNCHANGED <<cluster, committed, locals, pub, pc, cur, history>>

\* The group assigns the partition to w, from the committed offset on (from the
\* start without one, AUTO_OFFSET_RESET); taking it from a live worker, whose
\* handler goes on, spends a fault.
Assign(w) ==
    LET s == ServiceOf[w]
    IN  /\ pc[w] \notin Down
        /\ owner[s] # w
        /\ IF owner[s] = NoWorker THEN UNCHANGED faults ELSE Fault
        /\ owner' = [owner EXCEPT ![s] = w]
        /\ position' = [position EXCEPT ![w] = committed[s]]
        /\ UNCHANGED <<cluster, committed, locals, pub, pc, cur, history>>

\* poll() returns the next record; one that does not load is only committed.
Poll(w) ==
    /\ pc[w] = "poll"
    /\ owner[ServiceOf[w]] = w
    /\ position[w] < Len(topic)
    /\ position' = [position EXCEPT ![w] = @ + 1]
    /\ cur' = [cur EXCEPT ![w] = position[w] + 1]
    /\ Goto(w, IF topic[position[w] + 1].event \in Unreadable THEN "discard" ELSE "handle")
    /\ UNCHANGED <<cluster, committed, owner, locals, pub, history, faults>>

-------------------------------------------------------------------------------
(* dispatch(), ack() and fail() *)

Bump(n, cap) == IF n < cap THEN n + 1 ELSE cap

\* The receivers of ok succeed on the envelope w holds.
RunReceivers(w, ok, isFailed) ==
    LET s == ServiceOf[w]
        e == topic[cur[w]].event
    IN  /\ served' = [served EXCEPT ![s][e] = @ \cup ok]
        /\ tried' = [tried EXCEPT ![s][e] = Bump(@, MaxRetries + 1)]
        /\ failed' = [failed EXCEPT ![s][e] = IF isFailed THEN Bump(@, MaxRetries) ELSE @]

Dispatch(w) ==
    /\ pc[w] = "handle"
    /\ \E bad \in SUBSET Receiver :
        /\ RunReceivers(w, Receiver \ bad, bad # {})
        /\ Goto(w, IF bad = {} THEN "ack" ELSE "fail")
    /\ UNCHANGED <<cluster, committed, owner, locals, pub, position, cur, faults>>

\* commit(message=msg): the group goes on after msg, and the loop polls again.
\* The coordinator takes the commit of any member, the owner or not.
Commit(w) ==
    /\ pc[w] \in {"discard", "ack", "commit"}
    /\ committed' = [committed EXCEPT ![ServiceOf[w]] = cur[w]]
    /\ Goto(w, "poll")
    /\ cur' = [cur EXCEPT ![w] = 0]
    /\ UNCHANGED <<cluster, owner, locals, pub, position, history, faults>>

\* The commit fails, executed or not, and nothing catches the error.
CommitRaises(w) ==
    /\ pc[w] \in {"discard", "ack", "commit"}
    /\ Fault
    /\ \/ committed' = [committed EXCEPT ![ServiceOf[w]] = cur[w]]
       \/ UNCHANGED committed
    /\ Exit(w, "raised")
    /\ UNCHANGED <<cluster, locals, pub, history>>

\* A bug: the first failed attempt is counted twice.
Attempt_Twice(rec) == IF rec.count = 0 THEN 2 ELSE rec.count + 1

\* fail() publishes the event again, or to the dead-letter on the last attempt.
Attempt(rec) == rec.count + 1

\* A bug: fail() retries while attempt <= MAX_RETRIES.
Resend_OffByOne(rec, s) ==
    IF Attempt(rec) <= MaxRetries
    THEN [rec |-> [rec EXCEPT !.count = Attempt(rec)], to |-> "topic"]
    ELSE [rec |-> [rec EXCEPT !.count = Attempt(rec)], to |-> s]

Resend(rec, s) ==
    IF Attempt(rec) < MaxRetries
    THEN [rec |-> [rec EXCEPT !.count = Attempt(rec)], to |-> "topic"]
    ELSE [rec |-> [rec EXCEPT !.count = Attempt(rec)], to |-> s]

\* A bug: fail() commits without publishing the event again.
Fail_CommitOnly(w) ==
    /\ pc[w] = "fail"
    /\ Goto(w, "commit")
    /\ UNCHANGED <<cluster, committed, owner, locals, pub, position, cur, history, faults>>

Fail(w) ==
    /\ pc[w] = "fail"
    /\ LET r == Resend(topic[cur[w]], ServiceOf[w])
       IN  \/ /\ Produced(w, r.rec, r.to)
              /\ Goto(w, "commit")
              /\ UNCHANGED <<position, cur, owner>>
           \/ ProduceRaises(r.rec, r.to) /\ Exit(w, "raised")
    /\ UNCHANGED <<committed, pub, history>>

\* A kill, or a stop before the dispatch; the local queue dies with the process.
Kill(w) ==
    /\ pc[w] \notin Down
    /\ Fault
    /\ IF pc[w] = "handle"
       THEN \E ok \in SUBSET Receiver : RunReceivers(w, ok, FALSE)
       ELSE UNCHANGED history
    /\ LoseAll({m \in queue : m.from = w})
    /\ Exit(w, "killed")
    /\ UNCHANGED <<cluster, committed, pub>>

-------------------------------------------------------------------------------
Work(w) == Listen(w) \/ Poll(w) \/ Dispatch(w) \/ Commit(w) \/ Fail(w)

Next ==
    \/ \E e \in Event : Publish(e)
    \/ \E w \in Worker : Work(w) \/ Assign(w) \/ CommitRaises(w) \/ Kill(w)
    \/ \E m \in queue : Deliver(m) \/ Lose(m)

Spec == Init /\ [][Next]_vars

\* Workers go on and are restarted, a free partition is assigned, and librdkafka
\* goes on with what is in its queue.
Fairness ==
    /\ \A w \in Worker :
        /\ WF_vars(Work(w))
        /\ WF_vars(Assign(w) /\ owner[ServiceOf[w]] = NoWorker)
    /\ WF_vars(\E m \in queue : Deliver(m))

FairSpec == Spec /\ Fairness

-------------------------------------------------------------------------------
(* Properties *)

EventsOf(lo, hi) == {topic[i].event : i \in lo .. hi}

Accepted == EventsOf(1, Len(topic))

\* The bus as service s sees it: it is owed the topic after its committed offset,
\* and what its workers have still to publish again from a local queue.
Owed(s) == EventsOf(committed[s] + 1, Len(topic)) \cup LeftBy(s, queue)

Bus(s) == INSTANCE EventBus WITH
    accepted <- Accepted, owed <- Owed(s), served <- served[s], dead <- dead[s],
    lost <- lost[s]

\* The broker implements the abstract bus for each of the services on the topic:
\* none gives up an event it has not processed, whatever the others publish
\* again, across rebalances, crashes, and failed commits, but for those a local
\* queue loses after flush() gave up.
BusSpec ==
    /\ \A s \in Service : Bus(s)!Init
    /\ [][\A s \in Service : Bus(s)!Next \/ UNCHANGED Bus(s)!vars]_vars

Settled(s, e) == served[s][e] = Receiver \/ e \in dead[s] \/ e \in Unreadable

\* Once e is stored, every service, subscribed before or after, ends up with e
\* processed by its receivers or put in its dead-letter, unless flush() gave up.
EventuallySettled ==
    \A e \in Event :
        e \in Accepted ~> \A s \in Service : Settled(s, e) \/ e \in lost[s]

\* No other service has failed on e, and published it again.
Alone(s, e) == \A t \in Service \ {s} : failed[t][e] = 0

\* A service dead-letters an event only after MAX_RETRIES failed attempts of its
\* own, across crashes, rebalances and duplicates, as long as the others do not
\* fail on it.
BuriedAfterMaxRetries ==
    \A s \in Service : \A e \in dead[s] : Alone(s, e) => failed[s][e] >= MaxRetries

\* As long as nothing fails but receivers, and the others do not fail on it, a service
\* runs its receivers on an event once, again for each failure, MAX_RETRIES times at most.
AttemptsBounded ==
    faults = MaxFaults =>
        \A s \in Service, e \in Event :
            Alone(s, e) => tried[s][e] <= MaxRetries /\ tried[s][e] <= failed[s][e] + 1

-------------------------------------------------------------------------------
(* What the sources say and the code does not do *)

\* README.md:79 "All three infra-backed brokers give the same at-least-once"
\* semantics: a service that has committed a record has settled its event, or
\* will see it again.
NeverLost ==
    \A s \in Service : \A i \in 1 .. committed[s] :
        Settled(s, topic[i].event) \/ topic[i].event \in Owed(s)

\* kafka.py:115 "MAX_RETRIES: attempts before dead-letter": attempts of the
\* service whose dead-letter it is.
BuriedByOwnFailures ==
    \A s \in Service : \A e \in dead[s] : failed[s][e] >= MaxRetries

\* kafka.py:207 "a publish() that returns guarantees the message reached the
\* Kafka broker".
PublishedIsStored == \A e \in Event : pub[e] = "returned" => e \in Accepted
===============================================================================
