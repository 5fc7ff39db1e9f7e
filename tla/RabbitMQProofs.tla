----------------------------- MODULE RabbitMQProofs -----------------------------
(***************************************************************************)
(* The RabbitMQ broker implements EventBus for each service, and           *)
(* dead-letters an event only after MAX_RETRIES failures of the service's  *)
(* own, although every rejection of one service sends the message round to *)
(* all.  The order of its queues and the duplicates in them do not matter. *)
(* Last, how often an event is dispatched when only receivers fail.        *)
(***************************************************************************)
EXTENDS RabbitMQ, TLAPS

USE WorkersAssumption, BoundsAssumption

-------------------------------------------------------------------------------
(* The inductive invariant *)

Holding == {"discard", "handle", "ack", "fail"}

Settled(s, e) == served[s][e] = Receiver \/ e \in BuriedBy(s)

\* A message that a queue or a worker of service s has: it came through an exchange
\* after s had declared its queues, and no service has rejected it more often than it
\* has failed on its event.
MessageOK(m, s) ==
    /\ m \in Message
    /\ s \in declared
    /\ m.event \in accepted[s]
    /\ \A t \in Service : m.deaths[t] <= failed[t][m.event]

QueueInv ==
    /\ DOMAIN main = Service /\ DOMAIN retry = Service
    /\ \A s \in Service : \A m \in BagToSet(main[s]) \cup BagToSet(retry[s]) : MessageOK(m, s)

BuriedInv ==
    \A s \in Service : \A d \in dlq[s] : failed[d.by][d.event] >= MaxRetries

\* What a worker acknowledges on the channel that delivered it is settled.
WorkerInv(w) ==
    LET s == ServiceOf[w]
        e == cur[w].event
    IN  /\ pc[w] \in Down \/ s \in declared
        /\ IF pc[w] \in Holding THEN MessageOK(cur[w], s) ELSE cur[w] = None
        /\ pc[w] \in {"handle", "fail"} => e \notin Unreadable
        /\ pc[w] = "discard" => e \in Unreadable
        /\ pc[w] = "ack" /\ link[w] = "up" => Settled(s, e)
        /\ pc[w] = "fail" => Attempt(w) <= failed[s][e]

IndInv ==
    /\ TypeOK /\ QueueInv /\ BuriedInv
    /\ \A w \in Worker : WorkerInv(w)

-------------------------------------------------------------------------------
(* Queues *)

LEMMA NoMessage == None \notin Message
  BY DEF None, Message

LEMMA EmptyQueue == IsQueue(EmptyBag) /\ BagToSet(EmptyBag) = {}
  BY DEF IsQueue, EmptyBag, IsABag, BagToSet, SetToBag

LEMMA Added ==
    ASSUME NEW q, NEW m \in Message, IsQueue(q)
    PROVE  /\ IsQueue(BagAdd(q, m))
           /\ BagToSet(BagAdd(q, m)) = BagToSet(q) \cup {m}
           /\ EventsOf(BagAdd(q, m)) = EventsOf(q) \cup {m.event}
  <1>1. IsQueue(BagAdd(q, m)) /\ BagToSet(BagAdd(q, m)) = BagToSet(q) \cup {m}
    BY DEF IsQueue, BagAdd, IsABag, BagToSet
  <1> QED
    BY <1>1 DEF EventsOf

LEMMA Removed ==
    ASSUME NEW q, NEW m, IsQueue(q)
    PROVE  /\ IsQueue(BagRemove(q, m))
           /\ BagToSet(BagRemove(q, m)) \subseteq BagToSet(q)
           /\ EventsOf(q) \ {m.event} \subseteq EventsOf(BagRemove(q, m))
           /\ EventsOf(BagRemove(q, m)) \subseteq EventsOf(q)
  <1>1. /\ IsQueue(BagRemove(q, m))
        /\ BagToSet(BagRemove(q, m)) \subseteq BagToSet(q)
        /\ BagToSet(q) \ {m} \subseteq BagToSet(BagRemove(q, m))
    BY DEF IsQueue, BagRemove, IsABag, BagToSet
  <1> QED
    BY <1>1 DEF EventsOf

\* An exchange adds the message to the queues of the declared services.
LEMMA Routed ==
    ASSUME NEW queues, NEW m \in Message, \A s \in Service : IsQueue(queues[s])
    PROVE  /\ DOMAIN Route(queues, m) = Service
           /\ \A s \in Service :
                /\ IsQueue(Route(queues, m)[s])
                /\ s \in declared =>
                     /\ BagToSet(Route(queues, m)[s]) = BagToSet(queues[s]) \cup {m}
                     /\ EventsOf(Route(queues, m)[s]) = EventsOf(queues[s]) \cup {m.event}
                /\ s \notin declared => Route(queues, m)[s] = queues[s]
  BY Added DEF Route

LEMMA Reached ==
    ASSUME TypeOK, NEW e \in Event, Reach(e)
    PROVE  /\ accepted' \in [Service -> SUBSET Event]
           /\ \A s \in Service : accepted'[s] = IF s \in declared THEN accepted[s] \cup {e} ELSE accepted[s]
  BY DEF Reach, TypeOK

\* An unacknowledged message is back in its queue.
LEMMA Requeued ==
    ASSUME IndInv, NEW w \in Worker, Requeue(w)
    PROVE  /\ DOMAIN main' = Service
           /\ \A s \in Service :
                /\ IsQueue(main'[s])
                /\ \A m \in BagToSet(main'[s]) : m \in BagToSet(main[s]) \/ MessageOK(m, s)
                /\ IF ServiceOf[w] = s /\ link[w] = "up" /\ cur[w] # None
                   THEN EventsOf(main'[s]) = EventsOf(main[s]) \cup {cur[w].event}
                   ELSE main'[s] = main[s]
  <1>1. CASE cur[w] = None \/ link[w] # "up"
    BY <1>1 DEF Requeue, IndInv, QueueInv, TypeOK
  <1>2. CASE cur[w] # None /\ link[w] = "up"
    <2>1. cur[w] \in Message /\ MessageOK(cur[w], ServiceOf[w])
      BY <1>2 DEF IndInv, WorkerInv, MessageOK
    <2>2. main' = [main EXCEPT ![ServiceOf[w]] = BagAdd(@, cur[w])]
      BY <1>2 DEF Requeue
    <2>3. IsQueue(main[ServiceOf[w]])
      BY DEF IndInv, TypeOK
    <2> QED
      BY <1>2, <2>1, <2>2, <2>3, Added DEF IndInv, QueueInv, TypeOK
  <1> QED
    BY <1>1, <1>2

-------------------------------------------------------------------------------
(* What every step keeps *)

Grows ==
    /\ declared \subseteq declared'
    /\ \A s \in Service : accepted[s] \subseteq accepted'[s] /\ dlq[s] \subseteq dlq'[s]
    /\ \A s \in Service, e \in Event :
          served[s][e] \subseteq served'[s][e] /\ failed[s][e] <= failed'[s][e]

LEMMA MessageKept ==
    ASSUME TypeOK, TypeOK', Grows, NEW m, NEW s \in Service, MessageOK(m, s)
    PROVE  MessageOK(m, s)'
  <1>1. m \in Message /\ s \in declared' /\ m.event \in accepted'[s]
    BY DEF MessageOK, Grows
  <1>2. ASSUME NEW t \in Service PROVE m.deaths[t] <= failed'[t][m.event]
    <2> PICK e \in Event, n \in Nat : e = m.event /\ n = m.deaths[t]
      BY DEF MessageOK, Message
    <2>1. n <= failed[t][e] /\ failed[t][e] <= failed'[t][e]
      BY DEF MessageOK, Grows
    <2>2. failed[t][e] \in Nat /\ failed'[t][e] \in Nat
      BY DEF TypeOK
    <2> QED
      BY <2>1, <2>2
  <1> QED
    BY <1>1, <1>2 DEF MessageOK

LEMMA SettledKept ==
    ASSUME TypeOK, TypeOK', Grows, NEW s \in Service, NEW e \in Event, Settled(s, e)
    PROVE  Settled(s, e)'
  <1>1. served[s][e] \subseteq served'[s][e] /\ served'[s][e] \subseteq Receiver
    BY DEF Grows, TypeOK
  <1>2. BuriedBy(s) \subseteq BuriedBy(s)'
    BY DEF BuriedBy, Grows
  <1> QED
    BY <1>1, <1>2 DEF Settled

LEMMA WorkerKept ==
    ASSUME TypeOK, TypeOK', Grows, NEW w \in Worker, WorkerInv(w),
           UNCHANGED <<pc[w], cur[w], link[w]>>
    PROVE  WorkerInv(w)'
  <1> DEFINE s == ServiceOf[w]
  <1>1. s \in Service /\ (pc[w] \in Down \/ s \in declared')
    BY DEF WorkerInv, Grows
  <1>2. CASE pc[w] \in Holding
    <2>1. MessageOK(cur[w], s) /\ cur[w].event \in Event
      BY <1>2 DEF WorkerInv, MessageOK, Message
    <2>2. MessageOK(cur[w], s)'
      <3> PICK m : m = cur[w]
        OBVIOUS
      <3>1. MessageOK(m, s)'
        BY <2>1, MessageKept
      <3> QED
        BY <3>1 DEF MessageOK
    <2>3. pc[w] = "ack" /\ link[w] = "up" => Settled(s, cur[w].event)'
      <3> PICK e \in Event : e = cur[w].event
        BY <2>1
      <3>1. Settled(s, e) => Settled(s, e)'
        BY SettledKept
      <3> QED
        BY <3>1 DEF WorkerInv, Settled
    <2>4. pc[w] = "fail" => Attempt(w)' <= failed'[s][cur'[w].event]
      <3> PICK e \in Event, n \in Nat : e = cur[w].event /\ n = cur[w].deaths[s]
        BY <2>1 DEF MessageOK, Message
      <3>1. pc[w] = "fail" => n + 1 <= failed[s][e]
        BY DEF WorkerInv, Attempt
      <3>2. failed[s][e] \in Nat /\ failed'[s][e] \in Nat /\ failed[s][e] <= failed'[s][e]
        BY DEF TypeOK, Grows
      <3>3. pc[w] = "fail" => n + 1 <= failed'[s][e]
        BY <3>1, <3>2
      <3> QED
        BY <3>3 DEF Attempt
    <2> QED
      BY <1>1, <1>2, <2>2, <2>3, <2>4 DEF WorkerInv
  <1>3. CASE pc[w] \notin Holding
    BY <1>1, <1>3 DEF WorkerInv, Holding
  <1> QED
    BY <1>2, <1>3

LEMMA Assemble ==
    ASSUME IndInv, TypeOK', Grows,
           DOMAIN main' = Service, DOMAIN retry' = Service,
           \A s \in Service : \A m \in BagToSet(main'[s]) \cup BagToSet(retry'[s]) :
               m \in BagToSet(main[s]) \cup BagToSet(retry[s]) \/ MessageOK(m, s) \/ MessageOK(m, s)',
           \A s \in Service : \A d \in dlq'[s] : d \in dlq[s] \/ failed[d.by][d.event] >= MaxRetries,
           \A w \in Worker : UNCHANGED <<pc[w], cur[w], link[w]>> \/ WorkerInv(w)'
    PROVE  IndInv'
  <1>1. QueueInv'
    <2> SUFFICES ASSUME NEW s \in Service, NEW m \in BagToSet(main'[s]) \cup BagToSet(retry'[s])
                 PROVE  MessageOK(m, s)'
      BY DEF QueueInv
    <2>1. MessageOK(m, s) \/ MessageOK(m, s)'
      BY DEF IndInv, QueueInv
    <2> QED
      BY <2>1, MessageKept DEF IndInv
  <1>2. BuriedInv'
    <2> SUFFICES ASSUME NEW s \in Service, NEW d \in dlq'[s]
                 PROVE  failed'[d.by][d.event] >= MaxRetries
      BY DEF BuriedInv
    <2>1. d.by \in Service /\ d.event \in Event
      BY DEF TypeOK
    <2>2. failed[d.by][d.event] >= MaxRetries
      BY DEF IndInv, BuriedInv
    <2>3. /\ failed[d.by][d.event] \in Nat /\ failed'[d.by][d.event] \in Nat
          /\ failed[d.by][d.event] <= failed'[d.by][d.event]
      BY <2>1 DEF IndInv, TypeOK, Grows
    <2> QED
      BY <2>2, <2>3
  <1>3. \A w \in Worker : WorkerInv(w)'
    BY WorkerKept DEF IndInv
  <1> QED
    BY <1>1, <1>2, <1>3 DEF IndInv

LEMMA InitIndInv == Init => IndInv
  <1> SUFFICES ASSUME Init PROVE IndInv
    OBVIOUS
  <1>1. TypeOK
    BY EmptyQueue DEF Init, TypeOK, Down
  <1>2. QueueInv
    BY EmptyQueue DEF Init, QueueInv
  <1>3. BuriedInv
    BY DEF Init, BuriedInv
  <1>4. \A w \in Worker : WorkerInv(w)
    BY DEF Init, WorkerInv, Down, Holding
  <1> QED
    BY <1>1, <1>2, <1>3, <1>4 DEF IndInv

-------------------------------------------------------------------------------
(* The inductive step *)

LEMMA Queues ==
    ASSUME IndInv
    PROVE  \A s \in Service : IsQueue(main[s]) /\ IsQueue(retry[s])
  BY DEF IndInv, TypeOK

LEMMA FreshOK == \A e \in Event : Fresh(e) \in Message /\ Fresh(e).event = e
  BY DEF Fresh, Message

\* A worker that holds nothing.
LEMMA Empty ==
    ASSUME NEW w \in Worker, cur'[w] = None, pc'[w] \in Down \cup {"poll"},
           pc'[w] \in Down \/ ServiceOf[w] \in declared'
    PROVE  WorkerInv(w)'
  BY DEF WorkerInv, Holding, Down

\* A worker ends.
LEMMA Exits ==
    ASSUME IndInv, NEW w \in Worker, NEW why \in Down, Exit(w, why)
    PROVE  /\ pc' \in [Worker -> Down \cup {"poll", "discard", "handle", "ack", "fail"}]
           /\ cur' \in [Worker -> Message \cup {None}]
           /\ link' \in [Worker -> {"up", "lost", "down"}]
           /\ pc'[w] = why /\ cur'[w] = None /\ link'[w] = "down"
           /\ \A v \in Worker \ {w} : UNCHANGED <<pc[v], cur[v], link[v]>>
           /\ WorkerInv(w)'
  <1>1. /\ pc' \in [Worker -> Down \cup {"poll", "discard", "handle", "ack", "fail"}]
        /\ cur' \in [Worker -> Message \cup {None}]
        /\ link' \in [Worker -> {"up", "lost", "down"}]
        /\ pc'[w] = why /\ cur'[w] = None /\ link'[w] = "down"
        /\ \A v \in Worker \ {w} : UNCHANGED <<pc[v], cur[v], link[v]>>
    BY DEF Exit, Goto, IndInv, TypeOK
  <1> QED
    BY <1>1, Empty

\* A worker is done with its message.
LEMMA Forgets ==
    ASSUME IndInv, NEW w \in Worker, pc[w] \in Holding, Forget(w), UNCHANGED <<link, declared>>
    PROVE  /\ pc' \in [Worker -> Down \cup {"poll", "discard", "handle", "ack", "fail"}]
           /\ cur' \in [Worker -> Message \cup {None}]
           /\ cur'[w] = None
           /\ \A v \in Worker \ {w} : UNCHANGED <<pc[v], cur[v], link[v]>>
           /\ WorkerInv(w)'
  <1>1. /\ pc' \in [Worker -> Down \cup {"poll", "discard", "handle", "ack", "fail"}]
        /\ cur' \in [Worker -> Message \cup {None}]
        /\ pc'[w] = "poll" /\ cur'[w] = None
        /\ \A v \in Worker \ {w} : UNCHANGED <<pc[v], cur[v], link[v]>>
    BY DEF Forget, Goto, IndInv, TypeOK
  <1>2. ServiceOf[w] \in declared'
    BY DEF IndInv, WorkerInv, Holding, Down
  <1> QED
    BY <1>1, <1>2, Empty

\* A message goes through the main exchange.
LEMMA Sent ==
    ASSUME IndInv, NEW m \in Message, \A t \in Service : m.deaths[t] <= failed[t][m.event],
           ToMain(m), UNCHANGED <<declared, dlq, history>>
    PROVE  /\ DOMAIN main' = Service /\ \A s \in Service : IsQueue(main'[s])
           /\ accepted' \in [Service -> SUBSET Event]
           /\ \A s \in Service : \A n \in BagToSet(main'[s]) : n \in BagToSet(main[s]) \/ MessageOK(n, s)'
           /\ Grows
  <1>1. main' = Route(main, m) /\ Reach(m.event) /\ m.event \in Event
    BY DEF ToMain, Message
  <1>2. /\ accepted' \in [Service -> SUBSET Event]
        /\ \A s \in Service : accepted'[s] = IF s \in declared THEN accepted[s] \cup {m.event} ELSE accepted[s]
    BY <1>1, Reached DEF IndInv
  <1>3. /\ DOMAIN main' = Service
        /\ \A s \in Service :
             /\ IsQueue(main'[s])
             /\ s \in declared => BagToSet(main'[s]) = BagToSet(main[s]) \cup {m}
             /\ s \notin declared => main'[s] = main[s]
    BY <1>1, Routed, Queues
  <1>4. Grows
    <2>1. \A s \in Service, e \in Event : failed[s][e] \in Nat
      BY DEF IndInv, TypeOK
    <2> QED
      BY <1>2, <2>1 DEF Grows, history
  <1>5. \A s \in declared : s \in Service => MessageOK(m, s)'
    BY <1>2 DEF MessageOK, history
  <1> QED
    BY <1>2, <1>3, <1>4, <1>5

LEMMA PublishStep ==
    ASSUME IndInv, NEW e \in Event,
           Publish(e) \/ PublishInterrupted(e) \/ PublishVanishes(e)
    PROVE  IndInv'
  <1> PICK m \in Message : m = Fresh(e)
    BY FreshOK
  <1>1. /\ ToMain(m) \/ UNCHANGED <<main, accepted>>
        /\ UNCHANGED <<declared, retry, dlq, worker, history>>
    BY DEF Publish, PublishInterrupted, PublishVanishes, server
  <1>2. /\ pub' \in [Event -> {"pending", "returned", "raised"}]
        /\ attempt' \in [Event -> 1 .. PublishRetries + 1]
        /\ faults' \in 0 .. MaxFaults
    <2>1. faults' \in 0 .. MaxFaults
      BY DEF Publish, PublishInterrupted, PublishVanishes, Fault, IndInv, TypeOK
    <2>2. /\ pub' = pub \/ \E x \in {"returned", "raised"} : pub' = [pub EXCEPT ![e] = x]
          /\ \/ attempt' = attempt
             \/ attempt[e] <= PublishRetries /\ attempt' = [attempt EXCEPT ![e] = @ + 1]
      BY DEF Publish, PublishInterrupted, PublishVanishes
    <2>3. attempt[e] <= PublishRetries => attempt[e] + 1 \in 1 .. PublishRetries + 1
      BY DEF IndInv, TypeOK
    <2>4. pub' \in [Event -> {"pending", "returned", "raised"}]
      BY <2>2 DEF IndInv, TypeOK
    <2>5. attempt' \in [Event -> 1 .. PublishRetries + 1]
      <3>1. attempt \in [Event -> 1 .. PublishRetries + 1]
        BY DEF IndInv, TypeOK
      <3> PICK n : n = attempt[e] + 1
        OBVIOUS
      <3>2. attempt' = attempt \/ (n \in 1 .. PublishRetries + 1 /\ attempt' = [attempt EXCEPT ![e] = n])
        BY <2>2, <2>3
      <3> QED
        BY <3>1, <3>2
    <2> QED
      BY <2>1, <2>4, <2>5
  <1>3. /\ DOMAIN main' = Service /\ \A s \in Service : IsQueue(main'[s])
        /\ accepted' \in [Service -> SUBSET Event]
        /\ \A s \in Service : \A n \in BagToSet(main'[s]) : n \in BagToSet(main[s]) \/ MessageOK(n, s)'
        /\ Grows
    <2>1. CASE ToMain(m)
      <3>1. \A t \in Service : m.deaths[t] <= failed[t][m.event]
        BY DEF Fresh, IndInv, TypeOK
      <3> QED
        BY <1>1, <2>1, <3>1, Sent
    <2>2. CASE UNCHANGED <<main, accepted>>
      <3>1. \A s \in Service, d \in Event : failed[s][d] \in Nat
        BY DEF IndInv, TypeOK
      <3> QED
        BY <1>1, <2>2, <3>1 DEF Grows, history, IndInv, QueueInv, TypeOK
    <2> QED
      BY <1>1, <2>1, <2>2
  <1>4. TypeOK'
    BY <1>1, <1>2, <1>3 DEF worker, history, IndInv, TypeOK
  <1>5. DOMAIN retry' = Service
    BY <1>1 DEF IndInv, QueueInv
  <1> QED
    BY <1>1, <1>3, <1>4, <1>5, Assemble DEF worker

LEMMA ExpireStep ==
    ASSUME IndInv, NEW s \in Service, NEW m \in BagToSet(retry[s]), Expire(s, m)
    PROVE  IndInv'
  <1>1. /\ retry' = [retry EXCEPT ![s] = BagRemove(@, m)]
        /\ ToMain(m) /\ UNCHANGED <<declared, dlq, publisher, worker, history, faults>>
    BY DEF Expire
  <1>2. MessageOK(m, s)
    BY DEF IndInv, QueueInv
  <1>3. /\ DOMAIN main' = Service /\ \A t \in Service : IsQueue(main'[t])
        /\ accepted' \in [Service -> SUBSET Event]
        /\ \A t \in Service : \A n \in BagToSet(main'[t]) : n \in BagToSet(main[t]) \/ MessageOK(n, t)'
        /\ Grows
    BY <1>1, <1>2, Sent DEF MessageOK
  <1>4. /\ DOMAIN retry' = Service
        /\ \A t \in Service : IsQueue(retry'[t]) /\ BagToSet(retry'[t]) \subseteq BagToSet(retry[t])
    BY <1>1, Queues, Removed DEF IndInv, QueueInv
  <1>5. TypeOK'
    BY <1>1, <1>3, <1>4 DEF publisher, worker, history, IndInv, TypeOK
  <1> QED
    BY <1>1, <1>3, <1>4, <1>5, Assemble DEF worker

\* Steps that leave the accepted events and the history.
LEMMA Quiet ==
    ASSUME IndInv, UNCHANGED <<accepted, dlq, history>>, declared \subseteq declared'
    PROVE  Grows
  <1>1. \A s \in Service, e \in Event : failed[s][e] \in Nat
    BY DEF IndInv, TypeOK
  <1> QED
    BY <1>1 DEF Grows, history

LEMMA ListenStep == ASSUME IndInv, NEW w \in Worker, Listen(w) PROVE IndInv'
  <1>1. /\ pc[w] \in Down /\ Goto(w, "poll") /\ link' = [link EXCEPT ![w] = "up"]
        /\ declared' = declared \cup {ServiceOf[w]}
        /\ UNCHANGED <<main, retry, dlq, accepted, publisher, cur, history, faults>>
    BY DEF Listen
  <1>2. TypeOK'
    BY <1>1 DEF Goto, publisher, history, IndInv, TypeOK
  <1>3. /\ pc'[w] = "poll" /\ cur'[w] = None
        /\ \A v \in Worker \ {w} : UNCHANGED <<pc[v], cur[v], link[v]>>
    BY <1>1 DEF Goto, IndInv, TypeOK, WorkerInv, Holding, Down
  <1>4. WorkerInv(w)'
    BY <1>1, <1>3, Empty
  <1> QED
    BY <1>1, <1>2, <1>3, <1>4, Quiet, Assemble DEF IndInv, QueueInv

LEMMA ReceiveStep == ASSUME IndInv, NEW w \in Worker, Receive(w) PROVE IndInv'
  <1> DEFINE s == ServiceOf[w]
  <1>1. PICK m \in BagToSet(main[s]) :
            /\ main' = [main EXCEPT ![s] = BagRemove(@, m)]
            /\ cur' = [cur EXCEPT ![w] = m]
            /\ Goto(w, IF m.event \in Unreadable THEN "discard" ELSE "handle")
    BY DEF Receive
  <1> PICK label \in {"discard", "handle"} :
           label = IF m.event \in Unreadable THEN "discard" ELSE "handle"
    OBVIOUS
  <1>2. UNCHANGED <<declared, retry, dlq, accepted, publisher, link, history, faults>>
    BY DEF Receive
  <1>3. MessageOK(m, s) /\ m \in Message
    BY DEF IndInv, QueueInv, MessageOK
  <1>4. /\ DOMAIN main' = Service
        /\ \A t \in Service : IsQueue(main'[t]) /\ BagToSet(main'[t]) \subseteq BagToSet(main[t])
    BY <1>1, Queues, Removed DEF IndInv, QueueInv
  <1>5. /\ pc' \in [Worker -> Down \cup {"poll", "discard", "handle", "ack", "fail"}]
        /\ cur' \in [Worker -> Message \cup {None}]
        /\ pc'[w] = label /\ cur'[w] = m
        /\ \A v \in Worker \ {w} : UNCHANGED <<pc[v], cur[v], link[v]>>
    BY <1>1, <1>2, <1>3 DEF Goto, IndInv, TypeOK
  <1>6. TypeOK'
    BY <1>2, <1>4, <1>5 DEF publisher, history, IndInv, TypeOK
  <1>7. WorkerInv(w)'
    BY <1>2, <1>3, <1>5 DEF WorkerInv, MessageOK, Holding, history
  <1> QED
    BY <1>2, <1>4, <1>5, <1>6, <1>7, Quiet, Assemble DEF IndInv, QueueInv

LEMMA ReceiveStaleStep == ASSUME IndInv, NEW w \in Worker, ReceiveStale(w) PROVE IndInv'
  <1> DEFINE s == ServiceOf[w]
  <1>1. PICK m \in BagToSet(main[s]) :
            /\ cur' = [cur EXCEPT ![w] = m]
            /\ Goto(w, IF m.event \in Unreadable THEN "discard" ELSE "handle")
    BY DEF ReceiveStale
  <1> PICK label \in {"discard", "handle"} :
           label = IF m.event \in Unreadable THEN "discard" ELSE "handle"
    OBVIOUS
  <1>2. UNCHANGED <<declared, main, retry, dlq, accepted, publisher, link, history>>
        /\ faults' \in 0 .. MaxFaults
    BY DEF ReceiveStale, Fault, server, IndInv, TypeOK
  <1>3. MessageOK(m, s) /\ m \in Message
    BY DEF IndInv, QueueInv, MessageOK
  <1>4. /\ pc' \in [Worker -> Down \cup {"poll", "discard", "handle", "ack", "fail"}]
        /\ cur' \in [Worker -> Message \cup {None}]
        /\ pc'[w] = label /\ cur'[w] = m
        /\ \A v \in Worker \ {w} : UNCHANGED <<pc[v], cur[v], link[v]>>
    BY <1>1, <1>2, <1>3 DEF Goto, IndInv, TypeOK
  <1>5. TypeOK'
    BY <1>2, <1>4 DEF publisher, history, IndInv, TypeOK
  <1>6. ServiceOf[w] \in declared'
    BY <1>2 DEF ReceiveStale, IndInv, WorkerInv, Down
  <1>7. WorkerInv(w)'
    BY <1>2, <1>3, <1>4, <1>6 DEF WorkerInv, MessageOK, Holding, history
  <1> QED
    BY <1>2, <1>4, <1>5, <1>7, Quiet, Assemble DEF IndInv, QueueInv

LEMMA ReconnectStep == ASSUME IndInv, NEW w \in Worker, Reconnect(w) PROVE IndInv'
  <1>1. /\ pc[w] = "poll" /\ link' = [link EXCEPT ![w] = "up"]
        /\ UNCHANGED <<server, publisher, pc, cur, history, faults>>
    BY DEF Reconnect
  <1>2. TypeOK'
    BY <1>1 DEF server, publisher, history, IndInv, TypeOK
  <1>3. /\ cur'[w] = None /\ pc'[w] = "poll" /\ ServiceOf[w] \in declared'
        /\ \A v \in Worker \ {w} : UNCHANGED <<pc[v], cur[v], link[v]>>
    BY <1>1 DEF IndInv, TypeOK, WorkerInv, Holding, Down, server
  <1>4. WorkerInv(w)'
    BY <1>3, Empty
  <1> QED
    BY <1>1, <1>2, <1>3, <1>4, Quiet, Assemble DEF IndInv, QueueInv, server

LEMMA ReconnectRaisesStep == ASSUME IndInv, NEW w \in Worker, ReconnectRaises(w) PROVE IndInv'
  <1>1. /\ Exit(w, "raised") /\ faults' \in 0 .. MaxFaults
        /\ UNCHANGED <<server, publisher, history>>
    BY DEF ReconnectRaises, Fault, IndInv, TypeOK
  <1>2. /\ pc' \in [Worker -> Down \cup {"poll", "discard", "handle", "ack", "fail"}]
        /\ cur' \in [Worker -> Message \cup {None}]
        /\ link' \in [Worker -> {"up", "lost", "down"}]
        /\ \A v \in Worker \ {w} : UNCHANGED <<pc[v], cur[v], link[v]>>
        /\ WorkerInv(w)'
    BY <1>1, Exits DEF Down
  <1>3. TypeOK'
    BY <1>1, <1>2 DEF server, publisher, history, IndInv, TypeOK
  <1> QED
    BY <1>1, <1>2, <1>3, Quiet, Assemble DEF IndInv, QueueInv, server

LEMMA DropStep == ASSUME IndInv, NEW w \in Worker, Drop(w) PROVE IndInv'
  <1>1. /\ Requeue(w) /\ link' = [link EXCEPT ![w] = "lost"] /\ faults' \in 0 .. MaxFaults
        /\ UNCHANGED <<declared, retry, dlq, accepted, publisher, pc, cur, history>>
    BY DEF Drop, Fault, IndInv, TypeOK
  <1>2. /\ DOMAIN main' = Service
        /\ \A s \in Service : /\ IsQueue(main'[s])
                              /\ \A m \in BagToSet(main'[s]) : m \in BagToSet(main[s]) \/ MessageOK(m, s)
    BY <1>1, Requeued
  <1>3. TypeOK'
    BY <1>1, <1>2 DEF publisher, history, IndInv, TypeOK
  <1>4. /\ link'[w] = "lost"
        /\ \A v \in Worker \ {w} : UNCHANGED <<pc[v], cur[v], link[v]>>
    BY <1>1 DEF IndInv, TypeOK
  <1>5. WorkerInv(w)'
    BY <1>1, <1>4 DEF IndInv, WorkerInv, MessageOK, Attempt, history
  <1> QED
    BY <1>1, <1>2, <1>3, <1>4, <1>5, Quiet, Assemble DEF IndInv, QueueInv

\* The receivers run, to the end or until the process is killed.
LEMMA Receives ==
    ASSUME IndInv, NEW w \in Worker, pc[w] = "handle", NEW ok \in SUBSET Receiver,
           NEW isFailed \in BOOLEAN, RunReceivers(w, ok, isFailed), UNCHANGED <<declared, accepted, dlq>>
    PROVE  LET s == ServiceOf[w]
               e == cur[w].event
           IN  /\ MessageOK(cur[w], s) /\ e \in Event \ Unreadable
               /\ served' \in [Service -> [Event -> SUBSET Receiver]]
               /\ tried' \in [Service -> [Event -> 0 .. MaxRetries + 1]]
               /\ failed' \in [Service -> [Event -> 0 .. MaxRetries]]
               /\ Grows
               /\ ok \subseteq served'[s][e]
               /\ isFailed => Attempt(w) <= failed'[s][e]
  <1> DEFINE s == ServiceOf[w]
  <1> PICK e : e = cur[w].event
    OBVIOUS
  <1>1. MessageOK(cur[w], s) /\ e \in Event \ Unreadable /\ s \in Service
    BY DEF IndInv, WorkerInv, Holding, MessageOK, Message
  <1>2. /\ served' = [served EXCEPT ![s][e] = @ \cup ok]
        /\ tried' = [tried EXCEPT ![s][e] = Bump(@, MaxRetries + 1)]
        /\ failed' = [failed EXCEPT ![s][e] = IF isFailed THEN Bump(@, MaxRetries) ELSE @]
    BY DEF RunReceivers
  <1>3. /\ served' \in [Service -> [Event -> SUBSET Receiver]]
        /\ \A t \in Service, d \in Event : served[t][d] \subseteq served'[t][d]
        /\ ok \subseteq served'[s][e]
    BY <1>1, <1>2 DEF IndInv, TypeOK
  <1>4. PICK n \in 0 .. MaxRetries + 1 : n = Bump(tried[s][e], MaxRetries + 1)
    BY <1>1 DEF Bump, IndInv, TypeOK
  <1>5. /\ failed[s][e] \in 0 .. MaxRetries
        /\ Bump(failed[s][e], MaxRetries) \in 0 .. MaxRetries
        /\ Bump(failed[s][e], MaxRetries) >= failed[s][e]
        /\ Bump(failed[s][e], MaxRetries) \in {failed[s][e] + 1, MaxRetries}
    <2>1. failed[s][e] \in 0 .. MaxRetries
      BY <1>1 DEF IndInv, TypeOK
    <2> QED
      BY <2>1 DEF Bump
  <1> PICK m \in 0 .. MaxRetries :
            m = IF isFailed THEN Bump(failed[s][e], MaxRetries) ELSE failed[s][e]
    BY <1>5, Zenon
  <1>6. tried' = [tried EXCEPT ![s][e] = n] /\ failed' = [failed EXCEPT ![s][e] = m]
    BY <1>1, <1>2, <1>4 DEF IndInv, TypeOK
  <1>7. /\ tried' \in [Service -> [Event -> 0 .. MaxRetries + 1]]
        /\ failed' \in [Service -> [Event -> 0 .. MaxRetries]]
    BY <1>1, <1>6 DEF IndInv, TypeOK
  <1>8. \A t \in Service, d \in Event : failed[t][d] <= failed'[t][d]
    <2> TAKE t \in Service, d \in Event
    <2>1. failed \in [Service -> [Event -> 0 .. MaxRetries]] /\ failed[t][d] \in 0 .. MaxRetries
      BY DEF IndInv, TypeOK
    <2>2. m >= failed[s][e]
      BY <1>5
    <2>3. failed'[t][d] = IF t = s /\ d = e THEN m ELSE failed[t][d]
      BY <1>1, <1>6, <2>1
    <2> QED
      BY <2>1, <2>2, <2>3
  <1>9. isFailed => Attempt(w) <= failed'[s][e]
    <2> PICK k \in 0 .. MaxRetries - 1 : k = cur[w].deaths[s]
      BY <1>1 DEF MessageOK, Message
    <2>1. k <= failed[s][e]
      BY <1>1 DEF MessageOK
    <2>2. failed'[s][e] = m
      BY <1>1, <1>6 DEF IndInv, TypeOK
    <2>3. isFailed => k + 1 <= m
      BY <1>5, <2>1
    <2> QED
      BY <2>2, <2>3 DEF Attempt
  <1> QED
    BY <1>1, <1>3, <1>7, <1>8, <1>9 DEF Grows

LEMMA DispatchStep == ASSUME IndInv, NEW w \in Worker, Dispatch(w) PROVE IndInv'
  <1> DEFINE s == ServiceOf[w]
             e == cur[w].event
  <1>1. PICK bad \in SUBSET Receiver :
            /\ RunReceivers(w, Receiver \ bad, bad # {})
            /\ Goto(w, IF bad = {} THEN "ack" ELSE "fail")
    BY DEF Dispatch
  <1> PICK isFailed \in BOOLEAN : isFailed = (bad # {})
    OBVIOUS
  <1> PICK label \in {"ack", "fail"} : label = IF bad = {} THEN "ack" ELSE "fail"
    OBVIOUS
  <1>2. /\ pc[w] = "handle" /\ UNCHANGED <<server, publisher, cur, link, faults>>
    BY DEF Dispatch
  <1>3. /\ MessageOK(cur[w], s) /\ e \in Event \ Unreadable
        /\ served' \in [Service -> [Event -> SUBSET Receiver]]
        /\ tried' \in [Service -> [Event -> 0 .. MaxRetries + 1]]
        /\ failed' \in [Service -> [Event -> 0 .. MaxRetries]]
        /\ Grows
        /\ Receiver \ bad \subseteq served'[s][e]
        /\ isFailed => Attempt(w) <= failed'[s][e]
    BY <1>1, <1>2, Receives DEF server
  <1>4. /\ pc' \in [Worker -> Down \cup {"poll", "discard", "handle", "ack", "fail"}]
        /\ pc'[w] = label
        /\ \A v \in Worker \ {w} : UNCHANGED <<pc[v], cur[v], link[v]>>
    BY <1>1, <1>2 DEF Goto, IndInv, TypeOK
  <1>5. TypeOK'
    BY <1>2, <1>3, <1>4 DEF server, publisher, IndInv, TypeOK
  <1>6. WorkerInv(w)'
    <2>1. MessageOK(cur[w], s)'
      <3> PICK m : m = cur[w]
        OBVIOUS
      <3>1. MessageOK(m, s)'
        BY <1>3, <1>5, MessageKept DEF IndInv
      <3> QED
        BY <1>2, <3>1
    <2>2. label = "ack" => Settled(s, cur[w].event)'
      <3>1. label = "ack" => served'[s][e] = Receiver
        <4>1. served'[s][e] \subseteq Receiver
          BY <1>3
        <4> QED
          BY <1>3, <4>1
      <3> QED
        BY <1>2, <3>1 DEF Settled
    <2>3. label = "fail" => isFailed
      OBVIOUS
    <2> QED
      BY <1>2, <1>3, <1>4, <2>1, <2>2, <2>3 DEF WorkerInv, Holding, MessageOK, Attempt
  <1> QED
    BY <1>2, <1>3, <1>4, <1>5, <1>6, Assemble DEF server, IndInv, QueueInv
LEMMA AckStep == ASSUME IndInv, NEW w \in Worker, Ack(w) PROVE IndInv'
  <1>1. /\ pc[w] \in Holding /\ Forget(w)
        /\ UNCHANGED <<server, publisher, link, history, faults>>
    BY DEF Ack, Holding
  <1>2. /\ pc' \in [Worker -> Down \cup {"poll", "discard", "handle", "ack", "fail"}]
        /\ cur' \in [Worker -> Message \cup {None}]
        /\ \A v \in Worker \ {w} : UNCHANGED <<pc[v], cur[v], link[v]>>
        /\ WorkerInv(w)'
    BY <1>1, Forgets DEF server
  <1>3. TypeOK'
    BY <1>1, <1>2 DEF server, publisher, history, IndInv, TypeOK
  <1> QED
    BY <1>1, <1>2, <1>3, Quiet, Assemble DEF IndInv, QueueInv, server

\* What basic_nack sends round is a message again.
LEMMA RejectedOK ==
    ASSUME IndInv, NEW w \in Worker, pc[w] = "fail"
    PROVE  LET m == Rejected(cur[w], ServiceOf[w]) IN
           /\ cur[w].event \in Event \ Unreadable
           /\ cur[w].event \in accepted[ServiceOf[w]] /\ ServiceOf[w] \in declared
           /\ Attempt(w) < MaxRetries =>
                /\ m \in Message /\ m.event = cur[w].event
                /\ \A t \in Service : m.deaths[t] <= failed[t][m.event]
  <1> DEFINE s == ServiceOf[w]
  <1>1. MessageOK(cur[w], s) /\ Attempt(w) <= failed[s][cur[w].event] /\ cur[w].event \notin Unreadable
    BY DEF IndInv, WorkerInv, Holding
  <1> PICK c \in Message : c = cur[w]
    BY <1>1 DEF MessageOK
  <1>2. c.event \in Event /\ c.deaths \in [Service -> 0 .. MaxRetries - 1]
    BY DEF Message
  <1>3. ASSUME Attempt(w) < MaxRetries
        PROVE  /\ Rejected(c, s) \in Message /\ Rejected(c, s).event = c.event
               /\ \A t \in Service : Rejected(c, s).deaths[t] <= failed[t][c.event]
    <2>1. c.deaths[s] + 1 \in 0 .. MaxRetries - 1
      BY <1>2, <1>3 DEF Attempt
    <2>2. Rejected(c, s) = [event |-> c.event, deaths |-> [c.deaths EXCEPT ![s] = c.deaths[s] + 1]]
      BY DEF Rejected, Message
    <2>3. [c.deaths EXCEPT ![s] = c.deaths[s] + 1] \in [Service -> 0 .. MaxRetries - 1]
      BY <1>2, <2>1
    <2>4. \A t \in Service : [c.deaths EXCEPT ![s] = c.deaths[s] + 1][t] <= failed[t][c.event]
      BY <1>1, <1>2 DEF MessageOK, Attempt
    <2> QED
      BY <1>2, <2>2, <2>3, <2>4 DEF Message
  <1> QED
    BY <1>1, <1>2, <1>3 DEF MessageOK

LEMMA NackStep == ASSUME IndInv, NEW w \in Worker, Nack(w) PROVE IndInv'
  <1> PICK m : m = Rejected(cur[w], ServiceOf[w])
    OBVIOUS
  <1>1. /\ pc[w] = "fail" /\ Attempt(w) < MaxRetries /\ Forget(w)
        /\ UNCHANGED <<declared, main, dlq, publisher, link, history, faults>>
        /\ \/ retry' = Route(retry, m) /\ Reach(cur[w].event)
           \/ UNCHANGED <<retry, accepted>>
    BY DEF Nack
  <1>2. /\ m \in Message /\ m.event = cur[w].event /\ m.event \in Event
        /\ \A t \in Service : m.deaths[t] <= failed[t][m.event]
    BY <1>1, RejectedOK
  <1>3. /\ pc' \in [Worker -> Down \cup {"poll", "discard", "handle", "ack", "fail"}]
        /\ cur' \in [Worker -> Message \cup {None}]
        /\ \A v \in Worker \ {w} : UNCHANGED <<pc[v], cur[v], link[v]>>
        /\ WorkerInv(w)'
    BY <1>1, Forgets DEF Holding
  <1>4. /\ DOMAIN retry' = Service /\ \A s \in Service : IsQueue(retry'[s])
        /\ accepted' \in [Service -> SUBSET Event]
        /\ \A s \in Service : \A n \in BagToSet(retry'[s]) : n \in BagToSet(retry[s]) \/ MessageOK(n, s)'
        /\ Grows
    <2>1. CASE UNCHANGED <<retry, accepted>>
      BY <1>1, <2>1, Quiet DEF IndInv, QueueInv, TypeOK
    <2>2. CASE retry' = Route(retry, m) /\ Reach(cur[w].event)
      <3>1. /\ accepted' \in [Service -> SUBSET Event]
            /\ \A s \in Service : accepted'[s] = IF s \in declared THEN accepted[s] \cup {m.event} ELSE accepted[s]
        BY <1>2, <2>2, Reached DEF IndInv
      <3>2. /\ DOMAIN retry' = Service
            /\ \A s \in Service :
                 /\ IsQueue(retry'[s])
                 /\ s \in declared => BagToSet(retry'[s]) = BagToSet(retry[s]) \cup {m}
                 /\ s \notin declared => retry'[s] = retry[s]
        BY <1>2, <2>2, Routed, Queues
      <3>3. \A s \in declared : s \in Service => MessageOK(m, s)'
        BY <1>1, <1>2, <3>1 DEF MessageOK, history
      <3>4. \A s \in Service, e \in Event : failed[s][e] \in Nat
        BY DEF IndInv, TypeOK
      <3>5. Grows
        BY <1>1, <3>1, <3>4 DEF Grows, history
      <3> QED
        BY <3>1, <3>2, <3>3, <3>5
    <2> QED
      BY <1>1, <2>1, <2>2
  <1>5. TypeOK'
    BY <1>1, <1>3, <1>4 DEF publisher, history, IndInv, TypeOK
  <1> QED
    BY <1>1, <1>3, <1>4, <1>5, Assemble DEF IndInv, QueueInv

LEMMA SettleRaisesStep == ASSUME IndInv, NEW w \in Worker, SettleRaises(w) PROVE IndInv'
  <1>1. /\ Exit(w, "raised") /\ UNCHANGED <<server, publisher, history, faults>>
    BY DEF SettleRaises
  <1>2. /\ pc' \in [Worker -> Down \cup {"poll", "discard", "handle", "ack", "fail"}]
        /\ cur' \in [Worker -> Message \cup {None}]
        /\ link' \in [Worker -> {"up", "lost", "down"}]
        /\ \A v \in Worker \ {w} : UNCHANGED <<pc[v], cur[v], link[v]>>
        /\ WorkerInv(w)'
    BY <1>1, Exits DEF Down
  <1>3. TypeOK'
    BY <1>1, <1>2 DEF server, publisher, history, IndInv, TypeOK
  <1> QED
    BY <1>1, <1>2, <1>3, Quiet, Assemble DEF IndInv, QueueInv, server

\* The dead-letter exchange: each declared service gets it, marked with its sender.
LEMMA DeadLettered ==
    ASSUME IndInv, NEW w \in Worker, pc[w] = "fail", Attempt(w) >= MaxRetries,
           UNCHANGED dlq \/ ToDeadLetter(cur[w].event, ServiceOf[w]),
           UNCHANGED <<accepted, declared, history>>
    PROVE  /\ dlq' \in [Service -> SUBSET [event : Event, by : Service]]
           /\ \A s \in Service : \A d \in dlq'[s] : d \in dlq[s] \/ failed[d.by][d.event] >= MaxRetries
           /\ Grows
           /\ \A s \in Service \ {ServiceOf[w]} : BuriedBy(s)' = BuriedBy(s)
           /\ ToDeadLetter(cur[w].event, ServiceOf[w]) =>
                 BuriedBy(ServiceOf[w])' = BuriedBy(ServiceOf[w]) \cup {cur[w].event}
  <1> DEFINE s == ServiceOf[w]
             d == [event |-> cur[w].event, by |-> s]
  <1>1. cur[w].event \in Event /\ s \in declared /\ Attempt(w) <= failed[s][cur[w].event]
    BY RejectedOK DEF IndInv, WorkerInv
  <1>2. failed[s][cur[w].event] \in Nat /\ Attempt(w) \in Nat
    <2>1. cur[w] \in Message
      BY DEF IndInv, WorkerInv, Holding, MessageOK
    <2> QED
      BY <1>1, <2>1 DEF IndInv, TypeOK, Attempt, Message
  <1>3. failed[s][cur[w].event] >= MaxRetries
    BY <1>1, <1>2
  <1>4. \A t \in Service, e \in Event : failed[t][e] \in Nat
    BY DEF IndInv, TypeOK
  <1>5. CASE UNCHANGED dlq /\ ~ToDeadLetter(cur[w].event, s)
    BY <1>4, <1>5 DEF Grows, BuriedBy, history, IndInv, TypeOK
  <1>6. CASE ToDeadLetter(cur[w].event, s)
    <2>1. dlq' = [t \in Service |-> IF t \in declared THEN dlq[t] \cup {d} ELSE dlq[t]]
      BY <1>6 DEF ToDeadLetter
    <2>2. d \in [event : Event, by : Service] /\ d.by = s /\ d.event = cur[w].event
      BY <1>1
    <2>3. dlq' \in [Service -> SUBSET [event : Event, by : Service]]
      BY <2>1, <2>2 DEF IndInv, TypeOK
    <2>4. Grows
      BY <1>4, <2>1 DEF Grows, history
    <2>5. \A t \in Service : dlq'[t] \in {dlq[t], dlq[t] \cup {d}}
      BY <2>1
    <2>6. \A t \in Service \ {s} : BuriedBy(t)' = BuriedBy(t)
      BY <2>2, <2>5 DEF BuriedBy
    <2>7. BuriedBy(s)' = BuriedBy(s) \cup {cur[w].event}
      <3>1. dlq'[s] = dlq[s] \cup {d}
        BY <1>1, <2>1
      <3> QED
        BY <2>2, <3>1 DEF BuriedBy
    <2> QED
      BY <1>3, <2>2, <2>3, <2>4, <2>5, <2>6, <2>7
  <1> QED
    BY <1>5, <1>6

LEMMA BuryStep == ASSUME IndInv, NEW w \in Worker, Bury(w) PROVE IndInv'
  <1> DEFINE s == ServiceOf[w]
  <1>1. /\ pc[w] = "fail" /\ Attempt(w) >= MaxRetries /\ Goto(w, "ack")
        /\ UNCHANGED dlq \/ ToDeadLetter(cur[w].event, s)
        /\ link[w] = "up" => ToDeadLetter(cur[w].event, s)
        /\ \/ UNCHANGED link
           \/ link[w] = "lost" /\ link' = [link EXCEPT ![w] = "down"]
        /\ UNCHANGED <<declared, main, retry, accepted, publisher, cur, history, faults>>
    BY DEF Bury
  <1>2. /\ dlq' \in [Service -> SUBSET [event : Event, by : Service]]
        /\ \A t \in Service : \A d \in dlq'[t] : d \in dlq[t] \/ failed[d.by][d.event] >= MaxRetries
        /\ Grows
        /\ link[w] = "up" => cur[w].event \in BuriedBy(s)'
    BY <1>1, DeadLettered
  <1>3. /\ pc' \in [Worker -> Down \cup {"poll", "discard", "handle", "ack", "fail"}]
        /\ link' \in [Worker -> {"up", "lost", "down"}]
        /\ pc'[w] = "ack" /\ (link'[w] = "up" => link[w] = "up")
        /\ \A v \in Worker \ {w} : UNCHANGED <<pc[v], cur[v], link[v]>>
    BY <1>1 DEF Goto, IndInv, TypeOK
  <1>4. TypeOK'
    BY <1>1, <1>2, <1>3 DEF publisher, history, IndInv, TypeOK
  <1>5. WorkerInv(w)'
    <2>1. s \in declared /\ MessageOK(cur[w], s)
      BY <1>1, RejectedOK DEF IndInv, WorkerInv, Holding
    <2> QED
      BY <1>1, <1>2, <1>3, <2>1 DEF WorkerInv, Holding, MessageOK, Settled, history
  <1> QED
    BY <1>1, <1>2, <1>3, <1>4, <1>5, Assemble DEF IndInv, QueueInv

LEMMA BuryRaisesStep == ASSUME IndInv, NEW w \in Worker, BuryRaises(w) PROVE IndInv'
  <1>1. /\ pc[w] = "fail" /\ Attempt(w) >= MaxRetries /\ faults' \in 0 .. MaxFaults
        /\ UNCHANGED dlq \/ ToDeadLetter(cur[w].event, ServiceOf[w])
        /\ Requeue(w) /\ Exit(w, "raised")
        /\ UNCHANGED <<declared, retry, accepted, publisher, history>>
    BY DEF BuryRaises, Fault, IndInv, TypeOK
  <1>2. /\ dlq' \in [Service -> SUBSET [event : Event, by : Service]]
        /\ \A t \in Service : \A d \in dlq'[t] : d \in dlq[t] \/ failed[d.by][d.event] >= MaxRetries
        /\ Grows
    BY <1>1, DeadLettered
  <1>3. /\ pc' \in [Worker -> Down \cup {"poll", "discard", "handle", "ack", "fail"}]
        /\ cur' \in [Worker -> Message \cup {None}]
        /\ link' \in [Worker -> {"up", "lost", "down"}]
        /\ \A v \in Worker \ {w} : UNCHANGED <<pc[v], cur[v], link[v]>>
        /\ WorkerInv(w)'
    BY <1>1, Exits DEF Down
  <1>4. /\ DOMAIN main' = Service
        /\ \A s \in Service : /\ IsQueue(main'[s])
                              /\ \A m \in BagToSet(main'[s]) : m \in BagToSet(main[s]) \/ MessageOK(m, s)
    BY <1>1, Requeued
  <1>5. TypeOK'
    BY <1>1, <1>2, <1>3, <1>4 DEF publisher, history, IndInv, TypeOK
  <1> QED
    BY <1>1, <1>2, <1>3, <1>4, <1>5, Assemble DEF IndInv, QueueInv

LEMMA KillStep == ASSUME IndInv, NEW w \in Worker, Kill(w) PROVE IndInv'
  <1>1. /\ faults' \in 0 .. MaxFaults /\ Requeue(w) /\ Exit(w, "killed")
        /\ UNCHANGED <<declared, retry, dlq, accepted, publisher>>
    BY DEF Kill, Fault, IndInv, TypeOK
  <1>2. /\ served' \in [Service -> [Event -> SUBSET Receiver]]
        /\ tried' \in [Service -> [Event -> 0 .. MaxRetries + 1]]
        /\ failed' \in [Service -> [Event -> 0 .. MaxRetries]]
        /\ Grows
    <2>1. CASE pc[w] = "handle"
      <3>1. PICK ok \in SUBSET Receiver : RunReceivers(w, ok, FALSE)
        BY <2>1 DEF Kill
      <3> QED
        BY <1>1, <2>1, <3>1, Receives
    <2>2. CASE pc[w] # "handle"
      <3>1. UNCHANGED history
        BY <2>2 DEF Kill
      <3> QED
        BY <1>1, <3>1, Quiet DEF history, IndInv, TypeOK
    <2> QED
      BY <2>1, <2>2
  <1>3. /\ pc' \in [Worker -> Down \cup {"poll", "discard", "handle", "ack", "fail"}]
        /\ cur' \in [Worker -> Message \cup {None}]
        /\ link' \in [Worker -> {"up", "lost", "down"}]
        /\ \A v \in Worker \ {w} : UNCHANGED <<pc[v], cur[v], link[v]>>
        /\ WorkerInv(w)'
    BY <1>1, Exits DEF Down
  <1>4. /\ DOMAIN main' = Service
        /\ \A s \in Service : /\ IsQueue(main'[s])
                              /\ \A m \in BagToSet(main'[s]) : m \in BagToSet(main[s]) \/ MessageOK(m, s)
    BY <1>1, Requeued
  <1>5. TypeOK'
    BY <1>1, <1>2, <1>3, <1>4 DEF publisher, IndInv, TypeOK
  <1> QED
    BY <1>1, <1>2, <1>3, <1>4, <1>5, Assemble DEF IndInv, QueueInv

LEMMA StepIndInv == IndInv /\ [Next]_vars => IndInv'
  <1> SUFFICES ASSUME IndInv, [Next]_vars PROVE IndInv'
    OBVIOUS
  <1>1. ASSUME NEW w \in Worker, Work(w) \/ ReceiveStale(w) \/ ReconnectRaises(w) \/ Drop(w) \/ BuryRaises(w)
               \/ Kill(w)
        PROVE  IndInv'
    BY <1>1, ListenStep, ReceiveStep, ReceiveStaleStep, ReconnectStep, DispatchStep, AckStep, NackStep,
       SettleRaisesStep, BuryStep, ReconnectRaisesStep, DropStep, BuryRaisesStep, KillStep DEF Work
  <1>2. CASE UNCHANGED vars
    <2>1. TypeOK'
      BY <1>2 DEF vars, server, publisher, worker, history, IndInv, TypeOK
    <2> QED
      BY <1>2, <2>1, Quiet, Assemble DEF vars, server, worker, IndInv, QueueInv
  <1> QED
    BY <1>1, <1>2, PublishStep, ExpireStep DEF Next

LEMMA Invariance == Spec => []IndInv
  BY InitIndInv, StepIndInv, PTL DEF Spec

\* TypeOK: a message's x-death counts stay below MAX_RETRIES, and publish() makes no more
\* than PUBLISH_RETRIES + 1 attempts.
THEOREM TypeCorrect == Spec => []TypeOK
  <1>1. IndInv => TypeOK
    BY DEF IndInv
  <1> QED
    BY <1>1, Invariance, PTL

\* BuriedAfterMaxRetries: a service dead-letters an event only after MAX_RETRIES failures of
\* its own, however often the others send it round.
THEOREM RetriesExhausted == Spec => []BuriedAfterMaxRetries
  <1>1. IndInv => BuriedAfterMaxRetries
    BY DEF IndInv, BuriedInv, BuriedAfterMaxRetries, BuriedBy
  <1> QED
    BY <1>1, Invariance, PTL

-------------------------------------------------------------------------------
(* Attempts, as long as nothing fails but receivers *)

Count(m, q) == IF BagIn(m, q) THEN q[m] ELSE 0

\* How often a queue of service s has message m.
InMain(s, m) == Count(m, main[s])
InRetry(s, m) == Count(m, retry[s])

\* Worker w of service s has a message of event e in hand.
HasOf(w, s, e) == ServiceOf[w] = s /\ cur[w] # None /\ cur[w].event = e

Nowhere(s, e) ==
    /\ \A m \in Message : m.event = e => InMain(s, m) = 0 /\ InRetry(s, m) = 0
    /\ \A w \in Worker : ~HasOf(w, s, e)

\* The dispatches of e by s so far are those its one message counts.
Single(s, e) ==
    /\ tried[s][e] <= MaxRetries /\ tried[s][e] <= failed[s][e] + 1
    /\ \A m \in Message :
        m.event = e /\ InMain(s, m) + InRetry(s, m) > 0 =>
            /\ InMain(s, m) + InRetry(s, m) = 1
            /\ m.deaths[s] = tried[s][e] /\ m.deaths[s] = failed[s][e]
            /\ \A w \in Worker : ~HasOf(w, s, e)
    /\ \A w \in Worker :
        HasOf(w, s, e) =>
            /\ pc[w] = "handle" => /\ cur[w].deaths[s] = tried[s][e]
                                   /\ cur[w].deaths[s] = failed[s][e]
            /\ pc[w] = "fail" => /\ cur[w].deaths[s] + 1 = tried[s][e]
                                 /\ cur[w].deaths[s] + 1 = failed[s][e]
            /\ \A v \in Worker : HasOf(v, s, e) => v = w

OnlyOwn(s, e) == Alone(s, e) /\ (failed[s][e] = 0 \/ Service = {s})

\* A message waits in a retry queue because a service has rejected it.
RetryInv ==
    \A s \in Service : \A m \in BagToSet(retry[s]) : \E t \in Service : m.deaths[t] > 0

CalmInv ==
    faults = MaxFaults =>
        /\ \A w \in Worker : pc[w] \in Down \/ link[w] = "up"
        /\ \A s \in Service, e \in Event :
            /\ pub[e] = "pending" => tried[s][e] = 0 /\ failed[s][e] = 0 /\ Nowhere(s, e)
            /\ OnlyOwn(s, e) => Single(s, e)

LEMMA CopiesAre ==
    ASSUME NEW q, NEW m, IsQueue(q)
    PROVE  Count(m, q) \in Nat /\ (Count(m, q) > 0 <=> m \in BagToSet(q))
  BY DEF IsQueue, IsABag, Count, BagIn, BagToSet

LEMMA CopiesAdded ==
    ASSUME NEW q, NEW m, NEW n, IsQueue(q)
    PROVE  Count(n, BagAdd(q, m)) = IF n = m THEN Count(n, q) + 1 ELSE Count(n, q)
  BY DEF IsQueue, IsABag, Count, BagIn, BagToSet, BagAdd

LEMMA CopiesRemoved ==
    ASSUME NEW q, NEW m \in BagToSet(q), NEW n, IsQueue(q)
    PROVE  Count(n, BagRemove(q, m)) = IF n = m THEN Count(n, q) - 1 ELSE Count(n, q)
  BY DEF IsQueue, IsABag, Count, BagIn, BagToSet, BagRemove

LEMMA CopiesRouted ==
    ASSUME NEW queues, NEW m, NEW n, NEW s \in Service, IsQueue(queues[s])
    PROVE  Count(n, Route(queues, m)[s]) =
             IF s \in declared /\ n = m THEN Count(n, queues[s]) + 1 ELSE Count(n, queues[s])
  BY CopiesAdded DEF Route

\* What the counts of a queue say.
LEMMA InQueues ==
    ASSUME IndInv, NEW s \in Service, NEW m
    PROVE  /\ InMain(s, m) \in Nat /\ (InMain(s, m) > 0 <=> m \in BagToSet(main[s]))
           /\ InRetry(s, m) \in Nat /\ (InRetry(s, m) > 0 <=> m \in BagToSet(retry[s]))
           /\ InMain(s, m) > 0 \/ InRetry(s, m) > 0 => MessageOK(m, s)
  <1>1. IsQueue(main[s]) /\ IsQueue(retry[s])
    BY Queues
  <1> QED
    BY <1>1, CopiesAre DEF InMain, InRetry, IndInv, QueueInv

\* For the messages of an event that no other service has rejected, equal counts of
\* the service's own rejections make equal messages.
LEMMA SameMessage ==
    ASSUME IndInv, NEW s \in Service, NEW m, NEW n,
           MessageOK(m, s), MessageOK(n, s), m.event = n.event, Alone(s, m.event),
           m.deaths[s] = n.deaths[s]
    PROVE  m = n
  <1>1. /\ m = [event |-> m.event, deaths |-> m.deaths] /\ m.event \in Event
        /\ n = [event |-> n.event, deaths |-> n.deaths]
        /\ m.deaths \in [Service -> 0 .. MaxRetries - 1] /\ n.deaths \in [Service -> 0 .. MaxRetries - 1]
    BY DEF MessageOK, Message
  <1>2. ASSUME NEW t \in Service PROVE m.deaths[t] = n.deaths[t]
    <2>1. CASE t = s
      BY <2>1
    <2>2. CASE t # s
      <3>1. m.deaths[t] <= 0 /\ n.deaths[t] <= 0
        BY <2>2 DEF MessageOK, Alone
      <3>2. m.deaths[t] \in Nat /\ n.deaths[t] \in Nat
        BY <1>1
      <3> QED
        BY <3>1, <3>2
    <2> QED
      BY <2>1, <2>2
  <1>3. m.deaths = n.deaths
    BY <1>1, <1>2
  <1> QED
    BY <1>1, <1>3

-------------------------------------------------------------------------------
(* Steps that do not concern s and e *)

\* Nothing is added to what service s has of e, nor dispatched.
Apart(s, e) ==
    /\ \A m \in Message : m.event = e => /\ InMain(s, m)' = InMain(s, m)
                                         /\ InRetry(s, m)' = InRetry(s, m)
    /\ \A w \in Worker :
        HasOf(w, s, e)' => /\ HasOf(w, s, e) /\ cur'[w] = cur[w]
                           /\ pc'[w] = pc[w] \/ pc'[w] \notin {"handle", "fail"}
    /\ tried'[s][e] = tried[s][e] /\ failed'[s][e] = failed[s][e]

LEMMA ApartKeeps ==
    ASSUME NEW s \in Service, NEW e \in Event, Apart(s, e)
    PROVE  /\ Nowhere(s, e) => Nowhere(s, e)'
           /\ Single(s, e) => Single(s, e)'
  <1>1. Nowhere(s, e) => Nowhere(s, e)'
    BY DEF Nowhere, Apart
  <1>2. ASSUME Single(s, e) PROVE Single(s, e)'
    <2>1. tried'[s][e] <= MaxRetries /\ tried'[s][e] <= failed'[s][e] + 1
      BY <1>2 DEF Apart, Single
    <2>2. ASSUME NEW m \in Message, m.event = e, InMain(s, m)' + InRetry(s, m)' > 0
          PROVE  /\ InMain(s, m)' + InRetry(s, m)' = 1
                 /\ m.deaths[s] = tried'[s][e] /\ m.deaths[s] = failed'[s][e]
                 /\ \A w \in Worker : ~HasOf(w, s, e)'
      BY <1>2, <2>2 DEF Apart, Single
    <2>3. ASSUME NEW w \in Worker, HasOf(w, s, e)'
          PROVE  /\ pc'[w] = "handle" => /\ cur'[w].deaths[s] = tried'[s][e]
                                         /\ cur'[w].deaths[s] = failed'[s][e]
                 /\ pc'[w] = "fail" => /\ cur'[w].deaths[s] + 1 = tried'[s][e]
                                       /\ cur'[w].deaths[s] + 1 = failed'[s][e]
                 /\ \A v \in Worker : HasOf(v, s, e)' => v = w
      BY <1>2, <2>3 DEF Apart, Single
    <2> QED
      BY <2>1, <2>2, <2>3 DEF Single
  <1> QED
    BY <1>1, <1>2

\* The failures of a service on an event only grow in number.
Rises == \A s \in Service, e \in Event : failed[s][e] <= failed'[s][e]

LEMMA OnlyOwnBefore ==
    ASSUME TypeOK, TypeOK', Rises, NEW s \in Service, NEW e \in Event, OnlyOwn(s, e)'
    PROVE  OnlyOwn(s, e)
  <1>1. \A t \in Service : failed[t][e] \in Nat /\ failed'[t][e] \in Nat /\ failed[t][e] <= failed'[t][e]
    BY DEF TypeOK, Rises
  <1> QED
    BY <1>1 DEF OnlyOwn, Alone

LEMMA CalmKept ==
    ASSUME IndInv, TypeOK', Rises, CalmInv, faults = MaxFaults,
           \A w \in Worker : pc'[w] \in Down \/ link'[w] = "up",
           \A e \in Event :
               pub'[e] = "pending" => pub[e] = "pending" /\ \A s \in Service : Apart(s, e),
           \A s \in Service, e \in Event :
               OnlyOwn(s, e)' /\ OnlyOwn(s, e) /\ Single(s, e) => Apart(s, e) \/ Single(s, e)'
    PROVE  CalmInv'
  <1>1. ASSUME NEW s \in Service, NEW e \in Event, pub'[e] = "pending"
        PROVE  tried'[s][e] = 0 /\ failed'[s][e] = 0 /\ Nowhere(s, e)'
    <2>1. Apart(s, e) /\ tried[s][e] = 0 /\ failed[s][e] = 0 /\ Nowhere(s, e)
      BY <1>1 DEF CalmInv
    <2> QED
      BY <2>1, ApartKeeps DEF Apart
  <1>2. ASSUME NEW s \in Service, NEW e \in Event, OnlyOwn(s, e)'
        PROVE  Single(s, e)'
    <2>1. OnlyOwn(s, e) /\ Single(s, e)
      BY <1>2, OnlyOwnBefore DEF CalmInv, IndInv
    <2> QED
      BY <1>2, <2>1, ApartKeeps
  <1> QED
    BY <1>1, <1>2 DEF CalmInv

-------------------------------------------------------------------------------
(* The steps *)

\* The queues and hands that a step leaves alone.
LEMMA ApartIf ==
    ASSUME NEW s \in Service, NEW e \in Event,
           \A m \in Message : m.event = e =>
               Count(m, main'[s]) = Count(m, main[s]) /\ Count(m, retry'[s]) = Count(m, retry[s]),
           \A w \in Worker : ServiceOf[w] = s /\ cur'[w] # None /\ cur'[w].event = e =>
               cur'[w] = cur[w] /\ (pc'[w] = pc[w] \/ pc'[w] \notin {"handle", "fail"}),
           tried'[s][e] = tried[s][e], failed'[s][e] = failed[s][e]
    PROVE  Apart(s, e)
  BY DEF Apart, InMain, InRetry, HasOf

LEMMA PublishCalm ==
    ASSUME IndInv, TypeOK', Rises, CalmInv, faults = MaxFaults, NEW e \in Event, Publish(e)
    PROVE  CalmInv'
  <1> PICK m \in Message : m = Fresh(e) /\ m.event = e
    BY FreshOK
  <1>1. /\ pub[e] = "pending" /\ main' = Route(main, m)
        /\ pub' = [pub EXCEPT ![e] = "returned"]
        /\ UNCHANGED <<retry, worker, history>>
    BY DEF Publish, ToMain
  <1>2. \A s \in Service : IsQueue(main[s])
    BY Queues
  <1>3. pub'[e] = "returned" /\ \A d \in Event \ {e} : pub'[d] = pub[d]
    BY <1>1 DEF IndInv, TypeOK
  <1>4. ASSUME NEW s \in Service, NEW d \in Event, d # e
        PROVE  Apart(s, d)
    <2>1. ASSUME NEW n \in Message, n.event = d
          PROVE  Count(n, main'[s]) = Count(n, main[s])
      BY <1>1, <1>2, <1>4, <2>1, CopiesRouted
    <2> QED
      BY <1>1, <2>1, ApartIf DEF worker, history
  <1>5. ASSUME NEW s \in Service
        PROVE  Single(s, e)'
    <2>1. tried'[s][e] = 0 /\ failed'[s][e] = 0 /\ Nowhere(s, e)
      BY <1>1 DEF CalmInv, history
    <2>2. \A w \in Worker : ~HasOf(w, s, e)'
      BY <1>1, <2>1 DEF Nowhere, HasOf, worker
    <2>3. ASSUME NEW n \in Message, n.event = e
          PROVE  InRetry(s, n)' = 0 /\ InMain(s, n)' = IF s \in declared /\ n = m THEN 1 ELSE 0
      <3>1. Count(n, main[s]) = 0 /\ Count(n, retry[s]) = 0
        BY <2>1, <2>3 DEF Nowhere, InMain, InRetry
      <3>2. Count(n, main'[s]) = IF s \in declared /\ n = m THEN 1 ELSE 0
        BY <1>1, <1>2, <3>1, CopiesRouted
      <3> QED
        BY <1>1, <3>1, <3>2 DEF InMain, InRetry
    <2>4. m.deaths[s] = 0
      BY DEF Fresh
    <2> QED
      BY <2>1, <2>2, <2>3, <2>4 DEF Single
  <1>6. \A w \in Worker : pc'[w] \in Down \/ link'[w] = "up"
    BY <1>1 DEF CalmInv, worker
  <1> QED
    BY <1>3, <1>4, <1>5, <1>6, CalmKept

LEMMA ExpireCalm ==
    ASSUME IndInv, TypeOK', Rises, RetryInv, CalmInv, faults = MaxFaults,
           NEW s \in Service, NEW m \in BagToSet(retry[s]), Expire(s, m)
    PROVE  CalmInv'
  <1> PICK e : e = m.event
    OBVIOUS
  <1>1. /\ main' = Route(main, m) /\ retry' = [retry EXCEPT ![s] = BagRemove(@, m)]
        /\ UNCHANGED <<publisher, worker, history>>
    BY DEF Expire, ToMain
  <1>2. MessageOK(m, s) /\ m \in Message /\ e \in Event
    BY DEF IndInv, QueueInv, MessageOK, Message
  <1>3. \A t \in Service : IsQueue(main[t]) /\ IsQueue(retry[t])
    BY Queues
  <1>4. InRetry(s, m) > 0 /\ InRetry(s, m) \in Nat /\ InMain(s, m) \in Nat
    BY <1>2, InQueues
  <1>5. \A n \in Message, t \in Service :
            /\ Count(n, main'[t]) = IF t \in declared /\ n = m THEN Count(n, main[t]) + 1 ELSE Count(n, main[t])
            /\ Count(n, retry'[t]) = IF t = s /\ n = m THEN Count(n, retry[t]) - 1 ELSE Count(n, retry[t])
    <2> TAKE n \in Message, t \in Service
    <2>1. retry'[t] = IF t = s THEN BagRemove(retry[s], m) ELSE retry[t]
      BY <1>1 DEF IndInv, QueueInv
    <2>2. Count(n, main'[t]) = IF t \in declared /\ n = m THEN Count(n, main[t]) + 1 ELSE Count(n, main[t])
      BY <1>1, <1>3, CopiesRouted
    <2>3. t = s => Count(n, retry'[t]) = IF n = m THEN Count(n, retry[t]) - 1 ELSE Count(n, retry[t])
      BY <1>3, <2>1, CopiesRemoved
    <2> QED
      BY <2>1, <2>2, <2>3
  <1>6. ASSUME NEW t \in Service, NEW d \in Event, d # e
        PROVE  Apart(t, d)
    BY <1>1, <1>5, <1>6, ApartIf DEF worker, history
  <1>7. pub'[e] # "pending"
    <2>1. pub' = pub
      BY <1>1 DEF publisher
    <2>2. ~Nowhere(s, e)
      BY <1>2, <1>4 DEF Nowhere
    <2> QED
      BY <1>2, <2>1, <2>2 DEF CalmInv
  <1>8. ASSUME NEW t \in Service, OnlyOwn(t, e), Single(t, e)
        PROVE  Single(t, e)'
    <2>1. PICK u \in Service : m.deaths[u] > 0
      BY DEF RetryInv
    <2>2. failed[u][e] # 0
      <3>1. m.deaths[u] \in Nat /\ m.deaths[u] <= failed[u][e] /\ failed[u][e] \in Nat
        BY <1>2 DEF MessageOK, Message, IndInv, TypeOK
      <3> QED
        BY <2>1, <3>1
    <2>3. t = s /\ Alone(s, e)
      BY <1>8, <2>2 DEF OnlyOwn, Alone
    <2>4. /\ InMain(s, m) = 0 /\ InRetry(s, m) = 1
          /\ m.deaths[s] = tried[s][e] /\ m.deaths[s] = failed[s][e]
          /\ \A w \in Worker : ~HasOf(w, s, e)
      BY <1>2, <1>4, <1>8, <2>3 DEF Single
    <2>5. ASSUME NEW n \in Message, n.event = e, n # m
          PROVE  InMain(s, n) = 0 /\ InRetry(s, n) = 0
      <3>1. InMain(s, n) \in Nat /\ InRetry(s, n) \in Nat
        BY InQueues
      <3>2. ASSUME InMain(s, n) > 0 \/ InRetry(s, n) > 0
            PROVE  FALSE
        <4>1. MessageOK(n, s)
          BY <3>2, InQueues
        <4>2. n.deaths[s] = m.deaths[s]
          BY <1>8, <2>3, <2>4, <2>5, <3>1, <3>2 DEF Single
        <4> QED
          BY <1>2, <2>3, <2>5, <4>1, <4>2, SameMessage
      <3> QED
        BY <3>1, <3>2
    <2>6. s \in declared
      BY <1>2 DEF MessageOK
    <2>7. \A n \in Message : n.event = e =>
              InMain(s, n)' + InRetry(s, n)' = IF n = m THEN 1 ELSE 0
      BY <1>5, <2>4, <2>5, <2>6 DEF InMain, InRetry
    <2>8. \A w \in Worker : ~HasOf(w, s, e)'
      BY <1>1, <2>4 DEF HasOf, worker
    <2>9. tried' = tried /\ failed' = failed
      BY <1>1 DEF history
    <2>10. tried[s][e] <= MaxRetries /\ tried[s][e] <= failed[s][e] + 1
      BY <1>8, <2>3 DEF Single
    <2>11. ASSUME NEW n \in Message, n.event = e, InMain(s, n)' + InRetry(s, n)' > 0
           PROVE  /\ InMain(s, n)' + InRetry(s, n)' = 1
                  /\ n.deaths[s] = tried[s][e] /\ n.deaths[s] = failed[s][e]
      BY <2>4, <2>7, <2>11
    <2> QED
      BY <2>3, <2>8, <2>9, <2>10, <2>11 DEF Single
  <1>9. \A w \in Worker : pc'[w] \in Down \/ link'[w] = "up"
    BY <1>1 DEF CalmInv, worker
  <1>10. pub' = pub
    BY <1>1 DEF publisher
  <1> QED
    BY <1>6, <1>7, <1>8, <1>9, <1>10, CalmKept

\* A worker starts, or is done with a message: no queue and no count moves.
LEMMA WorkerCalm ==
    ASSUME IndInv, TypeOK', Rises, CalmInv, faults = MaxFaults,
           UNCHANGED <<main, retry, publisher, history>>,
           \A w \in Worker : pc'[w] \in Down \/ link'[w] = "up",
           \A w \in Worker :
               cur'[w] # None => cur'[w] = cur[w] /\ (pc'[w] = pc[w] \/ pc'[w] \notin {"handle", "fail"})
    PROVE  CalmInv'
  <1>1. ASSUME NEW s \in Service, NEW e \in Event
        PROVE  Apart(s, e)
    BY ApartIf DEF history
  <1>2. pub' = pub
    BY DEF publisher
  <1> QED
    BY <1>1, <1>2, CalmKept

LEMMA ListenCalm ==
    ASSUME IndInv, TypeOK', Rises, CalmInv, faults = MaxFaults, NEW w \in Worker,
           Listen(w) \/ Ack(w) \/ Bury(w)
    PROVE  CalmInv'
  <1>1. UNCHANGED <<main, retry, publisher, history>>
    BY DEF Listen, Ack, Bury, server
  <1>2. \A v \in Worker : pc[v] \in Down \/ link[v] = "up"
    BY DEF CalmInv
  <1>3. link' = link \/ link' = [link EXCEPT ![w] = "up"]
    BY <1>2 DEF Listen, Ack, Bury, Down
  <1>4. Listen(w) => link'[w] = "up"
    BY DEF Listen, IndInv, TypeOK
  <1>5. ~Listen(w) => pc[w] \notin Down
    BY DEF Ack, Bury, Down
  <1>6. \A v \in Worker : v # w => pc'[v] = pc[v] /\ cur'[v] = cur[v]
    BY DEF Listen, Ack, Bury, Forget, Goto, IndInv, TypeOK
  <1>7. \A v \in Worker : pc'[v] \in Down \/ link'[v] = "up"
    BY <1>2, <1>3, <1>4, <1>5, <1>6 DEF IndInv, TypeOK
  <1>8. cur'[w] # None => cur'[w] = cur[w] /\ pc'[w] \notin {"handle", "fail"}
    BY DEF Listen, Ack, Bury, Forget, Goto, IndInv, TypeOK
  <1> QED
    BY <1>1, <1>6, <1>7, <1>8, WorkerCalm

LEMMA ReceiveCalm ==
    ASSUME IndInv, TypeOK', Rises, CalmInv, faults = MaxFaults, NEW w \in Worker, Receive(w)
    PROVE  CalmInv'
  <1> PICK s \in Service : s = ServiceOf[w]
    OBVIOUS
  <1>1. PICK m \in BagToSet(main[s]) :
            /\ main' = [main EXCEPT ![s] = BagRemove(@, m)]
            /\ cur' = [cur EXCEPT ![w] = m]
            /\ Goto(w, IF m.event \in Unreadable THEN "discard" ELSE "handle")
    BY DEF Receive
  <1>2. pc[w] = "poll" /\ UNCHANGED <<retry, publisher, link, history, faults>>
    BY DEF Receive
  <1> PICK e : e = m.event
    OBVIOUS
  <1>3. MessageOK(m, s) /\ m \in Message /\ e \in Event
    BY DEF IndInv, QueueInv, MessageOK, Message
  <1>4. /\ cur'[w] = m /\ pc'[w] \in {"discard", "handle"}
        /\ \A v \in Worker \ {w} : cur'[v] = cur[v] /\ pc'[v] = pc[v]
    BY <1>1 DEF Goto, IndInv, TypeOK
  <1>5. \A t \in Service : IsQueue(main[t])
    BY Queues
  <1>6. \A n \in Message, t \in Service :
            Count(n, main'[t]) = IF t = s /\ n = m THEN Count(n, main[t]) - 1 ELSE Count(n, main[t])
    <2> TAKE n \in Message, t \in Service
    <2>1. main'[t] = IF t = s THEN BagRemove(main[s], m) ELSE main[t]
      BY <1>1 DEF IndInv, QueueInv
    <2>2. t = s => Count(n, main'[t]) = IF n = m THEN Count(n, main[t]) - 1 ELSE Count(n, main[t])
      BY <1>5, <2>1, CopiesRemoved
    <2> QED
      BY <2>1, <2>2
  <1>7. ASSUME NEW t \in Service, NEW d \in Event, d # e \/ t # s
        PROVE  Apart(t, d)
    BY <1>2, <1>4, <1>6, <1>7, ApartIf DEF history
  <1>8. InMain(s, m) > 0 /\ InMain(s, m) \in Nat /\ InRetry(s, m) \in Nat
    BY <1>3, InQueues
  <1>9. pub'[e] # "pending"
    <2>1. pub' = pub
      BY <1>2 DEF publisher
    <2>2. ~Nowhere(s, e)
      BY <1>3, <1>8 DEF Nowhere
    <2> QED
      BY <1>3, <2>1, <2>2 DEF CalmInv
  <1>10. ASSUME OnlyOwn(s, e), Single(s, e)
         PROVE  Single(s, e)'
    <2>1. /\ InMain(s, m) = 1 /\ InRetry(s, m) = 0
          /\ m.deaths[s] = tried[s][e] /\ m.deaths[s] = failed[s][e]
          /\ \A v \in Worker : ~HasOf(v, s, e)
      BY <1>3, <1>8, <1>10 DEF Single
    <2>2. ASSUME NEW n \in Message, n.event = e, n # m
          PROVE  InMain(s, n) = 0 /\ InRetry(s, n) = 0
      <3>1. InMain(s, n) \in Nat /\ InRetry(s, n) \in Nat
        BY InQueues
      <3>2. ASSUME InMain(s, n) > 0 \/ InRetry(s, n) > 0
            PROVE  FALSE
        <4>1. MessageOK(n, s)
          BY <3>2, InQueues
        <4>2. n.deaths[s] = m.deaths[s]
          BY <1>10, <2>1, <2>2, <3>1, <3>2 DEF Single
        <4> QED
          BY <1>3, <1>10, <2>2, <4>1, <4>2, SameMessage DEF OnlyOwn
      <3> QED
        BY <3>1, <3>2
    <2>3. \A n \in Message : n.event = e => InMain(s, n)' + InRetry(s, n)' = 0
      BY <1>2, <1>6, <2>1, <2>2 DEF InMain, InRetry
    <2>4. \A v \in Worker : HasOf(v, s, e)' => v = w
      BY <1>4, <2>1 DEF HasOf
    <2>5. tried' = tried /\ failed' = failed
      BY <1>2 DEF history
    <2>6. tried[s][e] <= MaxRetries /\ tried[s][e] <= failed[s][e] + 1
      BY <1>10 DEF Single
    <2>7. \A n \in Message : n.event = e => ~(InMain(s, n)' + InRetry(s, n)' > 0)
      BY <2>3
    <2>8. ASSUME NEW v \in Worker, HasOf(v, s, e)'
          PROVE  /\ pc'[v] # "fail"
                 /\ cur'[v].deaths[s] = tried'[s][e] /\ cur'[v].deaths[s] = failed'[s][e]
                 /\ \A u \in Worker : HasOf(u, s, e)' => u = v
      BY <1>4, <2>1, <2>4, <2>5, <2>8
    <2> QED
      BY <2>5, <2>6, <2>7, <2>8 DEF Single
  <1>11. \A v \in Worker : pc'[v] \in Down \/ link'[v] = "up"
    BY <1>2, <1>4 DEF CalmInv, Down
  <1>12. pub' = pub
    BY <1>2 DEF publisher
  <1> QED
    BY <1>7, <1>9, <1>10, <1>11, <1>12, CalmKept

LEMMA DispatchCalm ==
    ASSUME IndInv, TypeOK', Rises, CalmInv, faults = MaxFaults, NEW w \in Worker, Dispatch(w)
    PROVE  CalmInv'
  <1> PICK s \in Service, c \in Message : s = ServiceOf[w] /\ c = cur[w]
    BY DEF Dispatch, IndInv, WorkerInv, Holding, MessageOK
  <1> PICK e \in Event : e = c.event
    BY DEF Message
  <1>1. PICK bad \in SUBSET Receiver :
            /\ RunReceivers(w, Receiver \ bad, bad # {})
            /\ Goto(w, IF bad = {} THEN "ack" ELSE "fail")
    BY DEF Dispatch
  <1>2. /\ pc[w] = "handle" /\ UNCHANGED <<main, retry, publisher, cur, link>>
        /\ HasOf(w, s, e)
    BY NoMessage DEF Dispatch, server, HasOf
  <1>3. /\ pc'[w] = IF bad = {} THEN "ack" ELSE "fail"
        /\ \A v \in Worker \ {w} : pc'[v] = pc[v]
    BY <1>1 DEF Goto, IndInv, TypeOK
  <1>4. tried[s][e] \in 0 .. MaxRetries + 1 /\ failed[s][e] \in 0 .. MaxRetries
    BY DEF IndInv, TypeOK
  <1>5. /\ tried'[s][e] = Bump(tried[s][e], MaxRetries + 1)
        /\ failed'[s][e] = IF bad # {} THEN Bump(failed[s][e], MaxRetries) ELSE failed[s][e]
        /\ \A t \in Service, d \in Event : t # s \/ d # e =>
              tried'[t][d] = tried[t][d] /\ failed'[t][d] = failed[t][d]
    BY <1>1 DEF RunReceivers, IndInv, TypeOK
  <1>6. ASSUME NEW t \in Service, NEW d \in Event, t # s \/ d # e
        PROVE  Apart(t, d)
    BY <1>2, <1>3, <1>5, <1>6, ApartIf
  <1>7. pub'[e] # "pending"
    <2>1. pub' = pub
      BY <1>2 DEF publisher
    <2>2. ~Nowhere(s, e)
      BY <1>2 DEF Nowhere
    <2> QED
      BY <2>1, <2>2 DEF CalmInv
  <1>8. ASSUME OnlyOwn(s, e), Single(s, e)
        PROVE  Single(s, e)'
    <2>1. /\ c.deaths[s] = tried[s][e] /\ c.deaths[s] = failed[s][e]
          /\ \A v \in Worker : HasOf(v, s, e) => v = w
      BY <1>2, <1>8 DEF Single
    <2>2. c.deaths[s] \in 0 .. MaxRetries - 1
      BY DEF Message
    <2>3. /\ tried'[s][e] = c.deaths[s] + 1
          /\ failed'[s][e] = IF bad # {} THEN c.deaths[s] + 1 ELSE c.deaths[s]
      BY <1>5, <2>1, <2>2 DEF Bump
    <2>4. ASSUME NEW n \in Message, n.event = e
          PROVE  ~(InMain(s, n)' + InRetry(s, n)' > 0)
      <3>1. ~(InMain(s, n) + InRetry(s, n) > 0)
        BY <1>2, <1>8, <2>4 DEF Single
      <3>2. InMain(s, n)' = InMain(s, n) /\ InRetry(s, n)' = InRetry(s, n)
        BY <1>2 DEF InMain, InRetry
      <3> QED
        BY <3>1, <3>2
    <2>5. \A v \in Worker : HasOf(v, s, e)' => v = w
      BY <1>2, <2>1 DEF HasOf
    <2>6. pc'[w] # "handle" /\ (pc'[w] = "fail" => bad # {}) /\ cur'[w] = c
      BY <1>2, <1>3
    <2>7. tried'[s][e] <= MaxRetries /\ tried'[s][e] <= failed'[s][e] + 1
      BY <2>2, <2>3
    <2>8. ASSUME NEW v \in Worker, HasOf(v, s, e)'
          PROVE  /\ pc'[v] # "handle"
                 /\ pc'[v] = "fail" => /\ cur'[v].deaths[s] + 1 = tried'[s][e]
                                       /\ cur'[v].deaths[s] + 1 = failed'[s][e]
                 /\ \A u \in Worker : HasOf(u, s, e)' => u = v
      BY <2>3, <2>5, <2>6, <2>8
    <2> QED
      BY <2>4, <2>7, <2>8 DEF Single
  <1>9. \A v \in Worker : pc'[v] \in Down \/ link'[v] = "up"
    BY <1>2, <1>3 DEF CalmInv, Down
  <1>10. pub' = pub
    BY <1>2 DEF publisher
  <1> QED
    BY <1>6, <1>7, <1>8, <1>9, <1>10, CalmKept

LEMMA NackCalm ==
    ASSUME IndInv, TypeOK', Rises, CalmInv, faults = MaxFaults, NEW w \in Worker, Nack(w)
    PROVE  CalmInv'
  <1> PICK s \in Service, c \in Message : s = ServiceOf[w] /\ c = cur[w]
    BY DEF Nack, IndInv, WorkerInv, Holding, MessageOK
  <1> PICK e \in Event : e = c.event
    BY DEF Message
  <1> PICK m : m = Rejected(c, s)
    OBVIOUS
  <1>1. /\ pc[w] = "fail" /\ Attempt(w) < MaxRetries
        /\ UNCHANGED <<main, publisher, link, history>>
        /\ HasOf(w, s, e)
    BY NoMessage DEF Nack, HasOf
  <1>2. link[w] = "up"
    BY <1>1 DEF CalmInv, Down
  <1>3. retry' = Route(retry, m)
    BY <1>2 DEF Nack
  <1>4. /\ pc'[w] = "poll" /\ cur'[w] = None
        /\ \A v \in Worker \ {w} : cur'[v] = cur[v] /\ pc'[v] = pc[v]
    BY DEF Nack, Forget, Goto, IndInv, TypeOK
  <1>5. /\ s \in declared /\ m \in Message /\ m.event = e
        /\ \A t \in Service : m.deaths[t] <= failed[t][e]
    BY <1>1, RejectedOK
  <1>6. m.deaths[s] = c.deaths[s] + 1 /\ m.deaths[s] \in Nat /\ failed[s][e] \in Nat
    BY DEF Rejected, Message, IndInv, TypeOK
  <1>7. failed[s][e] # 0
    BY <1>5, <1>6 DEF Message
  <1>8. \A t \in Service : IsQueue(retry[t])
    BY Queues
  <1>9. \A n \in Message, t \in Service :
            Count(n, retry'[t]) = IF t \in declared /\ n = m THEN Count(n, retry[t]) + 1 ELSE Count(n, retry[t])
    BY <1>3, <1>8, CopiesRouted
  <1>10. ASSUME NEW t \in Service, NEW d \in Event, d # e
         PROVE  Apart(t, d)
    BY <1>1, <1>4, <1>5, <1>9, <1>10, ApartIf DEF history
  <1>11. pub'[e] # "pending"
    <2>1. pub' = pub
      BY <1>1 DEF publisher
    <2>2. ~Nowhere(s, e)
      BY <1>1 DEF Nowhere
    <2> QED
      BY <2>1, <2>2 DEF CalmInv
  <1>12. ASSUME NEW t \in Service, OnlyOwn(t, e), Single(t, e)
         PROVE  Single(t, e)'
    <2>1. t = s
      BY <1>7, <1>12 DEF OnlyOwn, Alone
    <2>2. /\ c.deaths[s] + 1 = tried[s][e] /\ c.deaths[s] + 1 = failed[s][e]
          /\ \A v \in Worker : HasOf(v, s, e) => v = w
      BY <1>1, <1>12, <2>1 DEF Single
    <2>3. ASSUME NEW n \in Message, n.event = e
          PROVE  InMain(s, n)' + InRetry(s, n)' = IF n = m THEN 1 ELSE 0
      <3>1. ~(InMain(s, n) + InRetry(s, n) > 0) /\ InMain(s, n) \in Nat /\ InRetry(s, n) \in Nat
        BY <1>1, <1>12, <2>1, <2>3, InQueues DEF Single
      <3>2. InMain(s, n)' = InMain(s, n)
        BY <1>1 DEF InMain
      <3>3. InRetry(s, n)' = IF n = m THEN InRetry(s, n) + 1 ELSE InRetry(s, n)
        BY <1>5, <1>9 DEF InRetry
      <3> QED
        BY <3>1, <3>2, <3>3
    <2>4. \A v \in Worker : ~HasOf(v, s, e)'
      BY <1>4, <2>2 DEF HasOf
    <2>5. tried' = tried /\ failed' = failed
      BY <1>1 DEF history
    <2>6. tried[s][e] <= MaxRetries /\ tried[s][e] <= failed[s][e] + 1
      BY <1>12, <2>1 DEF Single
    <2>7. ASSUME NEW n \in Message, n.event = e, InMain(s, n)' + InRetry(s, n)' > 0
          PROVE  /\ InMain(s, n)' + InRetry(s, n)' = 1
                 /\ n.deaths[s] = tried[s][e] /\ n.deaths[s] = failed[s][e]
      BY <1>6, <2>2, <2>3, <2>7
    <2> QED
      BY <2>1, <2>4, <2>5, <2>6, <2>7 DEF Single
  <1>13. \A v \in Worker : pc'[v] \in Down \/ link'[v] = "up"
    BY <1>1, <1>2, <1>4 DEF CalmInv, Down
  <1>14. pub' = pub
    BY <1>1 DEF publisher
  <1> QED
    BY <1>10, <1>11, <1>12, <1>13, <1>14, CalmKept

\* A rejection of a message is what routes it to the retry queues.
LEMMA RetryKept ==
    ASSUME IndInv, RetryInv, [Next]_vars
    PROVE  RetryInv'
  <1>1. CASE retry' = retry
    BY <1>1 DEF RetryInv
  <1>2. ASSUME NEW s \in Service, NEW m \in BagToSet(retry[s]), Expire(s, m)
        PROVE  RetryInv'
    <2>1. \A t \in Service : retry'[t] = retry[t] \/ retry'[t] = BagRemove(retry[t], m)
      BY <1>2 DEF Expire, IndInv, QueueInv
    <2>2. \A t \in Service : BagToSet(retry'[t]) \subseteq BagToSet(retry[t])
      BY <2>1, Removed, Queues
    <2> QED
      BY <2>2 DEF RetryInv
  <1>3. ASSUME NEW w \in Worker, Nack(w), retry' # retry
        PROVE  RetryInv'
    <2> PICK s \in Service, c \in Message : s = ServiceOf[w] /\ c = cur[w]
      BY <1>3 DEF Nack, IndInv, WorkerInv, Holding, MessageOK
    <2> PICK m : m = Rejected(c, s)
      OBVIOUS
    <2>1. retry' = Route(retry, m)
      BY <1>3 DEF Nack
    <2>2. pc[w] = "fail" /\ Attempt(w) < MaxRetries
      BY <1>3 DEF Nack
    <2>3. m \in Message /\ m.deaths[s] = c.deaths[s] + 1 /\ c.deaths[s] \in Nat
      BY <2>2, RejectedOK DEF Rejected, Message
    <2>4. \A t \in Service : BagToSet(retry'[t]) \subseteq BagToSet(retry[t]) \cup {m}
      BY <2>1, <2>3, Routed, Queues
    <2>5. m.deaths[s] > 0
      BY <2>3
    <2> QED
      BY <2>4, <2>5 DEF RetryInv
  <1> QED
    BY <1>1, <1>2, <1>3
    DEF Next, Work, Publish, PublishInterrupted, PublishVanishes, Listen, Receive, ReceiveStale,
        Reconnect, Dispatch, Ack, SettleRaises, Bury, ReconnectRaises, Drop, BuryRaises, Kill,
        server, vars

LEMMA NextRises ==
    ASSUME IndInv, [Next]_vars
    PROVE  Rises
  <1>1. \A s \in Service, e \in Event : failed[s][e] \in 0 .. MaxRetries
    BY DEF IndInv, TypeOK
  <1>2. CASE failed' = failed
    BY <1>1, <1>2 DEF Rises
  <1>3. ASSUME NEW w \in Worker, NEW ok, NEW isFailed, RunReceivers(w, ok, isFailed),
               pc[w] = "handle"
        PROVE  Rises
    <2> PICK e : e = cur[w].event
      OBVIOUS
    <2> PICK s \in Service : s = ServiceOf[w]
      OBVIOUS
    <2>1. failed' = [failed EXCEPT ![s][e] = IF isFailed THEN Bump(@, MaxRetries) ELSE @]
      BY <1>3 DEF RunReceivers
    <2>2. \A n \in 0 .. MaxRetries : n <= Bump(n, MaxRetries) /\ n <= n
      BY DEF Bump
    <2>3. \A t \in Service, d \in Event :
              failed'[t][d] = failed[t][d] \/ failed'[t][d] = Bump(failed[t][d], MaxRetries)
      BY <2>1 DEF IndInv, TypeOK
    <2> QED
      BY <1>1, <2>2, <2>3 DEF Rises
  <1> QED
    BY <1>2, <1>3
    DEF Next, Work, Publish, PublishInterrupted, PublishVanishes, Listen, Receive, ReceiveStale,
        Reconnect, Dispatch, Ack, Nack, SettleRaises, Bury, Expire, ReconnectRaises, Drop, BuryRaises, Kill,
        history, vars

LEMMA NextCalm ==
    ASSUME IndInv, IndInv', RetryInv, CalmInv, [Next]_vars
    PROVE  CalmInv'
  <1>1. CASE faults' # MaxFaults
    BY <1>1 DEF CalmInv
  <1>2. CASE faults' = MaxFaults
    <2>1. faults \in 0 .. MaxFaults /\ TypeOK' /\ Rises
      BY NextRises DEF IndInv, TypeOK
    <2>2. ~Fault
      BY <1>2, <2>1 DEF Fault
    <2>3. CASE UNCHANGED vars
      <3>1. faults = MaxFaults
        BY <1>2, <2>3 DEF vars
      <3>2. UNCHANGED <<main, retry, publisher, history, pc, cur, link>>
        BY <2>3 DEF vars, server, worker
      <3>3. \A v \in Worker : pc'[v] \in Down \/ link'[v] = "up"
        BY <3>1, <3>2 DEF CalmInv
      <3> QED
        BY <2>1, <3>1, <3>2, <3>3, WorkerCalm
    <2>4. ASSUME NEW e \in Event, Publish(e)
          PROVE  CalmInv'
      <3>1. faults = MaxFaults
        BY <1>2, <2>4 DEF Publish
      <3> QED
        BY <2>1, <2>4, <3>1, PublishCalm
    <2>5. ASSUME NEW s \in Service, NEW m \in BagToSet(retry[s]), Expire(s, m)
          PROVE  CalmInv'
      <3>1. faults = MaxFaults
        BY <1>2, <2>5 DEF Expire
      <3> QED
        BY <2>1, <2>5, <3>1, ExpireCalm
    <2>6. ASSUME NEW w \in Worker, Work(w)
          PROVE  CalmInv'
      <3>1. faults = MaxFaults
        BY <1>2, <2>6
        DEF Work, Listen, Receive, Reconnect, Dispatch, Ack, Nack, SettleRaises, Bury
      <3>2. pc[w] \in Down \/ link[w] = "up"
        BY <3>1 DEF CalmInv
      <3>3. ~Reconnect(w) /\ ~SettleRaises(w)
        BY <3>2 DEF Reconnect, SettleRaises, Down
      <3> QED
        BY <2>1, <2>6, <3>1, <3>3, ListenCalm, ReceiveCalm, DispatchCalm, NackCalm DEF Work
    <2> QED
      BY <2>2, <2>3, <2>4, <2>5, <2>6
      DEF Next, PublishInterrupted, PublishVanishes, ReceiveStale, ReconnectRaises, Drop, BuryRaises, Kill
  <1> QED
    BY <1>1, <1>2

LEMMA InitCalm == Init => RetryInv /\ CalmInv
  <1> SUFFICES ASSUME Init PROVE RetryInv /\ CalmInv
    OBVIOUS
  <1>1. \A s \in Service : BagToSet(main[s]) = {} /\ BagToSet(retry[s]) = {}
    BY EmptyQueue DEF Init
  <1>2. RetryInv
    BY <1>1 DEF RetryInv
  <1>3. /\ \A s \in Service, m \in Message : InMain(s, m) = 0 /\ InRetry(s, m) = 0
        /\ \A w \in Worker : cur[w] = None /\ pc[w] = "absent"
    BY <1>1 DEF InMain, InRetry, Count, BagIn, Init
  <1>4. \A s \in Service, e \in Event : tried[s][e] = 0 /\ failed[s][e] = 0
    BY DEF Init
  <1>5. \A s \in Service, e \in Event : Nowhere(s, e) /\ Single(s, e)
    BY <1>3, <1>4 DEF Nowhere, Single, HasOf
  <1> QED
    BY <1>2, <1>3, <1>4, <1>5 DEF CalmInv, Down

\* AttemptsBounded: as long as nothing fails but receivers, an event that no other service
\* rejects is dispatched once by a service, and, if the service has the event type for
\* itself, again for each failure, MAX_RETRIES times at most.
THEOREM AttemptsCounted == Spec => []AttemptsBounded
  <1>1. CalmInv => AttemptsBounded
    BY DEF CalmInv, OnlyOwn, Single, AttemptsBounded
  <1>2. IndInv /\ RetryInv /\ CalmInv /\ [Next]_vars => (IndInv /\ RetryInv /\ CalmInv)'
    BY StepIndInv, RetryKept, NextCalm
  <1>3. Init => IndInv /\ RetryInv /\ CalmInv
    BY InitIndInv, InitCalm
  <1> QED
    BY <1>1, <1>2, <1>3, PTL DEF Spec

-------------------------------------------------------------------------------
(* Each service sees the abstract bus *)

Owed(s) == EventsOf(main[s]) \cup EventsOf(retry[s]) \cup Unacked(s)

\* What worker w has of service s on a channel that is open.
HeldBy(w, s) ==
    IF ServiceOf[w] = s /\ link[w] = "up" /\ cur[w] # None THEN {cur[w].event} ELSE {}

\* One of the steps of EventBus, or none, for service s.
BusStep(s) == Bus(s)!Next \/ UNCHANGED Bus(s)!vars

LEMMA BusUnchanged ==
    ASSUME NEW s \in Service, accepted'[s] = accepted[s], Owed(s)' = Owed(s),
           served'[s] = served[s], BuriedBy(s)' = BuriedBy(s)
    PROVE  BusStep(s)
  BY DEF BusStep, Bus!vars, Owed

LEMMA BusAccepts ==
    ASSUME NEW s \in Service, NEW e \in Event, accepted'[s] = accepted[s] \cup {e},
           Owed(s)' = Owed(s) \cup {e}, served'[s] = served[s], BuriedBy(s)' = BuriedBy(s)
    PROVE  BusStep(s)
  <1>1. Bus(s)!Accept(e)
    BY DEF Bus!Accept, Owed
  <1> QED
    BY <1>1 DEF BusStep, Bus!Next

LEMMA BusBuries ==
    ASSUME NEW s \in Service, NEW e \in Event \ Unreadable, e \in accepted[s],
           accepted'[s] = accepted[s], Owed(s)' = Owed(s), served'[s] = served[s],
           BuriedBy(s)' = BuriedBy(s) \cup {e}
    PROVE  BusStep(s)
  <1>1. Bus(s)!Bury(e)
    BY DEF Bus!Bury, Owed
  <1> QED
    BY <1>1 DEF BusStep, Bus!Next

LEMMA BusServes ==
    ASSUME NEW s \in Service, NEW e \in Event \ Unreadable, NEW ok \in SUBSET Receiver,
           e \in accepted[s], accepted'[s] = accepted[s], Owed(s)' = Owed(s),
           served'[s] = [served[s] EXCEPT ![e] = @ \cup ok], BuriedBy(s)' = BuriedBy(s)
    PROVE  BusStep(s)
  <1>1. Bus(s)!Serve(e, ok)
    BY DEF Bus!Serve, Owed
  <1> QED
    BY <1>1 DEF BusStep, Bus!Next

LEMMA BusSettles ==
    ASSUME NEW s \in Service, NEW e \in Event, Settled(s, e) \/ e \in Unreadable,
           accepted'[s] = accepted[s], Owed(s)' = Owed(s) \/ Owed(s)' = Owed(s) \ {e},
           served'[s] = served[s], BuriedBy(s)' = BuriedBy(s)
    PROVE  BusStep(s)
  <1>1. CASE Owed(s)' = Owed(s)
    BY <1>1, BusUnchanged
  <1>2. CASE Owed(s)' = Owed(s) \ {e} /\ e \in Owed(s)
    <2>1. Bus(s)!Settle({e})
      BY <1>2 DEF Bus!Settle, Owed, Settled
    <2> QED
      BY <2>1 DEF BusStep, Bus!Next
  <1>3. CASE Owed(s)' = Owed(s) \ {e} /\ e \notin Owed(s)
    BY <1>3, BusUnchanged
  <1> QED
    BY <1>1, <1>2, <1>3

LEMMA HeldByIsUnacked ==
    ASSUME NEW w \in Worker, NEW s \in Service,
           \A v \in Worker \ {w} : UNCHANGED <<cur[v], link[v]>>
    PROVE  /\ HeldBy(w, s) \subseteq Unacked(s) /\ HeldBy(w, s)' \subseteq Unacked(s)'
           /\ Unacked(s) \subseteq Unacked(s)' \cup HeldBy(w, s)
           /\ Unacked(s)' \subseteq Unacked(s) \cup HeldBy(w, s)'
  BY DEF HeldBy, Unacked

\* A worker lets go of its message: requeued, or never on an open channel.
LEMMA OwedIfRequeued ==
    ASSUME IndInv, NEW w \in Worker, Requeue(w) \/ (main' = main /\ (cur[w] = None \/ link[w] # "up")),
           UNCHANGED retry, cur'[w] = None \/ link'[w] # "up",
           \A v \in Worker \ {w} : UNCHANGED <<cur[v], link[v]>>
    PROVE  \A s \in Service : Owed(s)' = Owed(s)
  <1> SUFFICES ASSUME NEW s \in Service PROVE Owed(s)' = Owed(s)
    OBVIOUS
  <1>1. HeldBy(w, s)' = {}
    BY DEF HeldBy
  <1>2. EventsOf(main[s])' = EventsOf(main[s]) \cup HeldBy(w, s)
    <2>1. Requeue(w)
      BY DEF Requeue
    <2>2. IF ServiceOf[w] = s /\ link[w] = "up" /\ cur[w] # None
          THEN EventsOf(main'[s]) = EventsOf(main[s]) \cup {cur[w].event}
          ELSE main'[s] = main[s]
      BY <2>1, Requeued
    <2> QED
      BY <2>2 DEF HeldBy, EventsOf
  <1> QED
    BY <1>1, <1>2, HeldByIsUnacked DEF Owed, EventsOf

\* A message goes through the main exchange, from a publisher or a retry queue.
LEMMA BusSent ==
    ASSUME IndInv, NEW m \in Message, ToMain(m), UNCHANGED <<declared, dlq, worker, history>>,
           \A s \in Service :
               /\ EventsOf(retry[s])' \subseteq EventsOf(retry[s])
               /\ EventsOf(retry[s]) \subseteq EventsOf(retry[s])' \cup (IF s \in declared THEN {m.event} ELSE {})
    PROVE  \A s \in Service : BusStep(s)
  <1> SUFFICES ASSUME NEW s \in Service PROVE BusStep(s)
    OBVIOUS
  <1>1. main' = Route(main, m) /\ Reach(m.event) /\ m.event \in Event
    BY DEF ToMain, Message
  <1>2. accepted'[s] = IF s \in declared THEN accepted[s] \cup {m.event} ELSE accepted[s]
    BY <1>1, Reached DEF IndInv
  <1>3. /\ s \in declared => EventsOf(main'[s]) = EventsOf(main[s]) \cup {m.event}
        /\ s \notin declared => main'[s] = main[s]
    BY <1>1, Routed, Queues
  <1>4. Unacked(s)' = Unacked(s) /\ BuriedBy(s)' = BuriedBy(s) /\ served'[s] = served[s]
    BY DEF Unacked, BuriedBy, worker, history
  <1>5. CASE s \in declared
    <2>1. Owed(s)' = Owed(s) \cup {m.event}
      BY <1>3, <1>4, <1>5 DEF Owed, EventsOf
    <2> QED
      BY <1>1, <1>2, <1>4, <1>5, <2>1, BusAccepts
  <1>6. CASE s \notin declared
    <2>1. Owed(s)' = Owed(s)
      BY <1>3, <1>4, <1>6 DEF Owed, EventsOf
    <2> QED
      BY <1>2, <1>4, <1>6, <2>1, BusUnchanged
  <1> QED
    BY <1>5, <1>6

\* Steps of a worker that only let go of its message, or take none.
LEMMA BusLetsGo ==
    ASSUME IndInv, NEW w \in Worker, Requeue(w) \/ (main' = main /\ (cur[w] = None \/ link[w] # "up")),
           UNCHANGED <<retry, accepted, dlq, served>>, cur'[w] = None \/ link'[w] # "up",
           \A v \in Worker \ {w} : UNCHANGED <<cur[v], link[v]>>
    PROVE  \A s \in Service : BusStep(s)
  BY OwedIfRequeued, BusUnchanged DEF BuriedBy

\* The receivers run; nothing is owed less for it.
LEMMA BusReceives ==
    ASSUME IndInv, NEW w \in Worker, pc[w] = "handle", NEW ok \in SUBSET Receiver,
           NEW isFailed \in BOOLEAN, RunReceivers(w, ok, isFailed), UNCHANGED <<accepted, dlq>>,
           \A s \in Service : Owed(s)' = Owed(s)
    PROVE  \A s \in Service : BusStep(s)
  <1> SUFFICES ASSUME NEW s \in Service PROVE BusStep(s)
    OBVIOUS
  <1> PICK e : e = cur[w].event
    OBVIOUS
  <1>1. e \in Event \ Unreadable /\ e \in accepted[ServiceOf[w]]
    BY DEF IndInv, WorkerInv, Holding, MessageOK, Message
  <1>2. served' = [served EXCEPT ![ServiceOf[w]][e] = @ \cup ok]
    BY DEF RunReceivers
  <1>3. accepted'[s] = accepted[s] /\ BuriedBy(s)' = BuriedBy(s)
    BY DEF BuriedBy
  <1>4. CASE ServiceOf[w] = s
    <2>1. served'[s] = [served[s] EXCEPT ![e] = @ \cup ok]
      BY <1>2, <1>4 DEF IndInv, TypeOK
    <2> QED
      BY <1>1, <1>3, <1>4, <2>1, BusServes
  <1>5. CASE ServiceOf[w] # s
    <2>1. served'[s] = served[s]
      BY <1>2, <1>5 DEF IndInv, TypeOK
    <2> QED
      BY <1>3, <2>1, BusUnchanged
  <1> QED
    BY <1>4, <1>5

\* What a worker takes from its buffer the queue has too.
LEMMA BusTakesStale ==
    ASSUME IndInv, NEW w \in Worker, ReceiveStale(w)
    PROVE  \A s \in Service : BusStep(s)
  <1> SUFFICES ASSUME NEW s \in Service PROVE BusStep(s)
    OBVIOUS
  <1>1. PICK m : cur' = [cur EXCEPT ![w] = m]
    BY DEF ReceiveStale
  <1>2. link[w] = "lost" /\ UNCHANGED <<main, retry, dlq, accepted, link, served>>
    BY DEF ReceiveStale, server, history
  <1>3. \A v \in Worker \ {w} : UNCHANGED <<cur[v], link[v]>>
    BY <1>1, <1>2 DEF IndInv, TypeOK
  <1>4. HeldBy(w, s) = {} /\ HeldBy(w, s)' = {}
    BY <1>2 DEF HeldBy
  <1>5. Owed(s)' = Owed(s)
    BY <1>2, <1>3, <1>4, HeldByIsUnacked DEF Owed, EventsOf
  <1> QED
    BY <1>2, <1>5, BusUnchanged DEF BuriedBy

LEMMA BusTakes ==
    ASSUME IndInv, NEW w \in Worker, Receive(w)
    PROVE  \A s \in Service : BusStep(s)
  <1> SUFFICES ASSUME NEW s \in Service PROVE BusStep(s)
    OBVIOUS
  <1>1. PICK m \in BagToSet(main[ServiceOf[w]]) :
            /\ main' = [main EXCEPT ![ServiceOf[w]] = BagRemove(@, m)]
            /\ cur' = [cur EXCEPT ![w] = m]
    BY DEF Receive
  <1>2. pc[w] = "poll" /\ link[w] = "up" /\ UNCHANGED <<retry, dlq, accepted, link, served>>
    BY DEF Receive, history
  <1>3. /\ cur[w] = None /\ m \in Message /\ cur'[w] = m
        /\ \A v \in Worker \ {w} : UNCHANGED <<cur[v], link[v]>>
    BY <1>1, <1>2 DEF IndInv, TypeOK, QueueInv, MessageOK, WorkerInv, Holding
  <1>4. HeldBy(w, s) = {} /\ HeldBy(w, s)' = IF ServiceOf[w] = s THEN {m.event} ELSE {}
    BY <1>2, <1>3, NoMessage DEF HeldBy
  <1>5. /\ EventsOf(main'[s]) \subseteq EventsOf(main[s]) /\ HeldBy(w, s)' \subseteq EventsOf(main[s])
        /\ EventsOf(main[s]) \subseteq EventsOf(main'[s]) \cup HeldBy(w, s)'
    <2>1. CASE ServiceOf[w] = s
      <3>1. main'[s] = BagRemove(main[s], m) /\ m \in BagToSet(main[s])
        BY <1>1, <2>1 DEF IndInv, QueueInv
      <3>2. m.event \in EventsOf(main[s])
        BY <3>1 DEF EventsOf
      <3> QED
        BY <1>4, <2>1, <3>1, <3>2, Removed, Queues
    <2>2. CASE ServiceOf[w] # s
      <3>1. main'[s] = main[s]
        BY <1>1, <2>2 DEF IndInv, QueueInv
      <3> QED
        BY <1>4, <2>2, <3>1
    <2> QED
      BY <2>1, <2>2
  <1>6. Owed(s)' = Owed(s)
    BY <1>2, <1>3, <1>4, <1>5, HeldByIsUnacked DEF Owed, EventsOf
  <1> QED
    BY <1>2, <1>6, BusUnchanged DEF BuriedBy

\* An acknowledged message was settled, or was on its way back already.
LEMMA BusAcks ==
    ASSUME IndInv, NEW w \in Worker, Ack(w)
    PROVE  \A s \in Service : BusStep(s)
  <1> SUFFICES ASSUME NEW s \in Service PROVE BusStep(s)
    OBVIOUS
  <1>1. /\ pc[w] \in {"discard", "ack"} /\ cur' = [cur EXCEPT ![w] = None]
        /\ UNCHANGED <<main, retry, dlq, accepted, link, served>>
    BY DEF Ack, Forget, server, history
  <1>2. cur'[w] = None /\ \A v \in Worker \ {w} : UNCHANGED <<cur[v], link[v]>>
    BY <1>1 DEF IndInv, TypeOK
  <1>3. CASE ServiceOf[w] = s /\ link[w] = "up"
    <2> PICK e : e = cur[w].event
      OBVIOUS
    <2>1. e \in Event /\ (Settled(s, e) \/ e \in Unreadable)
      BY <1>1, <1>3 DEF IndInv, WorkerInv, Holding, MessageOK, Message
    <2>2. HeldBy(w, s) \subseteq {e} /\ HeldBy(w, s)' = {}
      BY <1>2 DEF HeldBy
    <2>3. Owed(s)' = Owed(s) \/ Owed(s)' = Owed(s) \ {e}
      BY <1>1, <1>2, <2>2, HeldByIsUnacked DEF Owed, EventsOf
    <2> QED
      BY <1>1, <2>1, <2>3, BusSettles DEF BuriedBy
  <1>4. CASE ~(ServiceOf[w] = s /\ link[w] = "up")
    <2>1. HeldBy(w, s) = {} /\ HeldBy(w, s)' = {}
      BY <1>2, <1>4 DEF HeldBy
    <2>2. Owed(s)' = Owed(s)
      BY <1>1, <1>2, <2>1, HeldByIsUnacked DEF Owed, EventsOf
    <2> QED
      BY <1>1, <2>2, BusUnchanged DEF BuriedBy
  <1> QED
    BY <1>3, <1>4

\* A rejected message is in the retry queues of all, that of its service among them.
LEMMA BusNacks ==
    ASSUME IndInv, NEW w \in Worker, Nack(w)
    PROVE  \A s \in Service : BusStep(s)
  <1> SUFFICES ASSUME NEW s \in Service PROVE BusStep(s)
    OBVIOUS
  <1> PICK m : m = Rejected(cur[w], ServiceOf[w])
    OBVIOUS
  <1>1. /\ pc[w] = "fail" /\ Attempt(w) < MaxRetries /\ cur' = [cur EXCEPT ![w] = None]
        /\ UNCHANGED <<main, dlq, link, served>>
        /\ IF link[w] = "up" THEN retry' = Route(retry, m) /\ Reach(cur[w].event)
                             ELSE UNCHANGED <<retry, accepted>>
    BY DEF Nack, Forget, history
  <1>2. /\ m \in Message /\ m.event = cur[w].event /\ m.event \in Event
        /\ ServiceOf[w] \in declared
    BY <1>1, RejectedOK
  <1>3. cur'[w] = None /\ \A v \in Worker \ {w} : UNCHANGED <<cur[v], link[v]>>
    BY <1>1 DEF IndInv, TypeOK
  <1>4. BuriedBy(s)' = BuriedBy(s) /\ served'[s] = served[s] /\ main'[s] = main[s]
    BY <1>1 DEF BuriedBy
  <1>5. HeldBy(w, s)' = {} /\ HeldBy(w, s) \subseteq {m.event}
        /\ (HeldBy(w, s) # {} => s \in declared /\ link[w] = "up")
    BY <1>2, <1>3 DEF HeldBy
  <1>6. CASE link[w] = "up"
    <2>1. accepted'[s] = IF s \in declared THEN accepted[s] \cup {m.event} ELSE accepted[s]
      BY <1>1, <1>2, <1>6, Reached DEF IndInv
    <2>2. /\ s \in declared => EventsOf(retry'[s]) = EventsOf(retry[s]) \cup {m.event}
          /\ s \notin declared => retry'[s] = retry[s]
      BY <1>1, <1>2, <1>6, Routed, Queues
    <2>3. CASE s \in declared
      <3>1. Owed(s)' = Owed(s) \cup {m.event}
        BY <1>3, <1>4, <1>5, <2>2, <2>3, HeldByIsUnacked DEF Owed, EventsOf
      <3> QED
        BY <1>2, <1>4, <2>1, <2>3, <3>1, BusAccepts
    <2>4. CASE s \notin declared
      <3>1. Owed(s)' = Owed(s)
        BY <1>3, <1>4, <1>5, <2>2, <2>4, HeldByIsUnacked DEF Owed, EventsOf
      <3> QED
        BY <1>4, <2>1, <2>4, <3>1, BusUnchanged
    <2> QED
      BY <2>3, <2>4
  <1>7. CASE link[w] # "up"
    <2>1. Owed(s)' = Owed(s)
      BY <1>1, <1>3, <1>4, <1>5, <1>7, HeldByIsUnacked DEF Owed, EventsOf
    <2> QED
      BY <1>1, <1>4, <1>7, <2>1, BusUnchanged
  <1> QED
    BY <1>6, <1>7

\* The last attempt is put in the dead-letters; only its own service gives it up.
LEMMA BusDeadLetters ==
    ASSUME IndInv, NEW w \in Worker, pc[w] = "fail", Attempt(w) >= MaxRetries,
           UNCHANGED dlq \/ ToDeadLetter(cur[w].event, ServiceOf[w]),
           UNCHANGED <<accepted, declared, history>>, \A s \in Service : Owed(s)' = Owed(s)
    PROVE  \A s \in Service : BusStep(s)
  <1> SUFFICES ASSUME NEW s \in Service PROVE BusStep(s)
    OBVIOUS
  <1>1. accepted'[s] = accepted[s] /\ served'[s] = served[s]
    BY DEF history
  <1>2. CASE UNCHANGED dlq
    BY <1>1, <1>2, BusUnchanged DEF BuriedBy
  <1>3. CASE ToDeadLetter(cur[w].event, ServiceOf[w])
    <2>1. CASE ServiceOf[w] = s
      <3> PICK e : e = cur[w].event
        OBVIOUS
      <3>1. BuriedBy(s)' = BuriedBy(s) \cup {e}
        BY <1>3, <2>1, DeadLettered
      <3>2. e \in Event \ Unreadable /\ e \in accepted[s]
        BY <2>1, RejectedOK
      <3> QED
        BY <1>1, <3>1, <3>2, BusBuries
    <2>2. CASE ServiceOf[w] # s
      <3>1. BuriedBy(s)' = BuriedBy(s)
        BY <1>3, <2>2, DeadLettered
      <3> QED
        BY <1>1, <3>1, BusUnchanged
    <2> QED
      BY <2>1, <2>2
  <1> QED
    BY <1>2, <1>3

LEMMA BusNext == IndInv /\ [Next]_vars => \A s \in Service : BusStep(s)
  <1> SUFFICES ASSUME IndInv, [Next]_vars PROVE \A s \in Service : BusStep(s)
    OBVIOUS
  <1>1. ASSUME UNCHANGED <<main, retry, accepted, dlq, served, cur, link>>
        PROVE  \A s \in Service : BusStep(s)
    BY <1>1, BusUnchanged DEF Owed, EventsOf, Unacked, BuriedBy
  <1>2. ASSUME NEW e \in Event, Publish(e) \/ PublishInterrupted(e) \/ PublishVanishes(e)
        PROVE  \A s \in Service : BusStep(s)
    <2> PICK m \in Message : m = Fresh(e)
      BY FreshOK
    <2>1. /\ ToMain(m) \/ UNCHANGED <<main, accepted>>
          /\ UNCHANGED <<declared, retry, dlq, worker, history>>
      BY <1>2 DEF Publish, PublishInterrupted, PublishVanishes, server
    <2>2. CASE ToMain(m)
      BY <2>1, <2>2, BusSent DEF EventsOf
    <2> QED
      BY <1>1, <2>1, <2>2 DEF worker, history
  <1>3. ASSUME NEW s \in Service, NEW m \in BagToSet(retry[s]), Expire(s, m)
        PROVE  \A t \in Service : BusStep(t)
    <2>1. /\ retry' = [retry EXCEPT ![s] = BagRemove(@, m)]
          /\ ToMain(m) /\ UNCHANGED <<declared, dlq, worker, history>>
      BY <1>3 DEF Expire
    <2>2. m \in Message /\ s \in declared
      BY DEF IndInv, QueueInv, MessageOK
    <2>3. ASSUME NEW t \in Service
          PROVE  /\ EventsOf(retry[t])' \subseteq EventsOf(retry[t])
                 /\ EventsOf(retry[t]) \subseteq EventsOf(retry[t])' \cup (IF t \in declared THEN {m.event} ELSE {})
      <3>1. CASE t = s
        <4>1. retry'[t] = BagRemove(retry[t], m)
          BY <2>1, <3>1 DEF IndInv, QueueInv
        <4>2. /\ EventsOf(retry[t]) \ {m.event} \subseteq EventsOf(retry'[t])
              /\ EventsOf(retry'[t]) \subseteq EventsOf(retry[t])
          BY <4>1, Removed, Queues
        <4> QED
          BY <2>2, <3>1, <4>2 DEF EventsOf
      <3>2. CASE t # s
        <4>1. retry'[t] = retry[t]
          BY <2>1, <3>2 DEF IndInv, QueueInv
        <4> QED
          BY <4>1 DEF EventsOf
      <3> QED
        BY <3>1, <3>2
    <2> QED
      BY <2>1, <2>2, <2>3, BusSent
  <1>4. ASSUME NEW w \in Worker, Listen(w) \/ Reconnect(w) PROVE \A s \in Service : BusStep(s)
    <2>1. /\ cur[w] = None /\ link' = [link EXCEPT ![w] = "up"]
          /\ UNCHANGED <<main, retry, accepted, dlq, served, cur>>
      BY <1>4 DEF Listen, Reconnect, server, history, IndInv, WorkerInv, Holding, Down
    <2>2. \A v \in Worker \ {w} : UNCHANGED <<cur[v], link[v]>>
      BY <2>1 DEF IndInv, TypeOK
    <2> QED
      BY <2>1, <2>2, BusLetsGo
  <1>5. ASSUME NEW w \in Worker, ReconnectRaises(w) \/ SettleRaises(w)
        PROVE  \A s \in Service : BusStep(s)
    <2>1. link[w] # "up" /\ Exit(w, "raised") /\ UNCHANGED <<main, retry, accepted, dlq, served>>
      BY <1>5 DEF ReconnectRaises, SettleRaises, server, history
    <2>2. cur'[w] = None /\ \A v \in Worker \ {w} : UNCHANGED <<cur[v], link[v]>>
      BY <2>1, Exits DEF Down
    <2> QED
      BY <2>1, <2>2, BusLetsGo
  <1>6. ASSUME NEW w \in Worker, Drop(w) PROVE \A s \in Service : BusStep(s)
    <2>1. /\ Requeue(w) /\ link' = [link EXCEPT ![w] = "lost"]
          /\ UNCHANGED <<retry, accepted, dlq, served, cur>>
      BY <1>6 DEF Drop, history
    <2>2. link'[w] # "up" /\ \A v \in Worker \ {w} : UNCHANGED <<cur[v], link[v]>>
      BY <2>1 DEF IndInv, TypeOK
    <2> QED
      BY <2>1, <2>2, BusLetsGo
  <1>7. ASSUME NEW w \in Worker, Dispatch(w) PROVE \A s \in Service : BusStep(s)
    <2>1. PICK bad \in SUBSET Receiver : RunReceivers(w, Receiver \ bad, bad # {})
      BY <1>7 DEF Dispatch
    <2> PICK isFailed \in BOOLEAN : isFailed = (bad # {})
      OBVIOUS
    <2>2. pc[w] = "handle" /\ UNCHANGED <<main, retry, accepted, dlq, cur, link>>
      BY <1>7 DEF Dispatch, server
    <2>3. \A s \in Service : Owed(s)' = Owed(s)
      BY <2>2 DEF Owed, EventsOf, Unacked
    <2> QED
      BY <2>1, <2>2, <2>3, BusReceives
  <1>8. ASSUME NEW w \in Worker, Bury(w) PROVE \A s \in Service : BusStep(s)
    <2>1. /\ pc[w] = "fail" /\ Attempt(w) >= MaxRetries
          /\ UNCHANGED dlq \/ ToDeadLetter(cur[w].event, ServiceOf[w])
          /\ UNCHANGED <<main, retry, accepted, declared, history, cur>>
          /\ \/ UNCHANGED link
             \/ link[w] = "lost" /\ link' = [link EXCEPT ![w] = "down"]
      BY <1>8 DEF Bury
    <2>2. \A s \in Service : Owed(s)' = Owed(s)
      <3>1. CASE UNCHANGED link
        BY <2>1, <3>1 DEF Owed, EventsOf, Unacked
      <3>2. CASE link[w] = "lost" /\ link' = [link EXCEPT ![w] = "down"]
        <4>1. link'[w] # "up" /\ \A v \in Worker \ {w} : UNCHANGED <<cur[v], link[v]>>
          BY <2>1, <3>2 DEF IndInv, TypeOK
        <4> QED
          BY <2>1, <3>2, <4>1, OwedIfRequeued
      <3> QED
        BY <2>1, <3>1, <3>2
    <2> QED
      BY <2>1, <2>2, BusDeadLetters
  <1>9. ASSUME NEW w \in Worker, BuryRaises(w) PROVE \A s \in Service : BusStep(s)
    <2>1. /\ pc[w] = "fail" /\ Attempt(w) >= MaxRetries
          /\ UNCHANGED dlq \/ ToDeadLetter(cur[w].event, ServiceOf[w])
          /\ Requeue(w) /\ Exit(w, "raised") /\ UNCHANGED <<retry, accepted, declared, history>>
      BY <1>9 DEF BuryRaises
    <2>2. cur'[w] = None /\ \A v \in Worker \ {w} : UNCHANGED <<cur[v], link[v]>>
      BY <2>1, Exits DEF Down
    <2>3. \A s \in Service : Owed(s)' = Owed(s)
      BY <2>1, <2>2, OwedIfRequeued
    <2> QED
      BY <2>1, <2>3, BusDeadLetters
  <1>10. ASSUME NEW w \in Worker, Kill(w) PROVE \A s \in Service : BusStep(s)
    <2>1. Requeue(w) /\ Exit(w, "killed") /\ UNCHANGED <<retry, accepted, dlq>>
      BY <1>10 DEF Kill
    <2>2. cur'[w] = None /\ \A v \in Worker \ {w} : UNCHANGED <<cur[v], link[v]>>
      BY <2>1, Exits DEF Down
    <2>3. \A s \in Service : Owed(s)' = Owed(s)
      BY <2>1, <2>2, OwedIfRequeued
    <2>4. CASE pc[w] = "handle"
      BY <1>10, <2>1, <2>3, <2>4, BusReceives DEF Kill
    <2>5. CASE pc[w] # "handle"
      BY <1>10, <2>1, <2>3, <2>5, BusUnchanged DEF Kill, history, BuriedBy
    <2> QED
      BY <2>4, <2>5
  <1>11. CASE UNCHANGED vars
    BY <1>1, <1>11 DEF vars, server, worker, history
  <1> QED
    BY <1>2, <1>3, <1>4, <1>5, <1>6, <1>7, <1>8, <1>9, <1>10, <1>11,
       BusTakes, BusTakesStale, BusAcks, BusNacks DEF Next, Work

\* BusSpec: each service sees EventBus, with any number of workers, through lost connections,
\* failed acknowledgements and kills, and whatever messages the others send round.
THEOREM Implementation == Spec => BusSpec
  <1>1. Init => \A s \in Service : Bus(s)!Init
    BY EmptyQueue DEF Init, Bus!Init, EventsOf, Unacked, BuriedBy
  <1>2. IndInv /\ [Next]_vars => [\A s \in Service : Bus(s)!Next \/ UNCHANGED Bus(s)!vars]_vars
    BY BusNext DEF BusStep
  <1> QED
    BY <1>1, <1>2, Invariance, PTL DEF Spec, BusSpec
===============================================================================
