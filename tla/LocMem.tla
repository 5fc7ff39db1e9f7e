--------------------------------- MODULE LocMem ---------------------------------
(***************************************************************************)
(* LocMemBroker (brokers/locmem.py), the default backend: a queue for each *)
(* service and event type in the memory of one process, threads that       *)
(* publish, and threads that consume for a service.  It promises less than *)
(* EventBus: an event is delivered at most once, to services that listen.  *)
(***************************************************************************)
EXTENDS Naturals, Sequences, FiniteSets

CONSTANTS
    Event,       \* the envelopes
    TypeOf,      \* event -> its event_type
    Type,        \* the event types
    Service,     \* the services that live in the process
    Consumer,    \* the threads that run a worker's loop
    ServiceOf,   \* consumer -> its service
    TypesOf,     \* consumer -> the types it listens to, in the order of its loop
    MaxResets    \* bound of the model on the calls of reset()

None == "none"

\* What the instances must satisfy.
Parameters ==
    /\ None \notin Event
    /\ TypeOf \in [Event -> Type]
    /\ ServiceOf \in [Consumer -> Service]
    /\ \A c \in Consumer : TypesOf[c] \in Seq(Type) /\ TypesOf[c] # <<>>
    /\ MaxResets \in Nat

VARIABLES
    published,    \* the events whose publish() has returned
    subscribed,   \* _subscribers: service -> event types, those that have a queue
    queue,        \* _queues: service -> event type -> the events in it
    pc,           \* consumer -> where its thread is
    at,           \* consumer -> the position of the for loop in its types
    cur,          \* consumer -> the event it was given, or None
    delivered,    \* service -> event -> how often dispatch() was run on it
    due,          \* the <<service, event>> published while the service listened
    resets

consumers == <<pc, at, cur>>
vars == <<published, subscribed, queue, consumers, delivered, due, resets>>

TypeOK ==
    /\ published \subseteq Event
    /\ subscribed \in [Service -> SUBSET Type]
    /\ queue \in [Service -> [Type -> Seq(Event)]]
    /\ \A s \in Service : \A y \in Type \ subscribed[s] : queue[s][y] = <<>>
    /\ pc \in [Consumer -> {"absent", "loop", "dispatch", "KeyError"}]
    /\ \A c \in Consumer : at[c] \in DOMAIN TypesOf[c]
    /\ cur \in [Consumer -> Event \cup {None}]
    /\ delivered \in [Service -> [Event -> 0 .. 2]]
    /\ due \subseteq Service \X Event
    /\ resets \in 0 .. MaxResets

NoQueues == [s \in Service |-> [y \in Type |-> <<>>]]

Init ==
    /\ published = {}
    /\ subscribed = [s \in Service |-> {}]
    /\ queue = NoQueues
    /\ pc = [c \in Consumer |-> "absent"]
    /\ at = [c \in Consumer |-> 1]
    /\ cur = [c \in Consumer |-> None]
    /\ delivered = [s \in Service |-> [e \in Event |-> 0]]
    /\ due = {}
    /\ resets = 0

-------------------------------------------------------------------------------
Listening(e) == {s \in Service : TypeOf[e] \in subscribed[s]}

\* Under _lock: a put into the queue of each service that listens.
Publish(e) ==
    /\ e \notin published
    /\ published' = published \cup {e}
    /\ queue' = [s \in Service |-> IF s \in Listening(e)
                                   THEN [queue[s] EXCEPT ![TypeOf[e]] = Append(@, e)]
                                   ELSE queue[s]]
    /\ due' = due \cup (Listening(e) \X {e})
    /\ UNCHANGED <<subscribed, consumers, delivered, resets>>

Types(c) == {TypesOf[c][i] : i \in DOMAIN TypesOf[c]}

\* A bug: listen() makes new queues.
Listen_NewQueues(c) ==
    /\ pc[c] = "absent"
    /\ subscribed' = [subscribed EXCEPT ![ServiceOf[c]] = @ \cup Types(c)]
    /\ queue' = [queue EXCEPT ![ServiceOf[c]] =
          [y \in Type |-> IF y \in Types(c) THEN <<>> ELSE @[y]]]
    /\ pc' = [pc EXCEPT ![c] = "loop"]
    /\ UNCHANGED <<published, at, cur, delivered, due, resets>>

\* Under _lock, when it is called: setdefault() keeps the queues that exist.
Listen(c) ==
    /\ pc[c] = "absent"
    /\ subscribed' = [subscribed EXCEPT ![ServiceOf[c]] = @ \cup Types(c)]
    /\ pc' = [pc EXCEPT ![c] = "loop"]
    /\ UNCHANGED <<published, queue, at, cur, delivered, due, resets>>

-------------------------------------------------------------------------------
(* _consume() *)

Looked(c) == TypesOf[c][at[c]]
TakeNextType(c) ==
    at' = [at EXCEPT ![c] = IF @ = Len(TypesOf[c]) THEN 1 ELSE @ + 1]

\* _queues[...] after a reset().
NoQueue(c) ==
    /\ pc[c] = "loop" /\ Looked(c) \notin subscribed[ServiceOf[c]]
    /\ pc' = [pc EXCEPT ![c] = "KeyError"]
    /\ UNCHANGED <<published, subscribed, queue, at, cur, delivered, due, resets>>

\* A bug: a LifoQueue.
Get_Newest(c) ==
    LET s == ServiceOf[c]  q == queue[s][Looked(c)] IN
    /\ pc[c] = "loop" /\ q # <<>>
    /\ cur' = [cur EXCEPT ![c] = q[Len(q)]]
    /\ queue' = [queue EXCEPT ![s][Looked(c)] = SubSeq(q, 1, Len(q) - 1)]
    /\ pc' = [pc EXCEPT ![c] = "dispatch"]
    /\ TakeNextType(c)
    /\ UNCHANGED <<published, subscribed, delivered, due, resets>>

\* get() has an event: the loop yields it and goes on with the next type.  The look-up of
\* the queue and the get() from it are one step: what a consumer still takes from a queue
\* that a reset has detached is taken here before the reset.  Nobody puts into such a
\* queue, and each consumer takes at most once from it, so that the two orders end alike.
Get(c) ==
    LET s == ServiceOf[c] IN
    /\ pc[c] = "loop" /\ queue[s][Looked(c)] # <<>>
    /\ cur' = [cur EXCEPT ![c] = Head(queue[s][Looked(c)])]
    /\ queue' = [queue EXCEPT ![s][Looked(c)] = Tail(@)]
    /\ pc' = [pc EXCEPT ![c] = "dispatch"]
    /\ TakeNextType(c)
    /\ UNCHANGED <<published, subscribed, delivered, due, resets>>

\* A bug: get() without a timeout.
Empty_Blocks(c) == FALSE

\* get() times out.
Empty(c) ==
    /\ pc[c] = "loop" /\ Looked(c) \in subscribed[ServiceOf[c]]
    /\ queue[ServiceOf[c]][Looked(c)] = <<>>
    /\ TakeNextType(c)
    /\ UNCHANGED <<published, subscribed, queue, pc, cur, delivered, due, resets>>

\* dispatch() runs the receivers; ack() and fail() do nothing.
Dispatch(c) ==
    /\ pc[c] = "dispatch"
    /\ delivered' = [delivered EXCEPT ![ServiceOf[c]][cur[c]] = IF @ < 2 THEN @ + 1 ELSE @]
    /\ cur' = [cur EXCEPT ![c] = None]
    /\ pc' = [pc EXCEPT ![c] = "loop"]
    /\ UNCHANGED <<published, subscribed, queue, at, due, resets>>

\* Nothing in the queues is due any more.
Queued(s) == UNION {{queue[s][y][i] : i \in DOMAIN queue[s][y]} : y \in Type}

Reset ==
    /\ resets < MaxResets
    /\ resets' = resets + 1
    /\ subscribed' = [s \in Service |-> {}]
    /\ queue' = NoQueues
    /\ due' = {p \in due : p[2] \notin Queued(p[1])}
    /\ UNCHANGED <<published, consumers, delivered>>

-------------------------------------------------------------------------------
Step(c) == NoQueue(c) \/ Get(c) \/ Empty(c) \/ Dispatch(c)

Next ==
    \/ \E e \in Event : Publish(e)
    \/ \E c \in Consumer : Listen(c) \/ Step(c)
    \/ Reset

Spec == Init /\ [][Next]_vars

\* The threads that listen go on.
FairSpec == Spec /\ \A c \in Consumer : WF_vars(Step(c))

-------------------------------------------------------------------------------
(* Properties *)

Taken(s, e) == {c \in Consumer : ServiceOf[c] = s /\ cur[c] = e}

Places(s, e) == (IF e \in Queued(s) THEN 1 ELSE 0) + Cardinality(Taken(s, e)) + delivered[s][e]

\* Each service that listened has an event once: once in its queue, in one of its
\* threads, or delivered, however many threads consume and whenever they start.
OncePerService ==
    \A s \in Service, e \in Event :
        /\ Places(s, e) <= 1 /\ (<<s, e>> \in due => Places(s, e) = 1)
        /\ \A y \in Type : \A i, j \in DOMAIN queue[s][y] :
              queue[s][y][i] = e /\ queue[s][y][j] = e => i = j

Undelivered == {p \in due : delivered[p[1]][p[2]] = 0}

\* No event is held up by the types that come before it in a thread's loop, nor
\* by threads that a reset() ended; only reset() may drop it.  (The events of a
\* behaviour are finitely many.)
EventuallyDelivered == Undelivered # {} ~> Undelivered = {}
===============================================================================
