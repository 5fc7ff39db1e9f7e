----------------------------- MODULE RedisStreams -----------------------------
(***************************************************************************)
(* The Redis broker (brokers/redis_streams.py) of one service at work on   *)
(* one event type: publishers that retry, and eventbus_worker processes    *)
(* that share the service's consumer group, each running                   *)
(*   for envelope in broker.listen(...): dispatch(broker, envelope)        *)
(* Every command sent to Redis is a step.  A fault (a lost reply, an       *)
(* unreachable server, a kill, a signal, a lost group) spends one of       *)
(* MaxFaults; a worker that went down is started again by its supervisor.  *)
(***************************************************************************)
EXTENDS RedisServer

CONSTANTS
    Worker,          \* eventbus_worker processes of the service
    Receiver,        \* receivers registered for the event type
    Unreadable,      \* events another version published, that do not load
    PublishRetries,  \* option PUBLISH_RETRIES
    MaxFaults,       \* bound of the model on the faults of a behaviour
    Within,          \* handlers that surely end within RETRY_IDLE_MS, one after
                     \* the other, from a reply on; 0 if one may outlast it
    GroupLoss        \* the consumer group may be destroyed

ASSUME UnreadableAssumption == Unreadable \subseteq Event
ASSUME PublishRetriesAssumption == PublishRetries \in Nat
ASSUME MaxFaultsAssumption == MaxFaults \in Nat
ASSUME WithinAssumption == Within \in Nat
ASSUME GroupLossAssumption == GroupLoss \in BOOLEAN

Down == {"absent", "stopped", "killed", "raised"}   \* no process, and why
Busy == {"handle", "ack", "fail", "bury"}           \* in dispatch(), on cur

VARIABLES
    pub,          \* event -> state of its publish() call
    attempt,      \* event -> attempts of publish() that were interrupted
    pc,           \* worker -> where it is in its loop, or why it is down
    resume,       \* worker -> where _consume goes on once batch is drained
    batch,        \* worker -> ids of a reply, not yet yielded
    cur,          \* worker -> id of the envelope in _pending, 0 if none
    handled,      \* worker -> envelopes done with since that reply, up to Within
    stop,         \* worker -> _stop, the flag the signal handler sets
    served,       \* event -> receivers that have processed it successfully
    tried,        \* id -> times dispatched, kept up to MaxRetries + 1
    missed,       \* ids given up when the group was created again at $
    gap,          \* id of the first entry added after the group was lost
    faults        \* faults that may still happen

publisher == <<pub, attempt>>
worker == <<pc, resume, batch, cur, handled, stop>>
history == <<served, tried, missed, gap>>
vars == <<server, publisher, worker, history, faults>>

PublisherTypeOK ==
    /\ pub \in [Event -> {"pending", "returned", "raised"}]
    /\ attempt \in [Event -> 0 .. PublishRetries + 1]

WorkerTypeOK ==
    /\ pc \in [Worker -> Down \cup Busy \cup {"claim", "read", "recover", "drain"}]
    /\ resume \in [Worker -> {"claim", "read"}]
    /\ batch \in [Worker -> SUBSET (1 .. Len(stream))]
    /\ cur \in [Worker -> 0 .. Len(stream)]
    /\ handled \in [Worker -> 0 .. Within]
    /\ stop \in [Worker -> BOOLEAN]

HistoryTypeOK ==
    /\ served \in [Event -> SUBSET Receiver]
    /\ tried \in [Id -> 0 .. MaxRetries + 1]
    /\ missed \subseteq 1 .. Len(stream)
    /\ gap \in 0 .. MaxEntries + 1

\* Every variable keeps its type; in particular no publish() is attempted more
\* than PUBLISH_RETRIES + 1 times and no worker holds an id that does not exist.
TypeOK ==
    /\ ServerTypeOK
    /\ PublisherTypeOK
    /\ WorkerTypeOK
    /\ HistoryTypeOK
    /\ faults \in 0 .. MaxFaults

Init ==
    /\ ServerInit
    /\ pub = [e \in Event |-> "pending"]
    /\ attempt = [e \in Event |-> 0]
    /\ pc = [w \in Worker |-> "absent"]
    /\ resume = [w \in Worker |-> "claim"]
    /\ batch = [w \in Worker |-> {}]
    /\ cur = [w \in Worker |-> 0]
    /\ handled = [w \in Worker |-> 0]
    /\ stop = [w \in Worker |-> FALSE]
    /\ served = [e \in Event |-> {}]
    /\ tried = [i \in Id |-> 0]
    /\ missed = {}
    /\ gap = 0
    /\ faults = MaxFaults

Fault == faults > 0 /\ faults' = faults - 1

-------------------------------------------------------------------------------
(* publish() *)

\* XADD succeeds and its reply arrives.
Publish(e) ==
    /\ pub[e] = "pending"
    /\ XADD(e)
    /\ pub' = [pub EXCEPT ![e] = "returned"]
    /\ UNCHANGED <<attempt, worker, history, faults>>

\* range(1, attempts + 1): the last interrupted attempt raises.
Attempts == PublishRetries + 1

\* A bug: the return stands after the try, and ends the loop in any case.
PublishInterrupted_Swallowed(e) ==
    /\ pub[e] = "pending"
    /\ Fault
    /\ XADD(e) \/ UNCHANGED server
    /\ attempt' = [attempt EXCEPT ![e] = @ + 1]
    /\ pub' = [pub EXCEPT ![e] = "returned"]
    /\ UNCHANGED <<worker, history>>

\* A transient error: Redis may or may not have executed the XADD.
PublishInterrupted(e) ==
    /\ pub[e] = "pending"
    /\ Fault
    /\ XADD(e) \/ UNCHANGED server
    /\ attempt' = [attempt EXCEPT ![e] = @ + 1]
    /\ pub' = [pub EXCEPT ![e] = IF attempt'[e] = Attempts THEN "raised" ELSE @]
    /\ UNCHANGED <<worker, history>>

-------------------------------------------------------------------------------
(* _consume() *)

Goto(w, label) == pc' = [pc EXCEPT ![w] = label]

\* The process ends: what it held in memory is gone.
Exit(w, why) ==
    /\ Goto(w, why)
    /\ resume' = [resume EXCEPT ![w] = "claim"]
    /\ batch' = [batch EXCEPT ![w] = {}]
    /\ cur' = [cur EXCEPT ![w] = 0]
    /\ handled' = [handled EXCEPT ![w] = 0]
    /\ stop' = [stop EXCEPT ![w] = FALSE]

\* A bug: listen() creates the group at "$".
Listen_AtEnd(w) ==
    /\ pc[w] \in Down
    /\ XGROUP_CREATE(Len(stream))
    /\ Goto(w, "claim")
    /\ UNCHANGED <<publisher, resume, batch, cur, handled, stop, history, faults>>

\* A (re)started worker: listen() creates the group, reading from the start.
Listen(w) ==
    /\ pc[w] \in Down
    /\ XGROUP_CREATE(0)
    /\ Goto(w, "claim")
    /\ UNCHANGED <<publisher, resume, batch, cur, handled, stop, history, faults>>

\* A reply with the entries of ids; the loop yields them before it resumes.
Receive(w, ids, next) ==
    /\ Goto(w, "drain")
    /\ batch' = [batch EXCEPT ![w] = ids]
    /\ handled' = [handled EXCEPT ![w] = 0]
    /\ resume' = [resume EXCEPT ![w] = next]
    /\ UNCHANGED <<publisher, cur, stop, history, faults>>

AutoClaim(w) ==
    /\ pc[w] = "claim"
    /\ XAUTOCLAIM
    /\ Receive(w, Claimed, "read")

Read(w) ==
    /\ pc[w] = "read"
    /\ XREADGROUP
    /\ Receive(w, Fresh, "claim")

\* NOGROUP: go through _recover_missing_group, then on as after an error.
NoGroup(w) ==
    /\ pc[w] \in {"claim", "read"}
    /\ ~group
    /\ resume' = [resume EXCEPT ![w] = IF pc[w] = "claim" THEN "read" ELSE "claim"]
    /\ Goto(w, "recover")
    /\ UNCHANGED <<server, publisher, batch, cur, handled, stop, history, faults>>

\* A transient error of XAUTOCLAIM or XREADGROUP is caught; Redis may have
\* executed the command, and then nobody knows what it delivered.
ConsumeInterrupted(w) ==
    /\ Fault
    /\ \/ /\ pc[w] = "claim"
          /\ XAUTOCLAIM \/ UNCHANGED server
          /\ Goto(w, "read")
       \/ /\ pc[w] = "read"
          /\ XREADGROUP \/ UNCHANGED server
          /\ Goto(w, "claim")
    /\ UNCHANGED <<publisher, resume, batch, cur, handled, stop, history>>

\* Nothing is left to do for entry i.
Settled(i) ==
    \/ stream[i] \in Unreadable
    \/ served[stream[i]] = Receiver
    \/ dlq[i] > 0

\* The group exists again, from "$" on: whatever is unsettled is missed.
XGROUP_RECREATE ==
    /\ XGROUP_CREATE(Len(stream))
    /\ missed' = IF group THEN missed
                 ELSE missed \cup {i \in 1 .. Len(stream) : ~Settled(i)}
    /\ UNCHANGED <<served, tried, gap>>

Recover(w) ==
    /\ pc[w] = "recover"
    /\ XGROUP_RECREATE
    /\ Goto(w, resume[w])
    /\ UNCHANGED <<publisher, resume, batch, cur, handled, stop, faults>>

\* The entries of a reply are yielded in order.
IsNext(w, i) == i \in batch[w] /\ \A j \in batch[w] : i <= j

\* _to_envelope on an entry that does not load: it is acknowledged.
Discard(w) ==
    /\ pc[w] = "drain"
    /\ \E i \in batch[w] :
        /\ IsNext(w, i)
        /\ stream[i] \in Unreadable
        /\ XACK(i)
        /\ batch' = [batch EXCEPT ![w] = @ \ {i}]
    /\ UNCHANGED <<publisher, pc, resume, cur, handled, stop, history, faults>>

\* The worker's loop looks at _stop once it has been given an envelope.
Yield(w) ==
    /\ pc[w] = "drain"
    /\ \E i \in batch[w] :
        /\ IsNext(w, i)
        /\ stream[i] \notin Unreadable
        /\ IF stop[w]
           THEN Exit(w, "stopped")
           ELSE /\ Goto(w, "handle")
                /\ cur' = [cur EXCEPT ![w] = i]
                /\ batch' = [batch EXCEPT ![w] = @ \ {i}]
                /\ UNCHANGED <<resume, handled, stop>>
    /\ UNCHANGED <<server, publisher, history, faults>>

\* A bug: pending entries are claimed at start only.
Drained_NoReclaim(w) ==
    /\ pc[w] = "drain"
    /\ batch[w] = {}
    /\ Goto(w, "read")
    /\ UNCHANGED <<server, publisher, resume, batch, cur, handled, stop, history, faults>>

\* The for loop over the reply ends.
Drained(w) ==
    /\ pc[w] = "drain"
    /\ batch[w] = {}
    /\ Goto(w, resume[w])
    /\ UNCHANGED <<server, publisher, resume, batch, cur, handled, stop, history, faults>>

-------------------------------------------------------------------------------
(* dispatch(), ack() and fail() *)

\* The receivers of ok have processed the envelope of entry i.
RunReceivers(i, ok) ==
    /\ served' = [served EXCEPT ![stream[i]] = @ \cup ok]
    /\ tried' = [tried EXCEPT ![i] = Bump(@, MaxRetries + 1)]
    /\ UNCHANGED <<missed, gap>>

\* A bug: one successful receiver is enough to ack.
Dispatch_AnySuccess(w) ==
    /\ pc[w] = "handle"
    /\ \E failed \in SUBSET Receiver :
        /\ RunReceivers(cur[w], Receiver \ failed)
        /\ Goto(w, IF failed # Receiver THEN "ack" ELSE "fail")
    /\ UNCHANGED <<server, publisher, resume, batch, cur, handled, stop, faults>>

\* Every receiver runs, whatever the others did; one failure is enough to fail.
Dispatch(w) ==
    /\ pc[w] = "handle"
    /\ \E failed \in SUBSET Receiver :
        /\ RunReceivers(cur[w], Receiver \ failed)
        /\ Goto(w, IF failed = {} THEN "ack" ELSE "fail")
    /\ UNCHANGED <<server, publisher, resume, batch, cur, handled, stop, faults>>

\* The envelope leaves _pending and the loop asks for the next one.
Forget(w) ==
    /\ Goto(w, "drain")
    /\ cur' = [cur EXCEPT ![w] = 0]
    /\ handled' = [handled EXCEPT ![w] = Bump(@, Within)]
    /\ UNCHANGED <<resume, batch, stop>>

Ack(w) ==
    /\ pc[w] = "ack"
    /\ XACK(cur[w])
    /\ Forget(w)
    /\ UNCHANGED <<publisher, history, faults>>

\* A bug: an off-by-one on the delivery count.
Retried_OffByOne(i) == XPENDING(i) + 1 < MaxRetries

\* fail() leaves the entry pending, to be claimed again, or goes on to bury it.
Retried(i) == XPENDING(i) < MaxRetries

Fail(w) ==
    /\ pc[w] = "fail"
    /\ group
    /\ IF Retried(cur[w]) THEN Forget(w)
       ELSE Goto(w, "bury") /\ UNCHANGED <<resume, batch, cur, handled, stop>>
    /\ UNCHANGED <<server, publisher, history, faults>>

Bury(w) ==
    /\ pc[w] = "bury"
    /\ XADD_DLQ_XACK(cur[w])
    /\ Forget(w)
    /\ UNCHANGED <<publisher, history, faults>>

\* XPENDING without its group is an error nothing catches: the worker ends.
FailNoGroup(w) ==
    /\ pc[w] = "fail"
    /\ ~group
    /\ Exit(w, "raised")
    /\ UNCHANGED <<server, publisher, history, faults>>

\* The commands outside _consume's two try blocks: a transient error, with
\* the command executed or not, ends the worker.
UnguardedCall(w) ==
    \/ pc[w] \in Down /\ XGROUP_CREATE(0) /\ UNCHANGED history
    \/ pc[w] = "recover" /\ XGROUP_RECREATE
    \/ /\ pc[w] = "drain"
       /\ \E i \in batch[w] : IsNext(w, i) /\ stream[i] \in Unreadable /\ XACK(i)
       /\ UNCHANGED history
    \/ pc[w] = "ack" /\ XACK(cur[w]) /\ UNCHANGED history
    \/ pc[w] = "bury" /\ XADD_DLQ_XACK(cur[w]) /\ UNCHANGED history
    \/ /\ pc[w] \in Down \cup {"recover", "ack", "fail", "bury"}
       /\ UNCHANGED <<server, history>>
    \/ /\ pc[w] = "drain"
       /\ \E i \in batch[w] : IsNext(w, i) /\ stream[i] \in Unreadable
       /\ UNCHANGED <<server, history>>

CallRaises(w) ==
    /\ Fault
    /\ UnguardedCall(w)
    /\ Exit(w, "raised")
    /\ UNCHANGED publisher

-------------------------------------------------------------------------------
(* Signals, kills, time, and the loss of the group *)

\* SIGTERM or SIGINT: _request_stop.
RequestStop(w) ==
    /\ pc[w] \notin Down
    /\ ~stop[w]
    /\ Fault
    /\ stop' = [stop EXCEPT ![w] = TRUE]
    /\ UNCHANGED <<server, publisher, pc, resume, batch, cur, handled, history>>

\* A kill; in the middle of dispatch() some receivers may have run.
Kill(w) ==
    /\ pc[w] \notin Down
    /\ Fault
    /\ IF pc[w] = "handle"
       THEN \E ok \in SUBSET Receiver : RunReceivers(cur[w], ok)
       ELSE UNCHANGED history
    /\ Exit(w, "killed")
    /\ UNCHANGED <<server, publisher>>

DestroyGroup ==
    /\ GroupLoss
    /\ Fault
    /\ XGROUP_DESTROY
    /\ gap' = Len(stream) + 1
    /\ UNCHANGED <<publisher, worker, served, tried, missed>>

Holds(w, i) == i \in batch[w] \/ i = cur[w]

\* RETRY_IDLE_MS elapses for i.  Nothing renews the idle time of an entry that
\* waits in a batch: a worker that holds i has handled Within others by then.
BecomeIdle(i) ==
    /\ \A w \in Worker : Holds(w, i) => handled[w] >= Within
    /\ ELAPSE(i)
    /\ UNCHANGED <<publisher, worker, history, faults>>

-------------------------------------------------------------------------------
Work(w) ==
    \/ Listen(w) \/ AutoClaim(w) \/ Read(w) \/ NoGroup(w) \/ Recover(w)
    \/ Discard(w) \/ Yield(w) \/ Drained(w)
    \/ Dispatch(w) \/ Ack(w) \/ Fail(w) \/ Bury(w) \/ FailNoGroup(w)

Next ==
    \/ \E e \in Event : Publish(e) \/ PublishInterrupted(e)
    \/ \E w \in Worker :
        \/ Work(w)
        \/ ConsumeInterrupted(w) \/ CallRaises(w) \/ RequestStop(w) \/ Kill(w)
    \/ DestroyGroup
    \/ \E i \in Id : BecomeIdle(i)

Spec == Init /\ [][Next]_vars

\* Workers keep running and are restarted by their supervisor; time passes.
Fairness ==
    /\ \A w \in Worker : WF_vars(Work(w))
    /\ \A i \in Id : WF_vars(BecomeIdle(i))

FairSpec == Spec /\ Fairness

-------------------------------------------------------------------------------
(* Safety *)

\* Entry i can still be delivered to the service.
Outstanding(i) == i > cursor \/ i \in pel

\* No entry leaves the reach of the service before every receiver has processed
\* its event, or it is dead-lettered or unreadable; the two exceptions are the
\* group created again at "$" and the trimming MAXLEN asks for.  This is the
\* at-least-once promise of redis_streams.py, across crashes, lost replies,
\* two workers on one entry, and a group lost and created again.
NeverLost ==
    \A i \in 1 .. Len(stream) :
        Outstanding(i) \/ Settled(i) \/ i \in missed \/ i < first

\* The entries of event e.
Copies(e) == {i \in 1 .. Len(stream) : stream[i] = e}

\* A publish() that returned has left an entry the service cannot lose; its
\* retries never make more than one entry per attempt.
PublishedIsAccounted ==
    \A e \in Event :
        /\ pub[e] = "returned" => Copies(e) # {}
        /\ Cardinality(Copies(e)) <= PublishRetries + 1

\* While the entries of a reply are all handled within RETRY_IDLE_MS (Within is at
\* least ReadCount and ClaimCount) and the group is not lost, two workers never
\* hold one entry: XREADGROUP and XAUTOCLAIM hand it to one of them only.
OneHolder ==
    \A i \in 1 .. Len(stream), v, w \in Worker :
        gap = 0 /\ v # w => ~(Holds(v, i) /\ Holds(w, i))

\* While the entries of a reply are all handled within RETRY_IDLE_MS and the group
\* is not lost, the MULTI of fail() leaves at most one dead-letter copy of an entry, and a buried entry is
\* never dispatched again, whatever crashes or replies are lost around it.
BuriedOnce ==
    \A i \in 1 .. Len(stream) :
        gap = 0 /\ dlq[i] > 0 => dlq[i] = 1 /\ i \notin pel /\ \A w \in Worker : ~Holds(w, i)

\* While the group is never lost, an entry is dead-lettered only after it has
\* been delivered MAX_RETRIES times: the counter fail() reads is not early,
\* whichever worker claimed or lost the entry in between.
BuriedAfterMaxDeliveries ==
    \A i \in 1 .. Len(stream) : dlq[i] > 0 => deliveries[i] = MaxRetries

-------------------------------------------------------------------------------
(* The promise of the bus *)

\* The broker as the promise sees it: an event is owed while one of its entries
\* can still be delivered, and dead once one is in the dead-letter.
Accepted == {stream[i] : i \in 1 .. Len(stream)}
Owed == {stream[i] : i \in {j \in 1 .. Len(stream) : Outstanding(j)}}
Dead == {stream[i] : i \in {j \in 1 .. Len(stream) : dlq[j] > 0}}

Bus == INSTANCE EventBus WITH
    accepted <- Accepted, owed <- Owed, dead <- Dead, lost <- {}

\* Without trimming and group loss the broker implements the bus: it forgets an
\* event only when it may.
BusSpec == Bus!Spec

\* Every owed event is settled in the end, for any mix of failing receivers:
\* retries and the dead-letter make progress however workers crash.
EventuallySettled == Bus!EventuallySettled

-------------------------------------------------------------------------------
(* What the sources say and the code does not do *)

\* redis_streams.py:77 "MAX_RETRIES: attempts before dead-letter": a
\* dead-lettered entry has been attempted MAX_RETRIES times.
AttemptedBeforeBuried ==
    \A i \in 1 .. Len(stream) : dlq[i] > 0 => tried[i] >= MaxRetries

\* redis_streams.py:70 "An event not acknowledged after MAX_RETRIES attempts is
\* moved to a {stream}:dlq": an entry is attempted at most MAX_RETRIES times.
AttemptsBounded == \A i \in 1 .. Len(stream) : tried[i] <= MaxRetries

\* redis_streams.py:26 transient errors are "to retry, not to crash the worker
\* over": no worker ends on one while it is in dispatch().
NoWorkerCrash == [][\A w \in Worker : pc[w] \in Busy => pc'[w] # "raised"]_vars

\* base.py:72 fail() returns False if the event "will be retried": the entry is
\* then still pending.
FalseMeansRetried ==
    [][\A w \in Worker :
        pc[w] = "fail" /\ pc'[w] = "drain" => cur[w] \in pel]_vars

\* eventbus_worker.py:34 "clean shutdown on SIGINT/SIGTERM": a worker asked to
\* stop ends.
StopEnds == \A w \in Worker : stop[w] ~> pc[w] \in Down

\* redis_streams.py:304 "a message published between the group's disappearance
\* and its recreation can be missed": and no other.
OnlyGapMissed == \A i \in missed : i >= gap

\* CHANGELOG.md:90 recreating a lost group "no longer replays the stream's entire
\* history": what every receiver has processed is not dispatched again.
NoReplay ==
    [][\A w \in Worker :
        gap > 0 /\ pc[w] = "drain" /\ pc'[w] = "handle"
            => served[stream[cur'[w]]] # Receiver]_vars
===============================================================================
