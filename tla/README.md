# TLA+ models of django-event-bus

django-event-bus lets Django services exchange events through a broker, and
read each other's resources over HTTP or gRPC. This directory models the parts
of it whose correctness depends on order, failure and concurrency, checks them
with TLC and proves the main results with TLAPS.

## 1. The system

| Component | State | Operations | Hard behaviour |
|---|---|---|---|
| `signals.py` RemoteSignal | none of its own; Django's list of on-commit callbacks | `send` registers a publish for after the commit | rollback, savepoints, a callback that raises in the middle of the list |
| `registry.py`, `dispatcher.py` | receivers per event type | `register`, `dispatch` | partial failure of the receivers, then `ack` or `fail` |
| `brokers/base.py` BaseBroker | none | `publish`, `listen`, `ack`, `fail` | the contract: at least once, retry, dead-letter |
| `brokers/redis_streams.py` | a stream, a consumer group per service, a dead-letter; `_pending` in the worker | XADD with retries, XAUTOCLAIM/XREADGROUP loop, XACK, MULTI | crashes, lost replies, batches and handlers that outlast RETRY_IDLE_MS, a lost group, trimming |
| `brokers/rabbitmq.py` | exchanges, a main, a retry and a dead-letter queue per service; unacknowledged deliveries of a channel | `publish`, `_reconnect`, `nack` to the retry queue, dead-letter | redelivery after a lost connection, what its buffer still delivers, retry queues of several services bound to one exchange |
| `brokers/kafka.py` | a topic shared by the services, a committed offset per service, a dead-letter topic | produce + flush, poll, commit, republish on failure | undelivered messages, positions against commits, retries seen by every service |
| `brokers/locmem.py` | in the process's memory, a queue per service and event type | `publish`, `listen`, the consuming loop, `reset` | several threads of a service, a loop over several queues, a reset under a consumer |
| `brokers/utils.py`, `settings.py` | the broker of the process, the cached settings it is made from | `get_broker`, `reset_broker`, `__getattr__`, `reload` | double-checked locking, a reset under a caller, a stale fill of the settings' cache |
| `management/commands/eventbus_worker.py` | `_stop` | the consuming loop, signal handler | a stop that arrives while the loop is blocked, a crash out of the loop |
| `remote/fields.py`, `cache.py`, `invalidation.py` | one cache entry per remote object | `resolve` (get, fetch, set), `_invalidate` (delete) | a fetch in flight across an invalidation, late, lost or duplicated invalidations, expiry |
| `remote/ratelimit.py` | a counter per client in the cache | `is_allowed` (add, incr) | window boundaries, expiry between `add` and `incr`, concurrent callers |
| `remote/auth.py`, `audit.py`, `views.py`, `grpc_server.py` | the gRPC server's thread pool | limit, authenticate, audit, look up; `serve` | order of the checks, gRPC's second authentication, signals and the grace of a stop |
| `remote/resources.py` | the registry of exposed resources | `expose_resource`, `get_fields`, `to_representation` | a check at import against what a request does much later |
| `remote/transports/*` | a transport of the process, a gRPC channel per service | `load_transport`, `_channel`, `fetch`, `close`, `reset_transports` | two double-checked locks, a reset under a caller, a connection that breaks within an answer |

Interaction: `RemoteSignal.send` publishes through the process's broker; a
worker of another service receives the envelope from its broker, dispatches it
to its receivers and acknowledges or fails it. One kind of receiver is the
cache invalidation of a remote field: the publisher's change event deletes the
subscriber's cached copy, which the next access fetches again over a transport.

What makes each part correct:

- events leave a service only when the transaction that sent them commits, in
  the order they were sent, and once;
- a broker never loses an event that a service has not processed, given up or
  found unreadable; it retries and gives up after the configured attempts; a
  worker survives what the code calls transient;
- a cached remote object does not outlive the event that announces its change,
  or at least not its TTL;
- a request is limited, authenticated and audited exactly once, and a client
  can tell "does not exist" from "could not ask"; a server that is told to stop
  finishes what it has accepted (that what is exposed can also be served is not
  so: section 6);
- a process has one broker and one channel for each service, made from the
  current settings, and no thread suffers from what another one does to them.

## 2. Modules

The modules were written in this order: the brokers first because delivery is
what the library is for, then what feeds them, then the remote data.

| Module | Models | Composed with |
|---|---|---|
| `EventBus` | the promise of `BaseBroker` to one service, abstractly | instantiated by the three networked brokers |
| `RedisServer` | external: the Redis commands the broker issues, one operator each | extended by `RedisStreams` |
| `RedisStreams` | `brokers/redis_streams.py`, `dispatcher.py`, `eventbus_worker.py` at work on one event type | implements `EventBus` |
| `Kafka` | `brokers/kafka.py` with the dispatcher and the worker, and the topic services share | implements `EventBus`, once per service |
| `RabbitMQ` | `brokers/rabbitmq.py` with the dispatcher and the worker, and the exchanges services share | implements `EventBus`, once per service |
| `LocMem` | `brokers/locmem.py` with the dispatcher | its `published` is what `Emission` has published, in `InProcess` |
| `Emission` | `signals.py` over Django's atomic blocks and on-commit hooks | extended by `InProcess` |
| `InProcess` | a process with the default backend: both of the above, a publication being one step of the two | `Emission` and `LocMem` |
| `RemoteData` | `remote/fields.py`, `cache.py`, `invalidation.py`: one remote row from its write to its readers | takes the bus as a set of events on their way |
| `Resources` | `remote/resources.py`: what is accepted at import, what a request for it reads from a row, and whether JSON has a form for that | extended by `RemoteAccess` |
| `RemoteAccess` | `remote/ratelimit.py`, `auth.py`, `audit.py`, `views.py`, `grpc_server.py`, `resources.py` and `fetch()` of `remote/transports/http.py`, `grpc.py`: a fetch from end to end, and the server's life | stands alone |
| `Transports` | `remote/transports/utils.py` and the channels of `grpc.py` | stands alone: what a call is answered is `RemoteAccess` |
| `SharedBroker` | `brokers/utils.py`, `settings.py` | stands alone |
| `MC*` | the instances TLC checks | extends its module (`MCLocMem` extends `InProcess`) |
| `*Proofs` | theorems and their proofs | extends its module |

Conventions. Constants that bound the model are named `Max...`; a fault (a lost
reply, a kill, a lost connection, a hook that raises) spends one of `MaxFaults`.
Operators named `X_Something` next to `X` are plausible bugs of `X`; each
property of a run was seen to fail with one of them in the place of the original.
The section "What the sources say and the code does not do" at the end of a
module quotes sentences that the code does not keep, each with the formula that
TLC refutes (section 6).

## 3. State and actions against the code

**RedisStreams.** `stream`, `first`, `group`, `cursor`, `pel`, `idle`,
`deliveries`, `dlq` are what Redis keeps (`RedisServer`). `pc` of a worker says
which command `_consume()` or `dispatch()` is about to send; `batch` is the
reply it is yielding from, `cur` the envelope in `_pending`, `stop` the worker
command's `_stop`. `Publish`/`PublishInterrupted` are the attempts of
`publish()`; `AutoClaim`, `Read`, `NoGroup`, `ConsumeInterrupted`, `Recover` the
two guarded commands of `_consume()` and `_recover_missing_group()`; `Discard`
is `_to_envelope()` on a payload that does not load; `Yield` the `for` of the
worker with its look at `_stop`; `Dispatch`, `Ack`, `Fail`, `Bury`,
`FailNoGroup` the rest of `dispatch()`; `CallRaises` a transient error in a
command nothing guards. `BecomeIdle` is RETRY_IDLE_MS passing, `DestroyGroup` an
operator's command. Nothing renews the idle time of an entry that waits in `batch`
or is being handled, so that it is the time since the reply that counts, over all
entries of the reply: `handled` counts the envelopes done with since then, and an
entry in a worker's hands may become idle once `Within` of them are. `Within` is how
many handlers, one after the other, surely end within RETRY_IDLE_MS, 0 if a single
one may outlast it. Each Redis command is one step and can be executed with its
reply lost. Owner names of pending entries are left out: no call of the code
depends on them.

**Kafka.** One partition `topic`; `committed` per consumer group; `position`,
`owner` for assignment and rebalances, which may take the partition from a
worker in the middle of a handler. `Produced` is `_produce()`: delivered, or
left in the local queue (`queue`) after `flush(10)`; `ProduceRaises` its two
errors. `Deliver` and `Lose` are what librdkafka does with that queue, and the end of
a worker loses what is left in its own; `lost` remembers, for the properties, whose
retry went with it. `Fail` republishes with the next `x-retry-count` or to the
dead-letter, then `Commit`. A stop of the worker leaves the record uncommitted as a
kill does, so it is not a separate action.

**RabbitMQ.** Bags `main`, `retry` per service, `dlq`, bound to shared exchanges;
a message carries its `x-death` counts. `link` tells a connection that is up from
one that is lost unnoticed and one that the worker has closed. `ReceiveStale` is a
consumer that still yields from its buffer on a lost connection. `accepted` and the
histories `tried`, `failed` are for the properties only. The order
within a queue is left open, which allows more behaviours than the server does.

**LocMem.** `queue` is `_queues`, `subscribed` is `_subscribers`; `at` is the
position of the `for` loop of `_consume()`. `Publish` and `Listen` are atomic
because `_lock` is held. `Get` looks the queue up and takes from it in one step: a
consumer that a reset overtakes between the two takes from a queue nobody can put into
any more, and at most once, which ends as if it had taken before the reset. `due` and
`delivered` are histories.

**Emission.** `hooks` is the `run_on_commit` of an emitter's connection: an event
with the blocks it was sent in, which Django keeps as savepoint ids. `open` are the
blocks it is in, `running` the list that `run_and_clear_commit_hooks()` is going
through. `Send` registers the lambda of `send()`, or runs it at once outside of a
block; `Commit` of a savepoint leaves the hooks alone and that of the outermost
block hands them to `running`; `RollBack` drops those of its block. `RunHook` is
`get_broker().publish(envelope)`, which `InProcess!Publish` makes one step with
the locmem broker's; `HookRaises` loses the hooks after it. `sent`, `undone`,
`failed`, `skipped` are histories.

**RemoteData.** The row is known by its version (`row`); `txn` follows
`transaction.atomic()` and its on-commit hook; `events` is what the bus has for
the worker, delivered in any order and, until handled, again; `cache` has an entry
per Django cache. A reader's `pc` splits `resolve()` at its calls: cache get,
fetch, cache set. `since` and `late` are histories.

**Resources.** An attribute that a serializer lists is known by what the model has
under its name (`Kind`: a column, a file, bytes, a foreign key or the name of its
column, a relation to many with or without a related_name, a property, a method,
nothing), a serializer by its Meta and getters. `RelationsChecked`
is `_check_no_unserializable_relation_fields()`, `Accepted` what `expose_resource()`
does not raise for, `Representable` whether `to_representation()` of a row returns,
`Encodable` whether JSON has a form for what it returns. `RemoteAccess!Lookup` fails
with either, and when the database does.

**RemoteAccess.** `config` is what the settings say for the life of the service:
its transport and REMOTE_DATA's AUTH_BACKEND, AUTH_TOKEN and RATE_LIMIT, with the
precedence of `resolve_auth_backend()` in `Backend`. `Expose` is the decorator while
the modules are imported, which fills `registry`. `server` follows `serve()`:
`Start`, `HandleSignals` (the handlers are set when calls are already taken), `Stop`,
`GraceOver` and `Stopped` of `stop(grace=5)`, and `Die`. `counter` is the cache of
`is_allowed()`, key by window, and each of its cache calls is a step; the checks of
`resource_detail()` and of the gRPC interceptors and servicer follow in the code's
order. `audit` is the log, `reply` what was sent, `cut` the calls the server
cancelled, whose threads go on or never start; `outcome` what `fetch()` returned or
raised.

**Transports.** `cached` is `_transports["grpc"]`, `lock` is `_transports_lock`,
`channels` and `channelLock` are `_channels` and `_lock` of each instance. `pc`
splits `load_transport()`, `_channel()` and `fetch()` at every read and write of
those; `reset` follows `reset_transports()`, which holds the first lock while it
waits for the second in `close()`. It begins with the `reload()` of the settings, which
the same signal runs before: who has just found a setting in their cache (`AtSettings`)
fails to read it, with the KeyError of settings.py:80. `Service` has names without an
entry (`Refused`) and entries without a target (`NoTarget`). `crossed` is a history.

**SharedBroker.** `pc` splits `get_broker()` and `LazySettings.__getattr__()` at
every read and write of shared state; `change` follows the two receivers of
`setting_changed` in the order they are connected. The attributes of the settings
that `load_broker()` reads (BACKEND, SERVICE_NAME, OPTIONS) are taken as one.
`late` remembers that a thread stored what it had read before `reload()`, `abandoned`
how many connections a constructor had opened when it raised (rabbitmq.py:143-145):
no broker is there to close them. `CloseRaises` goes on as after a robust signal, which
`override_settings().disable()` sends; `enable()` would raise at its caller as well.

**EventBus.** `owed` is what a service still has to be served. An implementation
may forget an event (`Settle`) only when all receivers have processed it, it is
dead-lettered, or it is unreadable; it may offer events again, as at-least-once
delivery does. What a transport loses all the same has to be said: it joins `lost`
(`Lose`), and only then may it be forgotten. Redis maps `owed` to the entries beyond the
group's cursor or in its pending list, RabbitMQ to the messages in the service's main
and retry queues and in its workers, and for both `lost` is empty. Kafka maps `owed` to
the records after the committed offset and the retries of the service that wait in a
local queue, and `lost` to the retries that a local queue has lost.

## 4. Runs

`tlc -workers 2 -config X.cfg M` in this directory checks one of them; each takes
from seconds to a few minutes.

| Run (`.cfg`) | Module | Instance and bounds | What it shows |
|---|---|---|---|
| `RedisService` | `MCRedisStreams` | 2 workers, 2 receivers, a readable and an unreadable event, 2 entries, 1 fault, 1 publish retry, handlers of any length (`Within` 0) | `PublishedIsAccounted`: a publish that returned is in the stream, no more often than it was attempted. `BuriedAfterMaxDeliveries`: the dead-letter is never early on Redis's own counter. `BusSpec`: the broker implements `EventBus`. `EventuallySettled`: what is owed is processed or dead-lettered in the end |
| `RedisLostGroup` | `MCRedisStreams` | 2 workers, 1 receiver, 3 entries with MAXLEN 1, 3 faults, the group may be destroyed, replies of at most 2 entries and 2 handlers that end within RETRY_IDLE_MS (`Within` 2) | `NeverLost`: only what trimming or the recreated group gives up is lost. `OneHolder`: two workers never hold one entry. `BuriedOnce`: one dead-letter per entry, and no dispatch after it |
| `KafkaTopic` | `MCKafka` | 2 services, 2 workers of one and 1 of the other, a readable and an unreadable event, 6 records, 1 fault (a rebalance from a live worker, a lost commit, a silent flush, ...) | `BuriedAfterMaxRetries`, `AttemptsBounded`: the count in the header against the dispatches a service really made. `BusSpec`, once per service: what is given up unprocessed is named, and was lost by a local queue. `EventuallySettled`, also for a service that subscribes late |
| `RabbitOutages` | `MCRabbitMQ` | 1 service with 2 workers, 2 receivers, a readable and an unreadable event, 3 faults | `AttemptsBounded`, `BusSpec` and `EventuallySettled` through lost connections and what is still read from their buffers, vanished publications, failed reconnections and kills |
| `RabbitShared` | `MCRabbitMQ` | 2 services with 1 worker each, up to 2 messages in a queue, no faults | `BuriedAfterMaxRetries` although each rejection of one service multiplies the message for both; `AttemptsBounded` and `BusSpec` for each |
| `LocMem` | `MCLocMem` | 1 thread that sends 2 events of one type in up to 2 atomic blocks, nested or not; 3 threads that consume for 2 services, one of them with a loop over two types; 1 hook that raises, 1 reset | `PublishedIffCommitted`, `InSendOrder`: what leaves a transaction, and in which order. `ServedInSendOrder`: the order a service with one thread sees, through both modules. `OncePerService`: a service that listened has each event in one place; `EventuallyDelivered`: not held up by an empty queue of another type |
| `Remote` | `MCRemoteData` | 3 readers, 2 caches (one without worker), 3 versions of the row, absent in the first and the last, 1 fault | `MissIsFresh`, `StaleIsAnnounced`: how a cache may be older than the row. `EventuallyFresh`: the TTL corrects what no event did |
| `Access` | `MCRemoteAccess` | 2 concurrent calls with different credentials, 3 configurations (gRPC with JWTs and a token that must not count, HTTP without authentication, HTTP with a token and no limit), limit 1, 3 windows, an expiring credential, 4 serializers of one model (well and badly declared), 1 fault (an eviction, a broken answer, a kill, a grace that is too short) | `BudgetKept`: the limit under any interleaving and at window boundaries. `DecisionLogged`, `OutcomeIsHonest`: the log and the client against the decision. `StopIsGraceful`: a clean stop costs no accepted call. `CallsReturn`: calls end, and so does a stop |
| `Transports` | `MCTransports` | 3 threads, two of which fetch from one service and the third from another or from one that is badly configured, 1 reset, 4 channels | `ChannelsKept`: no open channel is overwritten. `SafeFromThreads`: a fetch fails for others only across a reset. `FetchesEnd`: both locks are released whatever raises |
| `Shared` | `MCSharedBroker` | 3 threads, 1 change of the setting, 2 faults | `NoLeak`: of the brokers that were made, one is open. `MadeFromCurrent`: the broker is made from the new setting. `CallsEnd`: the lock is released whatever raises |
| `RedisStop` | `MCRedisStreams` | 1 worker, 1 event | refutes `StopEnds` (section 6) |
| `RemoteStale` | `MCRemoteData` | as `Remote`, no faults | refutes `FreshAfterEvent` |

`TypeOK` is checked in the runs of `Kafka`, `RabbitMQ` (`RabbitOutages`) and
`RemoteData`, where a bug that breaks it is plausible; for `RedisStreams`, `Kafka`,
`RabbitMQ`, `InProcess`, `RemoteData` and `SharedBroker` it is proved (section 7).

Why the bounds are enough. MAX_RETRIES is 2, so that there is a first attempt, a
retry and a last attempt; one or two further dispatches are distinguished and
the histories are capped above that. Two workers are enough for any race about
one entry, two services for any effect of one on another; a third thread is there
where two could be on either side of a lock, or where one takes part through
another cache. One fault already separates "executed" from "acknowledged";
two and three let a recovery be interrupted. In `KafkaTopic` the one fault may be the
flush that times out, and no worker is killed after it; that a local queue then loses
the message (`Lose`) spends no fault, so the loss itself is seen, and a worker lost
together with its queue is left to the proofs. There two events and a retry of each service
make four records; six leave room for what a fault duplicates, and since a worker
that found the topic full would never settle its event, `EventuallySettled` shows
that the bound holds nobody up. The same goes for MaxQueue in `RabbitOutages`. In
`RabbitShared` two messages in a queue are enough for a copy to
overtake another. In `LocMem` two blocks are a transaction with a savepoint, or two
transactions, and two events are enough to be out of order; emitters share nothing
before the broker, and a second one adds only a publication at another moment. Two
calls in `Access` are one more than the limit; three windows are those of a count,
of its timeout and of a late call. In `Transports` one reset makes two transports; two
threads share a channel of each, and the third fails, with or without a lock. In
`RedisLostGroup` a reply has as many entries as are handled in time; with `Within` 1
instead, which is ten 5-second handlers against the default of 30 seconds in small,
`OneHolder` is refuted, and with a reply of two readable entries (PublishRetries 1)
`BuriedOnce` too.

`CHECK_DEADLOCK FALSE` is set where the system really comes to rest: every event
is settled and no fault is left (`Kafka`, `RabbitMQ`, whose workers then wait for a
message, which is no step of the model), every call has returned (`RemoteAccess`),
or no change of the setting is left and every thread may stay idle
(`SharedBroker`); in `LocMem` all threads may have ended in a KeyError. The other
runs check for deadlock; in `Transports`, where a reset takes one lock in the
other, that is part of the question.

## 5. Fairness

Liveness is checked under weak fairness of what the program or its servers do by
themselves, never of a failure, of a publish or of a caller.

- Redis: a worker's own next step (`Work`), which includes its restart: it is run
  under a supervisor, and its blocking reads have timeouts. Time passes
  (`BecomeIdle`): RETRY_IDLE_MS is finite. Nothing is assumed of the outcome of a
  receiver.
- Kafka: a worker's own next step; the assignment of a partition nobody owns (the
  group coordinator's session timeout); the delivery of what is in a producer's
  local queue, which librdkafka's thread tries in the background.
- RabbitMQ: a worker's own next step, and RETRY_DELAY_MS of each service's retry
  queue, which is a per-queue message TTL.
- LocMem: the step of each thread that listens; `get()` has a timeout. Nothing is
  assumed of the emitters.
- RemoteData: the hook of a committed transaction, the worker's handling of an
  event the bus has for it, the fetch and the store of a `resolve()` under way, and
  the expiry of each entry that was stored with a timeout.
- RemoteAccess: the server's thread of each call it has not cancelled, the main
  thread of a gRPC server between `start()` and its handlers and in `stop().wait()`,
  and a client's reading of an answer, or of the error that gRPC makes of a
  cancelled call. Nobody has to call, to start a server or to stop it.
- Transports: each thread within `fetch()`, and `reset_transports()` once it has
  begun. Taking a transport's own lock is strongly fair, for a fetch and for the
  reset: the threads of one transport take it again and again, and CPython's locks
  starve nobody for ever. `_transports_lock` is contended only while nothing is cached.
- SharedBroker: each thread within `get_broker()`, and the receivers of
  `setting_changed` once it was sent. The lock need not be fair: once a broker is
  there it is not contended.

## 6. Where the code and its documentation differ

Two runs end in a counterexample that a reader should know of:

- `StopEnds` (`RedisStop`): "clean shutdown on SIGINT/SIGTERM"
  (eventbus_worker.py:34), but `_stop` is looked at only after `listen()` has
  yielded one more envelope; a worker on a quiet stream ignores the signal.
- `FreshAfterEvent` (`RemoteStale`): the event "invalidates immediately without
  waiting for the TTL to expire" (README.md:465), but a `resolve()` that fetched
  before the event and stores after it leaves the old row until the TTL.

The definitions below are refuted in the same way when they take the place of the
properties of the named `.cfg` (without its SYMMETRY):

| Definition | `.cfg` | What happens |
|---|---|---|
| `RedisStreams!AttemptedBeforeBuried` | `RedisService` | a lost XREADGROUP reply counts as a delivery: an event is dead-lettered after fewer than MAX_RETRIES dispatches (redis_streams.py:77) |
| `RedisStreams!AttemptsBounded` | `RedisService` | only `fail()` looks at the delivery counter: an event whose handling kills the worker is dispatched again without bound (redis_streams.py:70) |
| `RedisStreams!NoWorkerCrash` | `RedisService` | XACK, XPENDING and the group's creation are not guarded: one transient error there ends the worker (redis_streams.py:26) |
| `RedisStreams!FalseMeansRetried` | `RedisService` | `fail()` returns False for an entry another worker has acknowledged meanwhile (base.py:72) |
| `RedisStreams!OnlyGapMissed` | `RedisLostGroup` | a group created again at "$" misses the unread backlog from before its loss as well (redis_streams.py:304) |
| `RedisStreams!NoReplay` | `RedisLostGroup` | a loss first noticed by `fail()` ends the worker, and the restarted one replays the stream from "0" (CHANGELOG.md:90) |
| `Kafka!PublishedIsStored` | `KafkaTopic` | `flush(10)` returns with the message still queued, and `publish()` returns too (kafka.py:207) |
| `Kafka!BuriedByOwnFailures` | `KafkaTopic` | another service's failures count: an event is dead-lettered after one attempt of the service's own (kafka.py:115) |
| `Kafka!NeverLost` | `KafkaTopic` | `_produce()` ignores what `flush(10)` returns, and `fail()` commits (kafka.py:379-382) while the retry is still in the local queue; if it expires there, the event is neither processed, nor dead-lettered, nor delivered again, against "at-least-once" (README.md:79; kafka.py:239) |
| `RabbitMQ!Independent` | `RabbitShared` | the shared retry exchange hands a rejected message to every service: one that has processed the event is given it again (rabbitmq.py:85) |
| `RabbitMQ!NoWorkerCrash` | `RabbitOutages` | a connection lost under a handler makes `basic_ack` raise, which ends the worker (rabbitmq.py:25) |
| `RabbitMQ!PublishFailureSurfaces` | `RabbitOutages` | without publisher confirms a publication can vanish in silence (README.md:192) |
| `RabbitMQ!DeadLetterIsOwn` | `RabbitShared` | the shared dead-letter exchange hands the message to every service's dead-letter queue (rabbitmq.py:94) |
| `Emission!OthersPublished` | `LocMem` | a publication that raises after the commit keeps the transaction's later events from being published (signals.py:57) |
| `RemoteAccess!GrantedIsNamed` | `Access` | a JWT that expires between the interceptor and `GetResource()` is logged as granted to nobody (grpc_server.py:65) |
| `RemoteAccess!StopsCleanly` | `Access` | a SIGTERM between `server.start()` and `signal.signal()` kills the calls already taken (grpc_server.py:250) |
| `RemoteAccess!RefusedWouldRaise` | `Access` | a column's name such as `owner_id` is refused as a relation, though every row could be represented (resources.py:311) |
| `RemoteAccess!RelationsCaught` | `Access` | a reverse relation listed by its accessor (`book_set`), which `get_field()` does not know, passes the check at import and that of `to_representation()`, and every request for it fails as the "TypeError at JSON-encoding time" that the two are there to prevent (resources.py:282, 301) |
| `RemoteAccess!UnavailableSurfaces` | `Access` | a connection that breaks within the body raises an exception of requests (transports/base.py:41) |
| `Transports!ResetCloses` | `Transports` | a fetch that a reset has crossed opens a channel on the forgotten transport, which nobody closes (transports/utils.py:93) |
| `Transports!UnavailableSurfaces` | `Transports` | a KeyError from `load_transport()`, or a ValueError from a channel closed under the call (transports/base.py:41) |
| `SharedBroker!ReturnsBroker` | `Shared` | a reset between the check and the return makes `get_broker()` return None (brokers/utils.py:40) |
| `SharedBroker!InSync` | `Shared` | a thread that read the old setting stores it after `reload()` (brokers/utils.py:94) |
| `SharedBroker!SingleConnection` | `Shared` | a constructor that raises after it connected leaves its connection open, and the next call opens another (brokers/utils.py:49, rabbitmq.py:143) |
| `SharedBroker!ResetForgets` | `Shared` | when `close()` raises, the broker stays the shared one (brokers/utils.py:71) |

## 7. What is proved

`tlapm M.tla` checks the proofs of module M. They hold for every value of the
constants that satisfies the ASSUMEs of the modules: any number of workers, threads,
readers, calls, events, receivers, serializers and faults, any MAX_RETRIES and any
limit.

**`RedisStreamsProofs`.** `TypeCorrect` (TypeOK) and `AtLeastOnce` (NeverLost) follow
from the invariant `IndInv`. NeverLost alone is not inductive: that XACK does not lose
an entry depends on what the worker that sends it has done. `IndInv` adds `AttemptInv`
(a publish under way has an attempt left), `GroupInv` (a group that does not exist has
delivered nothing), `BusyInv` (a worker in `dispatch()` holds an entry of the stream
that loads) and `AckInv` (a worker about to acknowledge has seen every receiver
succeed).

`PublishAccounts` (PublishedIsAccounted) adds `CopiesInv`: an attempt leaves at most
one entry, and the one that made `publish()` return has left one.

`BuriedLate` (BuriedAfterMaxDeliveries) assumes that the group is never destroyed;
recreated, it would count from the start. `DeliveryInv`: all that is pending, held or
dead-lettered lies behind the cursor and has been delivered, and a worker on its way to
the dead-letter has found the counter at MAX_RETRIES, which nothing lowers.

`OneWorkerEach` (OneHolder) and `BuriedForGood` (BuriedOnce) assume that a reply has
no more entries than a worker handles within RETRY_IDLE_MS (ReadCount and ClaimCount
at most `Within`). That is a condition on the sum of its handlers' times, since the
entries of a reply are handled one after the other and none is touched while it waits
for its turn; where it fails an entry is claimed from under its worker, and both
properties are false. `LoadInv`: what a worker has handled of its reply, and what it
still holds, is never more than `Within`. From it follows `HeldInTime`, that an entry
in a worker's hands does not become idle, and `HolderInv`, that what XAUTOCLAIM may
take is in nobody's hands (its worker was killed, or the reply was lost). Both
properties speak of the time before a loss of the group, and the theorems allow it.

`Implementation` (BusSpec): without trimming and without loss of the group (MAXLEN 0
and no `DestroyGroup`, the assumptions of the theorem), which lose events by design,
every step of the broker is a step of the abstract bus or leaves it unchanged. It rests
on `IndInv` and on `KeptInv`: nothing is trimmed, and a running worker has a group.

**`KafkaProofs`.** `Implementation` (BusSpec): each service on the topic sees the
abstract bus, with any number of workers, which gives up unprocessed only what its map
names: events of which a local queue has lost the retry or the dead-letter after
`flush()` had given up (`lost`). A loss in a queue is a step of the bus that says so
(`BusLoses`), and no other step loses anything (`LosesNothing`). `FlushedKeepsAll` is
the other half: as long as `flush()` delivers (FlushTimeouts FALSE), no queue keeps
anything (`Flushed`), and NeverLost holds, which is false otherwise. What is delicate is
that the coordinator takes the commit of any member, so that a commit moves the offset in either
direction, over records that other workers have polled. `WorkerInv` says why that is
safe: all that a worker has polled past is settled for its service, or is stored
again further on in the topic, or is left in a local queue (`Through`), except for
the record it holds, which is so too (`Handled`) by the time it may commit. A commit
forward is then a `Settle`, one backward a `Reoffer`. `QueueInv` relates the messages
in a local queue to the topic they are bound for. `RetriesExhausted`
(BuriedAfterMaxRetries) adds `CountInv`: as long as one service alone fails on an
event, no count in a header, stored or queued, exceeds its failures. `AttemptsCounted`
(AttemptsBounded) is the converse, that no attempt goes uncounted, which holds until
the first fault: one worker of a service is then at work, on the topic from its start
(`GroupInv`), and `Chain` says that of an event's records at most one is still to be
dispatched, that its count is the number of dispatches so far, and that there is none
while `fail()` is at work. `TypeCorrect` is TypeOK. They assume `NamesAssumption`, that
the model's names of events, workers and the topic are distinct.

**`RabbitMQProofs`.** `Implementation` (BusSpec), `RetriesExhausted`
(BuriedAfterMaxRetries) and `TypeCorrect` (TypeOK) from `IndInv`. `MessageOK`
holds of every message in a queue of a service or in a worker's hands: the service
has declared its queues, the event counts as accepted for it, and no service has
rejected the message more often than it has failed on the event. That is what bounds
the duplicates, which multiply with each rejection: they may be many, but none claims
an attempt nobody made. `WorkerInv` adds that a worker acknowledges a settled event
on an open channel, or acknowledges nothing, because the channel is gone and the
message is back in its queue. For these neither the order of a queue nor how often a
message is in it plays a part. For `AttemptsCounted` (AttemptsBounded) it does: until
the first fault, and as long as no other service has rejected the event, it is in one
place, a queue or a worker's hands, and its `x-death` count is the number of dispatches
so far (`Single` of `CalmInv`). That needs `RetryInv`: a message is in a retry queue
only after a rejection, so that what another service sends round is known as such.

**`RemoteDataProofs`.** `FetchAfterEvent` (MissIsFresh): an event exists only for a
committed version, so what the worker has handled never runs ahead of the row.
`StaleAnnounced` (StaleIsAnnounced) adds the other direction (`AnnouncedInv`): as long
as nothing fails, the event of the committed version is still to come from the on-commit
hook, on its way, or handled. `TypeCorrect` (TypeOK) includes that a row which does not
exist is never cached; it needs to know what a reader has fetched (`TypeInv`).

**`RemoteAccessProofs`.** `DecisionsAreLogged` and `OutcomesAreHonest` from
`CallInv`, which says for each place of a call which record its log has and which
answer it was given. `StopsAreGraceful` (StopIsGraceful) from `GracefulInv`: no call
is cut before something has failed. `BudgetIsKept` (BudgetKept): a window's counter
is at least the number of calls that have passed in it (`WindowInv`). The key may go when
it times out, and `WindowInv` says why that does no harm: it was born in its window or
later, and a call counts in a window only until the next one ends (`BudgetInv`), so
that by then nobody counts any more.

**`TransportsProofs`.** `NoChannelIsLost` (ChannelsKept): one thread at a time is
between the second check and the assignment of a channel, and a reset that is about
to clear the channels has closed them all and holds the lock (`Exclusion`,
`Closed`). `FetchesAreSafe` (SafeFromThreads) adds what a fetch relies on that no
reset has crossed (`SafeInv`): its transport is the cached one, and the channels
of that one are open (`CachedOpen`).

**`SharedBrokerProofs`.** `OneConnection` (NoLeak): the lock protects every write of
`_broker`, so a broker is made only when there is none (`Exclusion`). It speaks of the
brokers that were made; what a constructor leaves open when it raises is `abandoned`
(section 6).
`BrokerFollowsSetting` (MadeFromCurrent) and `TypeCorrect` (TypeOK) need to know who
may still have an old setting (`FreshInv`): nobody has one to store once `reload()`
is through, and none to load once `reset_broker()` has the lock, which is why the
order of the two receivers of `setting_changed` matters.

**`InProcessProofs`.** The theorems are about `InProcess`, that is, about emission and
broker together. `PublishedIsCommitted` (PublishedIffCommitted) and
`PublishedInSendOrder` (InSendOrder) from `EmissionInv`: an event that was sent waits in
the list of hooks, was sent in a block that is rolled back, or is of committed blocks
only and published, in the list that runs, failed or skipped (`PlaceInv`); a hook that
waits was sent in the outermost open block, and so was all that its thread has sent
since (`WaitInv`), which is what a commit of that block and a rollback of an inner one
need; and each of the lists is in the order of the sends (`WaitInv`, `RunInv`,
`OrderInv`). `DeliveredOnce` (OncePerService) from `BusInv`: a queue is in the order of
the publications and without repetition (`QueueInv`), an event that a thread was given
has left its queue (`TakenInv`), and what is due is in one of those places or delivered
(`DueInv`). `GivenInSendOrder` (ServedInSendOrder) puts the two together, with
`ServedInv`: a service with one thread is not given a later event of a type before the
earlier one was delivered. `TypeCorrect` is TypeOK of both modules.

Only model-checked: liveness (`EventuallySettled`, `EventuallyDelivered`,
`EventuallyFresh`, `CallsReturn`, `FetchesEnd`, `CallsEnd`), which is out of reach of the
prover, for which ENABLED has no rules. Every other property that a run shows to hold is
proved.

## 8. What is not modelled

- The receiver registry and the package's entry points: filled once at import, in one
  thread, and only read afterwards. The import of the `resources` modules is
  `RemoteAccess!Expose`.
- Envelopes and JSON, the protobuf code, how a JWT, a token or a certificate is
  verified, interceptors, querysets and getters of an application's own: sequential
  transformations of data. Their outcome is a choice in the models.
- Several peers: a counter of the rate limit belongs to one, and HTTP's key (an
  address) never is one of gRPC's (an address and a port), so that peers meet in the
  thread pool only.
- Several event types over one networked broker (for Kafka, several partitions):
  independent instances of the same model, except for the `for` loop of locmem, which
  is modelled.
- The conditions under which `remote_grpc_server` refuses to start.
- The state of a RabbitMQ publisher's channel. After pika has closed it, `publish()`
  raises ChannelWrongStateError, which is not among the errors that are retried
  (rabbitmq.py:27-32), and so does each later call; in the model each of them is a
  `PublishInterrupted` that raises.
- `RabbitMQ!ReceiveStale` yields from the buffer of a dead connection only what no
  other worker has taken meanwhile. A worker that dispatches a stale copy of an event
  another has dispatched already repeats a dispatch, as a redelivery after a lost
  connection does, and acknowledges nothing.
- In `LocMem` the look-up of a queue and the `get` are one step. Between them only a
  reset matters, and a consumer that takes from the detached queue then has an event
  that was published before the reset: the same is reached by taking it first (the
  comment of `Get`).

## 9. What comes next

1. `RemoteData` on top of `EventBus` instead of a set of events, so that
   `StaleIsAnnounced` is a statement about the broker's promise.
2. `OncePerService` carried over to an `EventBus` without duplicates, which `LocMem`
   without a reset implements.
