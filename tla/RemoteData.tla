------------------------------ MODULE RemoteData ------------------------------
(***************************************************************************)
(* One remote resource read through RemoteForeignKey: the row in the       *)
(* service that owns it, the event its writer sends when it commits        *)
(* (signals.py), resolve() in the threads of the service that reads it     *)
(* (remote/fields.py), and the invalidation its worker runs when the event *)
(* arrives (remote/invalidation.py).  The row is known by its version.     *)
(***************************************************************************)
EXTENDS Naturals

CONSTANTS
    Reader,          \* the threads that resolve the resource
    Cache,           \* the Django caches of the reading service's processes
    CacheOf,         \* reader -> the cache of its process
    WorkerCache,     \* the cache of the process that runs eventbus_worker
    Absent,          \* the versions in which the row does not exist
    MaxVersion,      \* bound of the model on the writes
    MaxFaults        \* bound of the model on the faults of a behaviour

ASSUME CachesAssumption == CacheOf \in [Reader -> Cache] /\ WorkerCache \in Cache
ASSUME BoundsAssumption == MaxVersion \in Nat /\ MaxFaults \in Nat

Version == 0 .. MaxVersion
NoData == [version |-> "none"]

\* A row that does not exist has no entry.  timeout: the entry has one; late: it
\* was stored when an event about a newer version had been handled already.
Entry == [version : Version \ Absent, timeout : BOOLEAN, late : BOOLEAN]

VARIABLES
    row,          \* the committed version
    txn,          \* the writer: no transaction, one open, or its hooks to run
    events,       \* the versions whose event the bus has for the worker
    invalidated,  \* the last version whose event the worker has handled
    cache,        \* cache -> the entry of the resource, or NoData
    pc,           \* reader -> where it is in resolve()
    data,         \* reader -> the version it has fetched
    since,        \* reader -> invalidated when it called resolve()
    result,       \* reader -> what its last resolve() returned
    faults

source == <<row, txn>>
reader == <<pc, data, since, result>>
vars == <<source, events, invalidated, cache, reader, faults>>

TypeOK ==
    /\ row \in Version
    /\ txn \in {"none", "open", "hooks"}
    /\ events \subseteq Version /\ invalidated \in Version
    /\ cache \in [Cache -> Entry \cup {NoData}]
    /\ pc \in [Reader -> {"idle", "fetch", "set"}]
    /\ data \in [Reader -> Version]
    /\ since \in [Reader -> Version]
    /\ result \in [Reader -> [version : Version, since : Version, hit : BOOLEAN]]
    /\ faults \in 0 .. MaxFaults

Init ==
    /\ row = 0
    /\ txn = "none"
    /\ events = {}
    /\ invalidated = 0
    /\ cache = [c \in Cache |-> NoData]
    /\ pc = [r \in Reader |-> "idle"]
    /\ data = [r \in Reader |-> 0]
    /\ since = [r \in Reader |-> 0]
    /\ result = [r \in Reader |-> [version |-> 0, since |-> 0, hit |-> FALSE]]
    /\ faults = MaxFaults

Fault == faults > 0 /\ faults' = faults - 1

-------------------------------------------------------------------------------
(* The owner: a write and RemoteSignal.send() in one transaction *)

\* A bug: send() publishes at once, within the transaction.
Save_PublishesAtOnce ==
    /\ txn = "none" /\ row < MaxVersion
    /\ txn' = "open"
    /\ events' = events \cup {row + 1}
    /\ UNCHANGED <<row, invalidated, cache, reader, faults>>

\* Save and send(): on_commit() keeps the publication for later.
Save ==
    /\ txn = "none" /\ row < MaxVersion
    /\ txn' = "open"
    /\ UNCHANGED <<row, events, invalidated, cache, reader, faults>>

\* The transaction fails, and its hooks with it.
Rollback ==
    /\ txn = "open"
    /\ Fault
    /\ txn' = "none"
    /\ UNCHANGED <<row, events, invalidated, cache, reader>>

Commit ==
    /\ txn = "open"
    /\ row' = row + 1
    /\ txn' = "hooks"
    /\ UNCHANGED <<events, invalidated, cache, reader, faults>>

\* The hook: get_broker().publish(envelope).
Publish ==
    /\ txn = "hooks"
    /\ events' = events \cup {row}
    /\ txn' = "none"
    /\ UNCHANGED <<row, invalidated, cache, reader, faults>>

\* The broker is away: the error surfaces, the event is not published.
PublishRaises ==
    /\ txn = "hooks"
    /\ Fault
    /\ txn' = "none"
    /\ UNCHANGED <<row, events, invalidated, cache, reader>>

-------------------------------------------------------------------------------
(* The bus, and the receiver register_invalidation() puts on it *)

Newest(m, n) == IF m > n THEN m ELSE n

\* A bug: _invalidate() builds another key than resolve().
Invalidate_OtherKey(v) ==
    /\ v \in events
    /\ \/ events' = events \ {v} /\ UNCHANGED faults
       \/ Fault /\ UNCHANGED events
    /\ invalidated' = Newest(invalidated, v)
    /\ UNCHANGED <<source, cache, reader>>

\* _invalidate(): delete, acknowledged or delivered again.
Invalidate(v) ==
    /\ v \in events
    /\ \/ events' = events \ {v} /\ UNCHANGED faults
       \/ Fault /\ UNCHANGED events
    /\ cache' = [cache EXCEPT ![WorkerCache] = NoData]
    /\ invalidated' = Newest(invalidated, v)
    /\ UNCHANGED <<source, reader>>

\* Dead-lettered, trimmed, or never stored by the broker.
Miss(v) ==
    /\ v \in events
    /\ Fault
    /\ events' = events \ {v}
    /\ UNCHANGED <<source, invalidated, cache, reader>>

-------------------------------------------------------------------------------
(* resolve() *)

Return(r, version, hit) ==
    result' = [result EXCEPT ![r] = [version |-> version, since |-> since'[r], hit |-> hit]]

\* cache.get()
Get(r) ==
    /\ pc[r] = "idle"
    /\ since' = [since EXCEPT ![r] = invalidated]
    /\ IF cache[CacheOf[r]] = NoData
       THEN pc' = [pc EXCEPT ![r] = "fetch"] /\ UNCHANGED result
       ELSE Return(r, cache[CacheOf[r]].version, TRUE) /\ UNCHANGED pc
    /\ UNCHANGED <<source, events, invalidated, cache, data, faults>>

\* A bug: an absence is cached as well.
Fetch_NoneStored(r) ==
    /\ pc[r] = "fetch"
    /\ data' = [data EXCEPT ![r] = row]
    /\ pc' = [pc EXCEPT ![r] = "set"]
    /\ UNCHANGED <<source, events, invalidated, cache, since, result, faults>>

\* transport.fetch(): None for a row that does not exist, which is not cached.
Fetch(r) ==
    /\ pc[r] = "fetch"
    /\ data' = [data EXCEPT ![r] = row]
    /\ IF row \in Absent
       THEN pc' = [pc EXCEPT ![r] = "idle"] /\ UNCHANGED since /\ Return(r, row, FALSE)
       ELSE pc' = [pc EXCEPT ![r] = "set"] /\ UNCHANGED <<since, result>>
    /\ UNCHANGED <<source, events, invalidated, cache, faults>>

\* A bug: a ttl of None reaches cache.set(), which then keeps the entry for ever.
Set_NoTimeout(r) ==
    /\ pc[r] = "set"
    /\ cache' = [cache EXCEPT ![CacheOf[r]] =
          [version |-> data[r], timeout |-> FALSE, late |-> invalidated > data[r]]]
    /\ pc' = [pc EXCEPT ![r] = "idle"]
    /\ UNCHANGED since
    /\ Return(r, data[r], FALSE)
    /\ UNCHANGED <<source, events, invalidated, data, faults>>

\* cache.set() with the field's TTL, or DEFAULT_TTL.
Set(r) ==
    /\ pc[r] = "set"
    /\ cache' = [cache EXCEPT ![CacheOf[r]] =
          [version |-> data[r], timeout |-> TRUE, late |-> invalidated > data[r]]]
    /\ pc' = [pc EXCEPT ![r] = "idle"]
    /\ UNCHANGED since
    /\ Return(r, data[r], FALSE)
    /\ UNCHANGED <<source, events, invalidated, data, faults>>

\* RemoteServiceUnavailableError, or the cache is away.
Raise(r) ==
    /\ pc[r] # "idle"
    /\ Fault
    /\ pc' = [pc EXCEPT ![r] = "idle"]
    /\ UNCHANGED <<source, events, invalidated, cache, data, since, result>>

\* The TTL passes, or the cache evicts the entry.
Expire(c) ==
    /\ cache[c] # NoData /\ cache[c].timeout
    /\ cache' = [cache EXCEPT ![c] = NoData]
    /\ UNCHANGED <<source, events, invalidated, reader, faults>>

-------------------------------------------------------------------------------
Next ==
    \/ Save \/ Rollback \/ Commit \/ Publish \/ PublishRaises
    \/ \E v \in events : Invalidate(v) \/ Miss(v)
    \/ \E r \in Reader : Get(r) \/ Fetch(r) \/ Set(r) \/ Raise(r)
    \/ \E c \in Cache : Expire(c)

Spec == Init /\ [][Next]_vars

\* Calls end, hooks run, events are delivered and time passes; nobody has to
\* write or read.
Fairness ==
    /\ WF_vars(Publish)
    /\ \A v \in Version : WF_vars(Invalidate(v))
    /\ \A r \in Reader : WF_vars(Fetch(r)) /\ WF_vars(Set(r))
    /\ \A c \in Cache : WF_vars(Expire(c))

FairSpec == Spec /\ Fairness

-------------------------------------------------------------------------------
(* Properties *)

\* A resolve() that misses the cache returns no version older than those whose
\* events the worker had handled when it began: events come after the commit.
MissIsFresh ==
    \A r \in Reader : ~result[r].hit => result[r].version >= result[r].since

\* As long as nothing fails, the worker's cache, and with it every thread that
\* shares it, is older than the row only while the event is on its way, or if it
\* was filled by a fetch the event has overtaken.
StaleIsAnnounced ==
    LET entry == cache[WorkerCache]
    IN  faults = MaxFaults /\ entry # NoData /\ entry.version < row =>
            \/ txn = "hooks"
            \/ \E v \in events : v > entry.version
            \/ entry.late

\* Once writes stop, caches are up to date for good, whatever events were
\* missed and however fetches and invalidations interleaved.
EventuallyFresh ==
    <>[](\A c \in Cache : cache[c] # NoData => cache[c].version = row)

-------------------------------------------------------------------------------
(* What the sources say and the code does not do *)

\* README.md:465 "the event, when it arrives, invalidates immediately without
\* waiting for the TTL to expire": what resolve() returns from then on is no older.
FreshAfterEvent == \A r \in Reader : result[r].version >= result[r].since
===============================================================================
