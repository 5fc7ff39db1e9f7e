--------------------------- MODULE RemoteDataProofs ---------------------------
(***************************************************************************)
(* The invariants of RemoteData for every number of readers, caches,       *)
(* writes and faults.  MissIsFresh: the event of a version exists only     *)
(* once that version is committed, so what the worker has handled never    *)
(* runs ahead of the row, and a fetch that follows sees at least that row. *)
(* StaleIsAnnounced: as long as nothing fails, the event of the committed  *)
(* version is still to come, on its way, or handled.                       *)
(***************************************************************************)
EXTENDS RemoteData, TLAPS

Committed ==
    /\ row \in Nat
    /\ events \subseteq 0 .. row
    /\ invalidated \in 0 .. row

\* What a reader has seen since it called resolve() is not behind its call.
ReaderFresh(r) ==
    /\ pc[r] \in {"idle", "fetch", "set"}
    /\ since[r] \in 0 .. invalidated
    /\ data[r] \in 0 .. row
    /\ pc[r] = "set" => data[r] >= since[r]
    /\ result[r].version \in Nat /\ result[r].since \in Nat
    /\ ~result[r].hit => result[r].version >= result[r].since

EntriesTyped ==
    \A c \in Cache : cache[c] = NoData \/ cache[c].version \in 0 .. row

IndInv ==
    /\ Committed
    /\ EntriesTyped
    /\ cache = [c \in Cache |-> cache[c]]
    /\ pc \in [Reader -> {"idle", "fetch", "set"}]
    /\ data = [r \in Reader |-> data[r]]
    /\ since = [r \in Reader |-> since[r]]
    /\ result = [r \in Reader |-> result[r]]
    /\ \A r \in Reader : ReaderFresh(r)

LEMMA NoDataVersion == NoData.version = "none"
  BY DEF NoData

LEMMA InitIndInv == Init => IndInv
  BY BoundsAssumption DEF Init, IndInv, Committed, EntriesTyped, ReaderFresh, Version

\* A step of the source, the bus or the caches touches no reader.
LEMMA ReadersKept ==
    ASSUME IndInv, UNCHANGED reader, row' \in Nat, row' >= row,
           invalidated' \in 0 .. row', invalidated' >= invalidated,
           events' \subseteq 0 .. row',
           cache' = [c \in Cache |-> cache'[c]],
           \A c \in Cache : cache'[c] = NoData \/ cache'[c] = cache[c]
    PROVE  IndInv'
  <1>1. Committed'
    BY DEF Committed
  <1>2. \A r \in Reader : ReaderFresh(r)'
    BY DEF IndInv, Committed, ReaderFresh, reader, Version
  <1>3. EntriesTyped'
    BY DEF IndInv, Committed, EntriesTyped, Version
  <1> QED
    BY <1>1, <1>2, <1>3 DEF IndInv, reader

LEMMA StepIndInv == IndInv /\ [Next]_vars => IndInv'
  <1> SUFFICES ASSUME IndInv, [Next]_vars PROVE IndInv'
    OBVIOUS
  <1> USE BoundsAssumption DEF Version
  <1>1. CASE Save \/ Rollback
    <2>1. UNCHANGED <<row, events, invalidated, cache, reader>>
      BY <1>1 DEF Save, Rollback
    <2> QED
      BY <2>1, ReadersKept DEF IndInv, Committed
  <1>2. CASE Commit
    BY <1>2, ReadersKept DEF Commit, IndInv, Committed
  <1>3. CASE Publish \/ PublishRaises
    <2>1. UNCHANGED <<row, invalidated, cache, reader>> /\ events' \subseteq 0 .. row
      BY <1>3 DEF Publish, PublishRaises, IndInv, Committed
    <2> QED
      BY <2>1, ReadersKept DEF IndInv, Committed
  <1>4. ASSUME NEW v \in events, Invalidate(v) \/ Miss(v) PROVE IndInv'
    <2>1. UNCHANGED <<row, reader>> /\ events' \subseteq events
      BY <1>4 DEF Invalidate, Miss, source
    <2>2. invalidated' \in {invalidated, v} /\ invalidated' >= invalidated
      BY <1>4 DEF Invalidate, Miss, Newest, IndInv, Committed
    <2>3. /\ cache' = [c \in Cache |-> cache'[c]]
          /\ \A c \in Cache : cache'[c] = NoData \/ cache'[c] = cache[c]
      BY <1>4 DEF Invalidate, Miss, IndInv
    <2> QED
      BY <2>1, <2>2, <2>3, ReadersKept DEF IndInv, Committed
  <1>5. ASSUME NEW c \in Cache, Expire(c) PROVE IndInv'
    BY <1>5, ReadersKept DEF Expire, IndInv, Committed, source
  <1>6. ASSUME NEW r \in Reader, Get(r) PROVE IndInv'
    <2>1. UNCHANGED <<row, invalidated, events, cache, data>>
      BY <1>6 DEF Get, source
    <2>2. /\ since' = [since EXCEPT ![r] = invalidated]
          /\ pc' = [pc EXCEPT ![r] = pc'[r]] /\ pc'[r] \in {"idle", "fetch"}
      BY <1>6 DEF Get, IndInv, ReaderFresh
    <2>3. \/ UNCHANGED result
          \/ /\ cache[CacheOf[r]] # NoData
             /\ result' = [result EXCEPT ![r] = [version |-> cache[CacheOf[r]].version,
                                                 since |-> invalidated, hit |-> TRUE]]
      BY <1>6, <2>2 DEF Get, Return, IndInv
    <2>4. cache[CacheOf[r]] # NoData => cache[CacheOf[r]].version \in Nat
      BY CachesAssumption DEF IndInv, EntriesTyped, Committed
    <2>5. ASSUME NEW q \in Reader PROVE ReaderFresh(q)'
      <3>1. ReaderFresh(q) /\ invalidated \in Nat /\ row \in Nat
        BY DEF IndInv, Committed
      <3>2. CASE q # r
        <4>1. UNCHANGED <<pc[q], since[q], data[q], result[q]>>
          BY <2>1, <2>2, <2>3, <3>2 DEF IndInv
        <4> QED
          BY <2>1, <3>1, <4>1 DEF ReaderFresh
      <3>3. CASE q = r
        <4>1. pc'[r] \in {"idle", "fetch"} /\ since'[r] = invalidated /\ data'[r] = data[r]
          BY <2>1, <2>2 DEF IndInv
        <4>2. \/ result'[r] = result[r]
              \/ /\ result'[r].version \in Nat
                 /\ result'[r].since = invalidated /\ result'[r].hit = TRUE
          BY <2>3, <2>4 DEF IndInv
        <4> QED
          BY <2>1, <3>1, <3>3, <4>1, <4>2 DEF ReaderFresh
      <3> QED
        BY <3>2, <3>3
    <2> QED
      BY <2>1, <2>2, <2>3, <2>5 DEF IndInv, Committed, EntriesTyped
  <1>7. ASSUME NEW r \in Reader, Fetch(r) PROVE IndInv'
    BY <1>7 DEF Fetch, Return, IndInv, Committed, EntriesTyped, ReaderFresh, source
  <1>8. ASSUME NEW r \in Reader, Set(r) PROVE IndInv'
    <2>1. /\ UNCHANGED <<row, events, invalidated, data, since>>
          /\ pc[r] = "set" /\ pc' = [pc EXCEPT ![r] = "idle"]
          /\ result' = [result EXCEPT ![r] =
                [version |-> data[r], since |-> since[r], hit |-> FALSE]]
      BY <1>8 DEF Set, Return, source
    <2>2. data[r] \in 0 .. row /\ since[r] \in Nat /\ data[r] >= since[r]
      BY <2>1 DEF IndInv, Committed, ReaderFresh
    <2>3. EntriesTyped' /\ cache' = [c \in Cache |-> cache'[c]]
      BY <1>8, <2>1, <2>2 DEF Set, IndInv, EntriesTyped
    <2>4. ASSUME NEW q \in Reader PROVE ReaderFresh(q)'
      <3>1. ReaderFresh(q)
        BY DEF IndInv
      <3>2. CASE q # r
        <4>1. UNCHANGED <<pc[q], since[q], data[q], result[q]>>
          BY <2>1, <3>2 DEF IndInv
        <4> QED
          BY <2>1, <3>1, <4>1 DEF ReaderFresh
      <3>3. CASE q = r
        <4>1. /\ pc'[r] = "idle"
              /\ result'[r] = [version |-> data[r], since |-> since[r], hit |-> FALSE]
          BY <2>1 DEF IndInv
        <4> QED
          BY <2>1, <2>2, <3>1, <3>3, <4>1 DEF ReaderFresh
      <3> QED
        BY <3>2, <3>3
    <2> QED
      BY <2>1, <2>3, <2>4 DEF IndInv, Committed
  <1>9. ASSUME NEW r \in Reader, Raise(r) PROVE IndInv'
    BY <1>9 DEF Raise, IndInv, Committed, EntriesTyped, ReaderFresh, source
  <1>10. CASE UNCHANGED vars
    BY <1>10, ReadersKept DEF vars, source, IndInv, Committed
  <1> QED
    BY <1>1, <1>2, <1>3, <1>4, <1>5, <1>6, <1>7, <1>8, <1>9, <1>10 DEF Next

\* MissIsFresh: a resolve() that misses the cache is never behind the events
\* handled before it began.
THEOREM FetchAfterEvent == Spec => []MissIsFresh
  <1>1. Spec => []IndInv
    BY InitIndInv, StepIndInv, PTL DEF Spec
  <1>2. IndInv => MissIsFresh
    BY DEF IndInv, ReaderFresh, MissIsFresh
  <1> QED
    BY <1>1, <1>2, PTL

-------------------------------------------------------------------------------
(* Types: a row that does not exist is never stored in a cache *)

TypeInv ==
    /\ TypeOK
    /\ txn = "open" => row < MaxVersion
    /\ \A r \in Reader : pc[r] = "set" => data[r] \notin Absent

LEMMA InitTypeInv == Init => TypeInv
  BY BoundsAssumption DEF Init, TypeInv, TypeOK, Version

\* A version that resolve() returns.
LEMMA Returned ==
    ASSUME TypeOK, NEW r \in Reader, NEW v \in Version, NEW hit \in BOOLEAN,
           since'[r] \in Version, Return(r, v, hit)
    PROVE  result' \in [Reader -> [version : Version, since : Version, hit : BOOLEAN]]
  BY DEF Return, TypeOK

LEMMA StepTypeInv == TypeInv /\ [Next]_vars => TypeInv'
  <1> SUFFICES ASSUME TypeInv, [Next]_vars PROVE TypeInv'
    OBVIOUS
  <1> USE BoundsAssumption DEF Version
  <1>1. CASE Save \/ Rollback \/ Commit \/ Publish \/ PublishRaises
    <2>1. UNCHANGED <<invalidated, cache, reader>>
      BY <1>1 DEF Save, Rollback, Commit, Publish, PublishRaises
    <2>2. /\ row' \in 0 .. MaxVersion /\ txn' \in {"none", "open", "hooks"}
          /\ txn' = "open" => row' < MaxVersion
      BY <1>1 DEF TypeInv, TypeOK, Save, Rollback, Commit, Publish, PublishRaises
    <2>3. events' \subseteq 0 .. MaxVersion
      BY <1>1 DEF TypeInv, TypeOK, Save, Rollback, Commit, Publish, PublishRaises
    <2>4. faults' \in 0 .. MaxFaults
      BY <1>1 DEF TypeInv, TypeOK, Save, Rollback, Commit, Publish, PublishRaises, Fault
    <2> QED
      BY <2>1, <2>2, <2>3, <2>4 DEF TypeInv, TypeOK, reader
  <1>2. ASSUME NEW v \in events, Invalidate(v) \/ Miss(v)
        PROVE  TypeInv'
    <2>1. UNCHANGED <<source, reader>> /\ events' \subseteq events
      BY <1>2 DEF Invalidate, Miss
    <2>2. /\ invalidated' \in 0 .. MaxVersion /\ faults' \in 0 .. MaxFaults
          /\ cache' \in [Cache -> Entry \cup {NoData}]
      BY <1>2 DEF Invalidate, Miss, Fault, Newest, TypeInv, TypeOK
    <2> QED
      BY <2>1, <2>2 DEF TypeInv, TypeOK, source, reader
  <1>3. ASSUME NEW c \in Cache, Expire(c)
        PROVE  TypeInv'
    BY <1>3 DEF Expire, TypeInv, TypeOK, source, reader
  <1>4. ASSUME NEW r \in Reader, Get(r)
        PROVE  TypeInv'
    <2>1. UNCHANGED <<source, events, invalidated, cache, data, faults>>
      BY <1>4 DEF Get
    <2>2. /\ since' \in [Reader -> Version] /\ since'[r] \in Version
          /\ pc' \in [Reader -> {"idle", "fetch", "set"}]
          /\ \A q \in Reader : pc'[q] = "set" => pc[q] = "set"
      BY <1>4 DEF Get, TypeInv, TypeOK
    <2>3. cache[CacheOf[r]] # NoData => cache[CacheOf[r]].version \in Version
      BY CachesAssumption DEF TypeInv, TypeOK, Entry
    <2>4. result' \in [Reader -> [version : Version, since : Version, hit : BOOLEAN]]
      <3>1. CASE cache[CacheOf[r]] = NoData
        BY <1>4, <3>1 DEF Get, TypeInv, TypeOK
      <3>2. CASE cache[CacheOf[r]] # NoData
        <4>1. Return(r, cache[CacheOf[r]].version, TRUE)
          BY <1>4, <3>2 DEF Get
        <4> QED
          BY <2>2, <2>3, <3>2, <4>1, Returned DEF TypeInv
      <3> QED
        BY <3>1, <3>2
    <2> QED
      BY <2>1, <2>2, <2>4 DEF TypeInv, TypeOK, source
  <1>5. ASSUME NEW r \in Reader, Fetch(r)
        PROVE  TypeInv'
    <2>1. /\ UNCHANGED <<source, events, invalidated, cache, faults, since>>
          /\ data' = [data EXCEPT ![r] = row] /\ pc[r] = "fetch"
          /\ \/ pc' = [pc EXCEPT ![r] = "idle"] /\ Return(r, row, FALSE)
             \/ pc' = [pc EXCEPT ![r] = "set"] /\ row \notin Absent /\ UNCHANGED result
      BY <1>5 DEF Fetch
    <2>2. /\ data' \in [Reader -> Version] /\ pc' \in [Reader -> {"idle", "fetch", "set"}]
          /\ \A q \in Reader : pc'[q] = "set" => data'[q] \notin Absent
      BY <2>1 DEF TypeInv, TypeOK
    <2>3. result' \in [Reader -> [version : Version, since : Version, hit : BOOLEAN]]
      <3>1. row \in Version /\ since'[r] \in Version
        BY <2>1 DEF TypeInv, TypeOK
      <3> QED
        BY <2>1, <3>1, Returned DEF TypeInv, TypeOK
    <2> QED
      BY <2>1, <2>2, <2>3 DEF TypeInv, TypeOK, source
  <1>6. ASSUME NEW r \in Reader, Set(r)
        PROVE  TypeInv'
    <2>1. [version |-> data[r], timeout |-> TRUE, late |-> invalidated > data[r]] \in Entry
      BY <1>6 DEF Set, Entry, TypeInv, TypeOK
    <2>2. cache' \in [Cache -> Entry \cup {NoData}]
      BY <1>6, <2>1 DEF Set, TypeInv, TypeOK
    <2> QED
      BY <1>6, <2>2 DEF Set, Return, TypeInv, TypeOK, source
  <1>7. ASSUME NEW r \in Reader, Raise(r)
        PROVE  TypeInv'
    BY <1>7 DEF Raise, Fault, TypeInv, TypeOK, source
  <1>8. CASE UNCHANGED vars
    BY <1>8 DEF vars, source, reader, TypeInv, TypeOK
  <1> QED
    BY <1>1, <1>2, <1>3, <1>4, <1>5, <1>6, <1>7, <1>8 DEF Next

\* TypeOK: in particular a cache holds no version in which the row does not exist.
THEOREM TypeCorrect == Spec => []TypeOK
  <1>1. TypeInv => TypeOK
    BY DEF TypeInv
  <1> QED
    BY <1>1, InitTypeInv, StepTypeInv, PTL DEF Spec

-------------------------------------------------------------------------------
(* A stale entry, as long as nothing fails *)

\* The event of the committed version is still to come, on its way, or handled.
AnnouncedInv ==
    faults = MaxFaults => txn = "hooks" \/ row \in events \/ invalidated >= row

LEMMA StepAnnounced ==
    ASSUME TypeInv, TypeInv', AnnouncedInv, StaleIsAnnounced, [Next]_vars
    PROVE  AnnouncedInv' /\ StaleIsAnnounced'
  <1> USE BoundsAssumption DEF Version
  <1>1. CASE faults' # MaxFaults
    BY <1>1 DEF AnnouncedInv, StaleIsAnnounced
  <1>2. CASE faults' = MaxFaults
    <2>1. ~Fault /\ row \in Nat /\ invalidated \in Nat /\ events \subseteq Nat
      BY <1>2 DEF Fault, TypeInv, TypeOK
    <2>2. \A c \in Cache : cache[c] # NoData => cache[c].version \in Nat
      BY DEF TypeInv, TypeOK, Entry
    <2>3. WorkerCache \in Cache
      BY CachesAssumption
    <2>4. CASE Save
      BY <2>4 DEF Save, AnnouncedInv, StaleIsAnnounced, TypeInv, TypeOK
    <2>5. CASE Commit
      BY <2>5 DEF Commit, AnnouncedInv, StaleIsAnnounced
    <2>6. CASE Publish
      <3>1. row' = row /\ row \in events' /\ cache' = cache
        BY <2>6 DEF Publish
      <3> QED
        BY <2>1, <3>1 DEF AnnouncedInv, StaleIsAnnounced
    <2>7. ASSUME NEW v \in events, Invalidate(v)
          PROVE  AnnouncedInv' /\ StaleIsAnnounced'
      <3>1. /\ events' = events \ {v} /\ faults' = faults
            /\ invalidated' \in {invalidated, v} /\ invalidated' >= invalidated /\ invalidated' >= v
            /\ cache'[WorkerCache] = NoData /\ row' = row /\ txn' = txn
        BY <2>1, <2>3, <2>7 DEF Invalidate, Newest, source, TypeInv, TypeOK
      <3> QED
        BY <2>1, <3>1 DEF AnnouncedInv, StaleIsAnnounced
    <2>8. ASSUME NEW c \in Cache, Expire(c)
          PROVE  AnnouncedInv' /\ StaleIsAnnounced'
      <3>1. /\ UNCHANGED <<row, txn, events, invalidated, faults>>
            /\ cache'[WorkerCache] \in {cache[WorkerCache], NoData}
        BY <2>3, <2>8 DEF Expire, source, TypeInv, TypeOK
      <3> QED
        BY <3>1 DEF AnnouncedInv, StaleIsAnnounced
    <2>9. ASSUME NEW r \in Reader, Set(r)
          PROVE  AnnouncedInv' /\ StaleIsAnnounced'
      <3> DEFINE entry == [version |-> data[r], timeout |-> TRUE, late |-> invalidated > data[r]]
      <3>1. /\ UNCHANGED <<row, txn, events, invalidated, faults>> /\ data[r] \in Nat
            /\ cache'[WorkerCache] \in {cache[WorkerCache], entry}
        BY <2>3, <2>9 DEF Set, source, TypeInv, TypeOK
      <3>2. CASE cache'[WorkerCache] = cache[WorkerCache]
        BY <3>1, <3>2 DEF AnnouncedInv, StaleIsAnnounced
      <3>3. CASE cache'[WorkerCache] = entry
        <4>1. entry.version = data[r] /\ entry.late = (invalidated > data[r])
          OBVIOUS
        <4>2. data[r] < row /\ faults = MaxFaults =>
                 txn = "hooks" \/ (\E v \in events : v > data[r]) \/ invalidated > data[r]
          BY <2>1, <3>1 DEF AnnouncedInv
        <4> QED
          BY <3>1, <3>3, <4>1, <4>2 DEF AnnouncedInv, StaleIsAnnounced
      <3> QED
        BY <3>1, <3>2, <3>3
    <2>10. CASE UNCHANGED <<source, events, invalidated, cache, faults>>
      BY <2>10 DEF AnnouncedInv, StaleIsAnnounced, source
    <2> QED
      BY <2>1, <2>4, <2>5, <2>6, <2>7, <2>8, <2>9, <2>10
      DEF Next, Rollback, PublishRaises, Miss, Get, Fetch, Raise, vars
  <1> QED
    BY <1>1, <1>2

\* StaleIsAnnounced: as long as nothing fails, a cache the worker shares is behind the row
\* only while the event is on its way, or where a fetch was overtaken by it.
THEOREM StaleAnnounced == Spec => []StaleIsAnnounced
  <1>1. Init => AnnouncedInv /\ StaleIsAnnounced
    BY CachesAssumption DEF Init, AnnouncedInv, StaleIsAnnounced
  <1>2. /\ TypeInv /\ AnnouncedInv /\ StaleIsAnnounced
        /\ [Next]_vars
        => (TypeInv /\ AnnouncedInv /\ StaleIsAnnounced)'
    BY StepTypeInv, StepAnnounced
  <1> QED
    BY <1>1, <1>2, InitTypeInv, PTL DEF Spec
===============================================================================
