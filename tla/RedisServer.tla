------------------------------ MODULE RedisServer ------------------------------
(***************************************************************************)
(* External: the Redis 7 commands redis_streams.py issues, for one stream  *)
(* (one event_type), the consumer group of one service on it and the       *)
(* stream's dead-letter.  A command is atomic.  The consumer that owns a   *)
(* pending entry is left out: no call of the code depends on it.           *)
(***************************************************************************)
EXTENDS Naturals, Sequences, FiniteSets

CONSTANTS
    Event,        \* envelopes published on the stream
    MaxEntries,   \* bound of the model on the stream's entries
    MaxLen,       \* option MAXLEN; 0 stands for None
    MaxRetries,   \* option MAX_RETRIES; delivery counters saturate here
    ReadCount,    \* COUNT of XREADGROUP (10 in the code)
    ClaimCount    \* COUNT of XAUTOCLAIM (10 in the code)

ASSUME MaxEntriesAssumption == MaxEntries \in Nat
ASSUME MaxLenAssumption == MaxLen \in Nat
ASSUME MaxRetriesAssumption == MaxRetries \in Nat \ {0}
ASSUME CountAssumption == ReadCount \in Nat \ {0} /\ ClaimCount \in Nat \ {0}

Id == 1 .. MaxEntries     \* entry ids, in the order of the XADDs

VARIABLES
    stream,       \* the events added, stream[i] under id i
    first,        \* ids below first have been trimmed
    group,        \* the consumer group exists
    cursor,       \* the group's last delivered id
    pel,          \* ids delivered and not acknowledged (pending entries list)
    idle,         \* ids of pel not delivered again for RETRY_IDLE_MS
    deliveries,   \* id -> times delivered, kept up to MaxRetries
    dlq           \* id -> copies in the dead-letter, kept up to 2

server == <<stream, first, group, cursor, pel, idle, deliveries, dlq>>

ServerTypeOK ==
    /\ stream \in Seq(Event) /\ Len(stream) <= MaxEntries
    /\ first \in 1 .. MaxEntries + 1
    /\ group \in BOOLEAN
    /\ cursor \in 0 .. Len(stream)
    /\ pel \subseteq 1 .. cursor
    /\ idle \subseteq pel
    /\ deliveries \in [Id -> 0 .. MaxRetries]
    /\ dlq \in [Id -> 0 .. 2]

ServerInit ==
    /\ stream = <<>>
    /\ first = 1
    /\ group = FALSE
    /\ cursor = 0
    /\ pel = {}
    /\ idle = {}
    /\ deliveries = [i \in Id |-> 0]
    /\ dlq = [i \in Id |-> 0]

Bump(n, cap) == IF n < cap THEN n + 1 ELSE cap

\* XADD ... MAXLEN ~: whole nodes may be trimmed, never below MaxLen entries.
XADD(e) ==
    /\ Len(stream) < MaxEntries
    /\ stream' = Append(stream, e)
    /\ \/ first' = first
       \/ /\ MaxLen > 0
          /\ first' \in first .. Len(stream) + 1
          /\ Len(stream) + 2 - first' >= MaxLen
    /\ UNCHANGED <<group, cursor, pel, idle, deliveries, dlq>>

\* XGROUP CREATE ... MKSTREAM with the last delivered id start (0, or $ for
\* the stream's end); an existing group is the BUSYGROUP error.
XGROUP_CREATE(start) ==
    /\ group' = TRUE
    /\ cursor' = IF group THEN cursor ELSE start
    /\ UNCHANGED <<stream, first, pel, idle, deliveries, dlq>>

\* The next entries the group has never delivered, at most ReadCount of them.
Fresh ==
    LET from == IF cursor < first THEN first ELSE cursor + 1
    IN  {i \in from .. Len(stream) : i < from + ReadCount}

XREADGROUP ==
    /\ group
    /\ cursor' = IF Fresh = {} THEN cursor
                 ELSE CHOOSE i \in Fresh : \A j \in Fresh : j <= i
    /\ pel' = pel \cup Fresh
    /\ idle' = idle \ Fresh
    /\ deliveries' = [i \in Id |-> IF i \in Fresh THEN 1 ELSE deliveries[i]]
    /\ UNCHANGED <<stream, first, group, dlq>>

\* A bug of the caller: min-idle-time 0.
Claimable_NoMinIdle ==
    {i \in pel : Cardinality({j \in pel : j < i}) < ClaimCount}

\* What XAUTOCLAIM from 0-0 with min-idle-time RETRY_IDLE_MS looks at: the
\* oldest ClaimCount entries that are idle, or pending but trimmed.
Claimable ==
    LET due == {i \in pel : i \in idle \/ i < first}
    IN  {i \in due : Cardinality({j \in due : j < i}) < ClaimCount}

Claimed == {i \in Claimable : i >= first}

\* A trimmed entry leaves the PEL; the others count one more delivery.
XAUTOCLAIM ==
    /\ group
    /\ pel' = pel \ (Claimable \ Claimed)
    /\ idle' = idle \ Claimable
    /\ deliveries' = [i \in Id |-> IF i \in Claimed
                                   THEN Bump(deliveries[i], MaxRetries)
                                   ELSE deliveries[i]]
    /\ UNCHANGED <<stream, first, group, cursor, dlq>>

XACK(i) ==
    /\ pel' = pel \ {i}
    /\ idle' = idle \ {i}
    /\ UNCHANGED <<stream, first, group, cursor, deliveries, dlq>>

\* times_delivered of entry i, and the 1 fail() assumes when it is not pending.
XPENDING(i) == IF i \in pel THEN deliveries[i] ELSE 1

\* A bug of the caller: XADD and XACK outside a transaction, and only the first
\* (or, in the other order, only the second) takes effect.
XADD_DLQ_XACK_AddOnly(i) ==
    /\ dlq' = [dlq EXCEPT ![i] = Bump(@, 2)]
    /\ UNCHANGED <<stream, first, group, cursor, pel, idle, deliveries>>

\* MULTI, XADD {stream}:dlq, XACK, EXEC.
XADD_DLQ_XACK(i) ==
    /\ dlq' = [dlq EXCEPT ![i] = Bump(@, 2)]
    /\ pel' = pel \ {i}
    /\ idle' = idle \ {i}
    /\ UNCHANGED <<stream, first, group, cursor, deliveries>>

\* A manual XGROUP DESTROY (the stream stays): the group's whole state is gone.
XGROUP_DESTROY ==
    /\ group
    /\ group' = FALSE
    /\ cursor' = 0
    /\ pel' = {}
    /\ idle' = {}
    /\ UNCHANGED <<stream, first, deliveries, dlq>>

\* RETRY_IDLE_MS elapses for entry i.
ELAPSE(i) ==
    /\ i \in pel \ idle
    /\ idle' = idle \cup {i}
    /\ UNCHANGED <<stream, first, group, cursor, pel, deliveries, dlq>>
================================================================================
