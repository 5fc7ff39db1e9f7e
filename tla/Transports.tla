------------------------------ MODULE Transports ------------------------------
(***************************************************************************)
(* The gRPC transport that the threads of a process share                  *)
(* (load_transport(), remote/transports/utils.py), the channels it keeps   *)
(* (GRPCTransport, remote/transports/grpc.py), and reset_transports() when *)
(* REMOTE_DATA changes.  What a call is answered is RemoteAccess's part.   *)
(* HTTPTransport keeps nothing.                                            *)
(***************************************************************************)
EXTENDS Naturals

CONSTANTS
    Thread,       \* the threads that fetch
    Service,      \* the services of SERVICE_REGISTRY, and others
    Refused,      \* those without an entry, or without credentials under REQUIRE_TLS
    NoTarget,     \* those whose entry has no "target"
    Callers,      \* who may fetch from which service: functions of threads
    MaxResets,    \* bound of the model on the changes of REMOTE_DATA
    MaxChannels   \* bound of the model on the channels that are opened

ASSUME CallersAssumption == Callers \subseteq [Thread -> Service]
ASSUME BoundsAssumption == MaxResets \in Nat /\ MaxChannels \in Nat

None == 0
Transport == 1 .. MaxResets + 1   \* the instances, in the order they are made
Channel == 1 .. MaxChannels
Free == "free"
Resetter == "setting_changed"     \* the thread that changes REMOTE_DATA
ASSUME NamesAssumption == Free \notin Thread /\ Resetter \notin Thread

VARIABLES
    cached,      \* _transports["grpc"]
    lock,        \* who holds _transports_lock
    made,        \* how many transports have been made
    channels,    \* transport -> service -> its entry in _channels
    channelLock, \* transport -> who holds its _lock
    opened,      \* how many channels have been opened
    open,        \* the channels that are not closed
    pc,          \* thread -> where it is in its fetch
    service,     \* thread -> the service it fetches from
    mine,        \* thread -> the transport it was given
    channel,     \* thread -> the channel it was given
    result,      \* thread -> how its last fetch ended
    reset,       \* where reset_transports() is
    resets,      \* how many resets there have been
    crossed      \* the threads whose fetch a reset, or the reload() before it, has crossed

transports == <<cached, lock, made>>
connections == <<channels, channelLock, opened, open>>
fetches == <<pc, service, mine, channel, result>>
resetting == <<reset, resets, crossed>>
vars == <<transports, connections, fetches, resetting>>

TypeOK ==
    /\ made \in 0 .. MaxResets + 1 /\ cached \in 0 .. made
    /\ lock \in Thread \cup {Free, Resetter}
    /\ channels \in [Transport -> [Service -> 0 .. opened]]
    /\ channelLock \in [Transport -> Thread \cup {Free, Resetter}]
    /\ opened \in 0 .. MaxChannels /\ open \subseteq 1 .. opened
    /\ pc \in [Thread -> {"idle", "get", "lock", "load", "channel", "channel lock", "make",
                          "call", "wait"}]
    /\ service \in [Thread -> Service]
    /\ mine \in [Thread -> 0 .. made] /\ channel \in [Thread -> 0 .. opened]
    /\ result \in [Thread -> {"-", "answered", "KeyError", "ValueError", "Unavailable",
                              "Misconfigured", "no target"}]
    /\ reset \in {"idle", "lock", "close", "forget", "clear"}
    /\ resets \in 0 .. MaxResets /\ crossed \subseteq Thread

Init ==
    /\ cached = None /\ lock = Free /\ made = 0
    /\ channels = [i \in Transport |-> [s \in Service |-> None]]
    /\ channelLock = [i \in Transport |-> Free]
    /\ opened = 0 /\ open = {}
    /\ pc = [t \in Thread |-> "idle"]
    /\ service \in Callers
    /\ mine = [t \in Thread |-> None] /\ channel = [t \in Thread |-> None]
    /\ result = [t \in Thread |-> "-"]
    /\ reset = "idle" /\ resets = 0 /\ crossed = {}

Go(t, where) == pc' = [pc EXCEPT ![t] = where]

\* A fetch ends with its transport and channel forgotten by the thread.
End(t, how) ==
    /\ result' = [result EXCEPT ![t] = how]
    /\ mine' = [mine EXCEPT ![t] = None]
    /\ channel' = [channel EXCEPT ![t] = None]
    /\ Go(t, "idle")
    /\ UNCHANGED <<service, resetting>>

-------------------------------------------------------------------------------
(* load_transport() *)

\* if name in _transports
Fetch(t) ==
    /\ pc[t] = "idle"
    /\ Go(t, IF cached = None THEN "lock" ELSE "get")
    /\ result' = [result EXCEPT ![t] = "-"]
    /\ crossed' = IF reset \in {"idle", "lock"} THEN crossed \ {t} ELSE crossed \cup {t}
    /\ UNCHANGED <<transports, connections, service, mine, channel, reset, resets>>

\* return _transports[name], which a reset may have removed.
Get(t) ==
    /\ pc[t] = "get"
    /\ IF cached = None THEN End(t, "KeyError")
       ELSE /\ mine' = [mine EXCEPT ![t] = cached]
            /\ Go(t, "channel")
            /\ UNCHANGED <<service, channel, result, resetting>>
    /\ UNCHANGED <<transports, connections>>

Lock(t) ==
    /\ pc[t] = "lock" /\ lock = Free
    /\ lock' = t
    /\ Go(t, "load")
    /\ UNCHANGED <<cached, made, connections, service, mine, channel, result, resetting>>

\* A bug: the lock without the second check.
Load_Unchecked(t) ==
    /\ pc[t] = "load"
    /\ made < MaxResets + 1
    /\ made' = made + 1
    /\ cached' = made'
    /\ lock' = Free
    /\ Go(t, "get")
    /\ UNCHANGED <<connections, service, mine, channel, result, resetting>>

Load(t) ==
    /\ pc[t] = "load"
    /\ IF cached = None THEN made' = made + 1 /\ cached' = made' ELSE UNCHANGED <<made, cached>>
    /\ lock' = Free
    /\ Go(t, "get")
    /\ UNCHANGED <<connections, service, mine, channel, result, resetting>>

-------------------------------------------------------------------------------
(* GRPCTransport.fetch() *)

Found(t) == channels[mine[t]][service[t]]

Take(t) ==
    /\ channel' = [channel EXCEPT ![t] = Found(t)]
    /\ Go(t, "call")

\* registry_entry(), REQUIRE_TLS, then _channel() without the lock.
LookUp(t) ==
    /\ pc[t] = "channel"
    /\ IF service[t] \in Refused THEN End(t, "Misconfigured")
       ELSE /\ IF Found(t) = None THEN Go(t, "channel lock") /\ UNCHANGED channel ELSE Take(t)
            /\ UNCHANGED <<service, mine, result, resetting>>
    /\ UNCHANGED <<transports, connections>>

LockChannels(t) ==
    /\ pc[t] = "channel lock" /\ channelLock[mine[t]] = Free
    /\ channelLock' = [channelLock EXCEPT ![mine[t]] = t]
    /\ Go(t, "make")
    /\ UNCHANGED <<transports, channels, opened, open, service, mine, channel, result, resetting>>

Release(t) == channelLock' = [channelLock EXCEPT ![mine[t]] = Free]

\* Another thread was faster.
Reuse(t) ==
    /\ pc[t] = "make" /\ Found(t) # None
    /\ Take(t)
    /\ Release(t)
    /\ UNCHANGED <<transports, channels, opened, open, service, mine, result, resetting>>

\* A bug: the lock without the second check.
Missing_Always(t) == TRUE

\* if channel is None
Missing(t) == Found(t) = None

OpenChannel(t) ==
    /\ pc[t] = "make" /\ Missing(t) /\ service[t] \notin NoTarget
    /\ opened < MaxChannels
    /\ opened' = opened + 1
    /\ open' = open \cup {opened'}
    /\ channels' = [channels EXCEPT ![mine[t]][service[t]] = opened']
    /\ channel' = [channel EXCEPT ![t] = opened']
    /\ Release(t)
    /\ Go(t, "call")
    /\ UNCHANGED <<transports, service, mine, result, resetting>>

\* A bug: acquire() and release() without a finally.
OpenRaises_KeepsLock(t) ==
    /\ pc[t] = "make" /\ Missing(t) /\ service[t] \in NoTarget
    /\ End(t, "no target")
    /\ UNCHANGED <<transports, connections>>

\* config["target"]: the KeyError releases the lock.
OpenRaises(t) ==
    /\ pc[t] = "make" /\ Missing(t) /\ service[t] \in NoTarget
    /\ Release(t)
    /\ End(t, "no target")
    /\ UNCHANGED <<transports, channels, opened, open>>

\* gRPC refuses a closed channel with a ValueError, which is no RpcError.
Call(t) ==
    /\ pc[t] = "call"
    /\ IF channel[t] \in open
       THEN Go(t, "wait") /\ UNCHANGED <<service, mine, channel, result, resetting>>
       ELSE End(t, "ValueError")
    /\ UNCHANGED <<transports, connections>>

\* The answer; close() cancels the calls of the channel.
Return(t) ==
    /\ pc[t] = "wait"
    /\ End(t, IF channel[t] \in open THEN "answered" ELSE "Unavailable")
    /\ UNCHANGED <<transports, connections>>

-------------------------------------------------------------------------------
(* reload(), and reset_transports() *)

\* A step that a fetch under way may see.
ResetStep(where) ==
    /\ reset' = where
    /\ crossed' = crossed \cup {t \in Thread : pc[t] # "idle"}
    /\ UNCHANGED <<fetches, resets>>

\* Who may be reading a setting of REMOTE_DATA: the name of the transport, the entry
\* of the service, the maximal size of an answer (under the lock of the transport).
AtSettings(t) ==
    \/ pc[t] \in {"idle", "channel"}
    \/ pc[t] = "make" /\ Missing(t) /\ service[t] \notin NoTarget

\* The setting changes, and reload() empties the cache of the settings: those who have
\* just found a value in it (hit) fail to read it, and leave the lock they have.
Reset ==
    /\ reset = "idle" /\ resets < MaxResets
    /\ reset' = "lock" /\ resets' = resets + 1
    /\ \E hit \in SUBSET {t \in Thread : AtSettings(t)} :
         /\ pc' = [t \in Thread |-> IF t \in hit THEN "idle" ELSE pc[t]]
         /\ mine' = [t \in Thread |-> IF t \in hit THEN None ELSE mine[t]]
         /\ channel' = [t \in Thread |-> IF t \in hit THEN None ELSE channel[t]]
         /\ result' = [t \in Thread |-> IF t \in hit THEN "KeyError" ELSE result[t]]
         /\ channelLock' = [i \in Transport |-> IF channelLock[i] \in hit THEN Free ELSE channelLock[i]]
         /\ crossed' = crossed \cup hit
    /\ UNCHANGED <<transports, channels, opened, open, service>>

LockTransports ==
    /\ reset = "lock" /\ lock = Free
    /\ lock' = Resetter
    /\ ResetStep(IF cached = None THEN "clear" ELSE "close")
    /\ UNCHANGED <<cached, made, connections>>

\* GRPCTransport.close(): the lock of the transport, and each channel.
CloseChannels ==
    /\ reset = "close" /\ channelLock[cached] = Free
    /\ channelLock' = [channelLock EXCEPT ![cached] = Resetter]
    /\ open' = open \ {channels[cached][s] : s \in Service}
    /\ ResetStep("forget")
    /\ UNCHANGED <<transports, channels, opened>>

\* self._channels.clear()
ForgetChannels ==
    /\ reset = "forget"
    /\ channels' = [channels EXCEPT ![cached] = [s \in Service |-> None]]
    /\ channelLock' = [channelLock EXCEPT ![cached] = Free]
    /\ ResetStep("clear")
    /\ UNCHANGED <<transports, opened, open>>

\* _transports.clear()
ClearTransports ==
    /\ reset = "clear"
    /\ cached' = None
    /\ lock' = Free
    /\ ResetStep("idle")
    /\ UNCHANGED <<made, connections>>

-------------------------------------------------------------------------------
Proceed(t) ==
    \/ Get(t) \/ Lock(t) \/ Load(t)
    \/ LookUp(t) \/ LockChannels(t) \/ Reuse(t) \/ OpenChannel(t) \/ OpenRaises(t)
    \/ Call(t) \/ Return(t)

Close == LockTransports \/ CloseChannels \/ ForgetChannels \/ ClearTransports

Next == (\E t \in Thread : Fetch(t) \/ Proceed(t)) \/ Reset \/ Close

Spec == Init /\ [][Next]_vars

\* Threads go on, and a lock that is released again and again is had in the end:
\* only fetches without a target ask for one for ever, and do other work in between.
FairSpec ==
    /\ Spec
    /\ \A t \in Thread : WF_vars(Proceed(t)) /\ SF_vars(LockChannels(t))
    /\ WF_vars(Close) /\ SF_vars(CloseChannels)

-------------------------------------------------------------------------------
(* Properties *)

\* A channel that is open is in the cache of its transport, where the next fetch
\* and close() find it: threads that miss it together open one, not two.
ChannelsKept == \A c \in open : \E i \in 1 .. made : \E s \in Service : channels[i][s] = c

\* A fetch that no reset has crossed works with the one shared transport, and does
\* not fail for what other threads do to the caches.
SafeFromThreads ==
    \A t \in Thread \ crossed :
        /\ result[t] \notin {"KeyError", "ValueError", "Unavailable"}
        /\ mine[t] # None => mine[t] = cached

\* A fetch ends, though another one raises under the lock, and so does a reset,
\* which waits for the lock of a transport with the other lock in its hand.
FetchesEnd ==
    /\ \A t \in Thread : pc[t] # "idle" ~> pc[t] = "idle"
    /\ reset = "lock" ~> reset = "idle"

-------------------------------------------------------------------------------
(* What the sources say and the code does not do *)

\* utils.py:93 "Closes and forgets the cached transports": a fetch that the reset
\* has crossed opens a channel on the forgotten transport, and nobody closes it.
ResetCloses ==
    \A c \in open : cached # None /\ \E s \in Service : channels[cached][s] = c
                    \/ \E t \in Thread : pc[t] # "idle"
                    \/ reset # "idle"

\* transports/base.py:41 "Raises RemoteServiceUnavailableError if the service could not
\* be reached or responded with an error", and no KeyError or ValueError.
UnavailableSurfaces == \A t \in Thread : result[t] \notin {"KeyError", "ValueError"}
===============================================================================
