----------------------------- MODULE RemoteAccess -----------------------------
(***************************************************************************)
(* A fetch from end to end: the transport of the service that reads        *)
(* (remote/transports/), and the rate limit, authentication, audit and     *)
(* lookup of the service that answers, over HTTP (remote/views.py) or over *)
(* gRPC (remote/grpc_server.py), with the gRPC server's start and stop.    *)
(* The calls come from one peer: HTTP counts by address and gRPC by        *)
(* address and port, so that one counter is never that of both.            *)
(***************************************************************************)
EXTENDS Naturals, Sequences, FiniteSets, Resources

CONSTANTS
    Call,            \* the calls of a behaviour, each made once
    Credential,      \* call -> what it presents: "none", "token" or "jwt"
    Config,          \* the transports and the values of REMOTE_DATA to consider
    Limit,           \* RATE_LIMIT["LIMIT"]
    MaxWindow,       \* bound of the model on the time, in windows
    MaxFaults        \* bound of the model on the faults of a behaviour

ASSUME CallsAssumption == Credential \in [Call -> {"none", "token", "jwt"}]
ASSUME ConfigAssumption ==
    Config \subseteq [transport : {"http", "grpc"}, AUTH_BACKEND : {"None", "jwt"},
                      AUTH_TOKEN : {"None", "token"}, RATE_LIMIT : BOOLEAN]
ASSUME BoundsAssumption == Limit \in Nat /\ MaxWindow \in Nat /\ MaxFaults \in Nat

Window == 0 .. MaxWindow
NoKey == [count |-> 0, born |-> 0]

VARIABLES
    config,    \* the transport of the calls, and REMOTE_DATA of the service
    registry,  \* the serializers that have been exposed
    server,    \* the gRPC server: "down", "starting" (before it handles signals), "up", "stopping"
    cut,       \* the calls that the server cancelled when the grace was over
    now,       \* the current window
    counter,   \* window -> the cached count of its key and the window it was added in
    evicted,   \* the windows whose key the cache dropped before its timeout
    expired,   \* has the credential expired?
    pc,        \* call -> where it is in the server
    slot,      \* call -> the window it was counted in
    audit,     \* call -> what log_access() wrote about it
    reply,     \* call -> the server's answer
    outcome,   \* call -> what fetch() returned or raised
    faults

limiter == <<now, counter, evicted>>
service == <<config, registry, server, cut>>
vars == <<service, limiter, expired, pc, slot, audit, reply, outcome, faults>>

Denied == {"rate limited", "unauthorized"}
NoReply == {"-", "unreachable"}
Reply == Denied \cup {"found", "missing", "error", "unreachable"}
Record == [granted : BOOLEAN, caller : {"sub", "shared-token", "None"}]
Counting == {"add", "incr", "again"}
Running == Counting \cup {"arrived", "auth", "serve", "lookup"}

TypeOK ==
    /\ config \in Config /\ registry \subseteq Serializer
    /\ server \in {"down", "starting", "up", "stopping"} /\ cut \subseteq Call
    /\ now \in Window
    /\ counter \in [Window -> [count : 0 .. Cardinality(Call), born : Window]]
    /\ evicted \subseteq Window
    /\ expired \in BOOLEAN
    /\ pc \in [Call -> Running \cup {"new", "done", "dead"}]
    /\ slot \in [Call -> Window]
    /\ audit \in [Call -> UNION {[1 .. n -> Record] : n \in 0 .. 1}]
    /\ reply \in [Call -> Reply \cup {"-"}]
    /\ outcome \in [Call -> {"-", "data", "None", "Unavailable", "RequestException"}]
    /\ faults \in 0 .. MaxFaults

Init ==
    /\ config \in Config
    /\ registry = {} /\ server = "down" /\ cut = {}
    /\ now = 0
    /\ counter = [w \in Window |-> NoKey]
    /\ evicted = {}
    /\ expired = FALSE
    /\ pc = [c \in Call |-> "new"]
    /\ slot = [c \in Call |-> 0]
    /\ audit = [c \in Call |-> <<>>]
    /\ reply = [c \in Call |-> "-"]
    /\ outcome = [c \in Call |-> "-"]
    /\ faults = MaxFaults

Fault == faults > 0 /\ faults' = faults - 1
Go(c, where) == pc' = [pc EXCEPT ![c] = where]
Log(c, granted, caller) ==
    audit' = [audit EXCEPT ![c] = Append(@, [granted |-> granted, caller |-> caller])]
Answer(c, answer) == reply' = [reply EXCEPT ![c] = answer] /\ Go(c, "done")

-------------------------------------------------------------------------------
(* The service starts and stops *)

\* autodiscover_modules("resources"), before anything else.
Expose(s) ==
    /\ server = "down" /\ now = 0 /\ ~expired
    /\ \A c \in Call : pc[c] = "new" /\ outcome[c] = "-"
    /\ Accepted(s, registry)
    /\ registry' = registry \cup {s}
    /\ UNCHANGED <<config, server, cut, limiter, expired, pc, slot, audit, reply, outcome, faults>>

\* The calls inside the server that it has not given up.
Served(c) == config.transport = "grpc" /\ pc[c] \in Running /\ c \notin cut

\* serve(), up to server.start().
Start ==
    /\ config.transport = "grpc" /\ server = "down"
    /\ server' = "starting"
    /\ UNCHANGED <<config, registry, cut, limiter, expired, pc, slot, audit, reply, outcome, faults>>

\* signal.signal(): the server serves already.
HandleSignals ==
    /\ server = "starting"
    /\ server' = "up"
    /\ UNCHANGED <<config, registry, cut, limiter, expired, pc, slot, audit, reply, outcome, faults>>

\* The process dies with the calls inside: SIGTERM before there is a handler, or a kill.
Die ==
    /\ \/ server = "starting" /\ UNCHANGED faults
       \/ server # "down" /\ Fault
    /\ server' = "down"
    /\ pc' = [c \in Call |-> IF Served(c) THEN "dead" ELSE pc[c]]
    /\ UNCHANGED <<config, registry, cut, limiter, expired, slot, audit, reply, outcome>>

\* A bug: server.stop(None) cancels the calls at once.
Stop_AtOnce ==
    /\ server = "up"
    /\ server' = "stopping"
    /\ cut' = cut \cup {c \in Call : Served(c)}
    /\ UNCHANGED <<config, registry, limiter, expired, pc, slot, audit, reply, outcome, faults>>

\* SIGTERM or SIGINT: server.stop(grace=5) takes no new calls.
Stop ==
    /\ server = "up"
    /\ server' = "stopping"
    /\ UNCHANGED <<config, registry, cut, limiter, expired, pc, slot, audit, reply, outcome, faults>>

\* Calls that take longer than the grace are cancelled; their threads go on.
GraceOver ==
    /\ server = "stopping"
    /\ \E c \in Call : Served(c)
    /\ Fault
    /\ cut' = cut \cup {c \in Call : Served(c)}
    /\ UNCHANGED <<config, registry, server, limiter, expired, pc, slot, audit, reply, outcome>>

\* .wait() returns.
Stopped ==
    /\ server = "stopping"
    /\ \A c \in Call : ~Served(c)
    /\ server' = "down"
    /\ UNCHANGED <<config, registry, cut, limiter, expired, pc, slot, audit, reply, outcome, faults>>

-------------------------------------------------------------------------------
(* The client sends *)

Reachable == config.transport = "http" \/ server \in {"starting", "up"}

Send(c) ==
    /\ pc[c] = "new" /\ outcome[c] = "-"
    /\ IF Reachable THEN Go(c, "arrived") /\ UNCHANGED reply ELSE Answer(c, "unreachable")
    /\ UNCHANGED <<service, limiter, expired, slot, audit, outcome, faults>>

\* RATE_LIMIT is None: no config for is_allowed(), and no interceptor.
Unlimited(c) ==
    /\ pc[c] = "arrived" /\ ~config.RATE_LIMIT
    /\ Go(c, "auth")
    /\ UNCHANGED <<service, limiter, expired, slot, audit, reply, outcome, faults>>

-------------------------------------------------------------------------------
(* is_allowed(): each call of the cache is a step *)

Present(w) == counter[w].count > 0

ReadTime(c) ==
    /\ pc[c] = "arrived" /\ config.RATE_LIMIT
    /\ slot' = [slot EXCEPT ![c] = now]
    /\ Go(c, "add")
    /\ UNCHANGED <<service, limiter, expired, audit, reply, outcome, faults>>

\* return count <= config.limit, and what the caller does about it.
Decide(c, count) ==
    IF count <= Limit
    THEN Go(c, "auth") /\ UNCHANGED <<audit, reply>>
    ELSE Log(c, FALSE, "None") /\ Answer(c, "rate limited")

\* cache.add(): nothing if the key is there.
AddKey(c) ==
    counter' = IF Present(slot[c]) THEN counter
               ELSE [counter EXCEPT ![slot[c]] = [count |-> 1, born |-> now]]

Add(c) ==
    /\ pc[c] = "add"
    /\ AddKey(c)
    /\ IF Present(slot[c]) THEN Go(c, "incr") /\ UNCHANGED <<audit, reply>> ELSE Decide(c, 1)
    /\ UNCHANGED <<service, now, evicted, expired, slot, outcome, faults>>

\* cache.incr(): ValueError if the key is no longer there.
Incr(c) ==
    /\ pc[c] = "incr"
    /\ IF Present(slot[c])
       THEN /\ counter' = [counter EXCEPT ![slot[c]].count = @ + 1]
            /\ Decide(c, counter[slot[c]].count + 1)
       ELSE Go(c, "again") /\ UNCHANGED <<counter, audit, reply>>
    /\ UNCHANGED <<service, now, evicted, expired, slot, outcome, faults>>

\* A bug: AddAgain() retries incr() instead.
AddAgain_Retries(c) ==
    /\ pc[c] = "again"
    /\ Go(c, "incr")
    /\ UNCHANGED <<service, limiter, expired, slot, audit, reply, outcome, faults>>

\* except ValueError: whatever add() says, the count is taken to be 1.
AddAgain(c) ==
    /\ pc[c] = "again"
    /\ AddKey(c)
    /\ Decide(c, 1)
    /\ UNCHANGED <<service, now, evicted, expired, slot, outcome, faults>>

\* A bug: timeout=config.window_seconds.
TimeOut_OneWindow(w) == now >= counter[w].born + 1

\* The key's timeout is two windows.
TimeOut(w) == now >= counter[w].born + 2

ExpireKey(w) ==
    /\ Present(w) /\ TimeOut(w)
    /\ counter' = [counter EXCEPT ![w] = NoKey]
    /\ UNCHANGED <<service, now, evicted, expired, pc, slot, audit, reply, outcome, faults>>

EvictKey(w) ==
    /\ Present(w)
    /\ Fault
    /\ counter' = [counter EXCEPT ![w] = NoKey]
    /\ evicted' = evicted \cup {w}
    /\ UNCHANGED <<service, now, expired, pc, slot, audit, reply, outcome>>

\* Two bounds of the model: is_allowed() takes less than a window, and time goes on
\* as long as a call may be counted.
Tick ==
    /\ config.RATE_LIMIT /\ now < MaxWindow
    /\ \E c \in Call : pc[c] \in {"new", "arrived"} \cup Counting
    /\ \A c \in Call : pc[c] \in Counting => slot[c] = now
    /\ now' = now + 1
    /\ UNCHANGED <<service, counter, evicted, expired, pc, slot, audit, reply, outcome, faults>>

-------------------------------------------------------------------------------
(* Authentication, audit and lookup *)

\* resolve_auth_backend(): AUTH_BACKEND, then AUTH_TOKEN, then everybody.
Backend ==
    IF config.AUTH_BACKEND # "None" THEN config.AUTH_BACKEND
    ELSE IF config.AUTH_TOKEN # "None" THEN "static" ELSE "allow all"

\* authenticate() of the three backends; "exp" is required of a JWT.
Valid(c) ==
    \/ Backend = "allow all"
    \/ Backend = "static" /\ Credential[c] = "token"
    \/ Backend = "jwt" /\ Credential[c] = "jwt" /\ ~expired

CallerOf(c) ==
    IF ~Valid(c) \/ Backend = "allow all" THEN "None"
    ELSE IF Backend = "static" THEN "shared-token" ELSE "sub"

ExpireCredential ==
    /\ Backend = "jwt" /\ ~expired
    /\ expired' = TRUE
    /\ UNCHANGED <<service, limiter, pc, slot, audit, reply, outcome, faults>>

\* resource_detail() logs and goes on; the interceptor calls GetResource.
Authenticate(c) ==
    /\ pc[c] = "auth"
    /\ IF ~Valid(c) THEN Log(c, FALSE, "None") /\ Answer(c, "unauthorized")
       ELSE IF config.transport = "http"
       THEN Log(c, TRUE, CallerOf(c)) /\ Go(c, "lookup") /\ UNCHANGED reply
       ELSE Go(c, "serve") /\ UNCHANGED <<audit, reply>>
    /\ UNCHANGED <<service, limiter, expired, slot, outcome, faults>>

\* A bug: GetResource() logs what the second authentication says.
GetResource_LogsDecision(c) ==
    /\ pc[c] = "serve"
    /\ Log(c, Valid(c), CallerOf(c))
    /\ Go(c, "lookup")
    /\ UNCHANGED <<service, limiter, expired, slot, reply, outcome, faults>>

\* GetResource() authenticates again, for the caller's name only.
GetResource(c) ==
    /\ pc[c] = "serve"
    /\ Log(c, TRUE, CallerOf(c))
    /\ Go(c, "lookup")
    /\ UNCHANGED <<service, limiter, expired, slot, reply, outcome, faults>>

\* No such resource or row: 404, found=False; the serializer, or the encoding of what
\* it returns, may raise, and so may the database.
Lookup(c) ==
    /\ pc[c] = "lookup"
    /\ \/ /\ \/ Answer(c, "missing")
             \/ \E s \in registry, null \in SUBSET Nullable :
                   LET served == Representable(s, null) /\ Encodable(s, null)
                   IN  Answer(c, IF served THEN "found" ELSE "error")
          /\ UNCHANGED faults
       \/ Answer(c, "error") /\ Fault
    /\ UNCHANGED <<service, limiter, expired, slot, audit, outcome>>

-------------------------------------------------------------------------------
(* The client receives *)

End(c, result) ==
    /\ outcome' = [outcome EXCEPT ![c] = result]
    /\ UNCHANGED <<service, limiter, expired, pc, slot, audit, reply>>

Answered(c) == pc[c] = "done" /\ c \notin cut /\ outcome[c] = "-"

\* A bug: every status that is not ok is taken for a missing row.
Receive_AnyStatus(c) ==
    /\ Answered(c)
    /\ End(c, IF reply[c] = "found" THEN "data" ELSE "None")
    /\ UNCHANGED faults

\* HTTPTransport.fetch() and GRPCTransport.fetch() with the whole answer.
Receive(c) ==
    /\ Answered(c)
    /\ End(c, CASE reply[c] = "found" -> "data"
                [] reply[c] = "missing" -> "None"
                [] OTHER -> "Unavailable")
    /\ UNCHANGED faults

\* max_response_bytes is exceeded, or the JSON is invalid.
Refuse(c) ==
    /\ Answered(c) /\ reply[c] = "found"
    /\ Fault
    /\ End(c, "Unavailable")

\* The connection breaks off within the body: _read_bounded() catches nothing,
\* gRPC has one error for all.
BreakOff(c) ==
    /\ Answered(c) /\ reply[c] = "found"
    /\ Fault
    /\ End(c, IF config.transport = "http" THEN "RequestException" ELSE "Unavailable")

\* The server cancelled the call, or died with it.
Lost(c) ==
    /\ c \in cut \/ pc[c] = "dead"
    /\ outcome[c] = "-"
    /\ End(c, "Unavailable")
    /\ UNCHANGED faults

\* No connection, no answer in time, or the answer is lost.
GiveUp(c) ==
    /\ outcome[c] = "-"
    /\ Fault
    /\ End(c, "Unavailable")

-------------------------------------------------------------------------------
Serve(c) ==
    \/ ReadTime(c) \/ Unlimited(c) \/ Add(c) \/ Incr(c) \/ AddAgain(c)
    \/ Authenticate(c) \/ GetResource(c) \/ Lookup(c)

Fetch(c) == Send(c) \/ Receive(c) \/ Refuse(c) \/ BreakOff(c) \/ Lost(c) \/ GiveUp(c)

Lifetime == Start \/ HandleSignals \/ Die \/ Stop \/ GraceOver \/ Stopped

Next ==
    \/ \E s \in Serializer : Expose(s)
    \/ Lifetime
    \/ \E c \in Call : Serve(c) \/ Fetch(c)
    \/ \E w \in Window : ExpireKey(w) \/ EvictKey(w)
    \/ Tick \/ ExpireCredential

Spec == Init /\ [][Next]_vars

\* Threads of the server and answers on their way go on, but a call that was cut
\* before a thread took it is never run; nobody has to call, or to start the server.
FairSpec ==
    /\ Spec
    /\ \A c \in Call : WF_vars(c \notin cut /\ Serve(c)) /\ WF_vars(Receive(c) \/ Lost(c))
    /\ WF_vars(HandleSignals) /\ WF_vars(Stopped)

-------------------------------------------------------------------------------
(* Properties *)

Passed(w) ==
    {c \in Call : pc[c] \notin {"new", "arrived"} /\ slot[c] = w
                  /\ \/ pc[c] \in {"auth", "serve", "lookup"}
                     \/ pc[c] = "done" /\ reply[c] \notin {"rate limited", "unreachable"}}

\* Whatever the interleaving of the threads, no more calls pass in a window than
\* the limit allows, unless the cache itself drops a count.
BudgetKept ==
    config.RATE_LIMIT => \A w \in Window \ evicted : Cardinality(Passed(w)) <= Limit

\* Every access decision is logged, once, as what the caller was answered.
DecisionLogged ==
    \A c \in Call :
        /\ pc[c] = "done" => Len(audit[c]) = IF reply[c] = "unreachable" THEN 0 ELSE 1
        /\ \A i \in DOMAIN audit[c] :
              audit[c][i].granted <=> pc[c] \in {"lookup", "dead"} \/ reply[c] \notin Denied \cup NoReply

\* fetch() says that a row does not exist only on the word of the service, and has
\* data only of calls that were granted, by the setting that takes precedence.
OutcomeIsHonest ==
    \A c \in Call :
        /\ outcome[c] = "None" => reply[c] = "missing"
        /\ outcome[c] = "data" =>
              /\ \E i \in DOMAIN audit[c] : audit[c][i].granted
              /\ config.AUTH_BACKEND # "None" => Credential[c] = "jwt"
              /\ config.AUTH_BACKEND = "None" /\ config.AUTH_TOKEN # "None" => Credential[c] = "token"

\* A server that is told to stop finishes what it has accepted: unless something
\* failed, a call is lost only to a signal that no handler was there for.
StopIsGraceful ==
    \A c \in Call : outcome[c] = "Unavailable" /\ faults = MaxFaults =>
        pc[c] = "dead" \/ (pc[c] = "done" /\ reply[c] \in Denied \cup {"error", "unreachable"})

Over(c) == pc[c] \in {"done", "dead"} \/ c \in cut

\* A call that was sent is answered or lost in the end, and its caller told; and a
\* server that is told to stop does, when its calls are through.
CallsReturn ==
    /\ \A c \in Call : pc[c] # "new" ~> Over(c) /\ outcome[c] # "-"
    /\ server = "stopping" ~> server = "down"

-------------------------------------------------------------------------------
(* What the sources say and the code does not do *)

\* grpc_server.py:65 "only used to recover the caller's identity" for the audit log:
\* the log has the name of whom it says was granted access.
GrantedIsNamed ==
    \A c \in Call : \A i \in DOMAIN audit[c] :
        audit[c][i].granted /\ Backend # "allow all" => audit[c][i].caller # "None"

\* grpc_server.py:250 "Stops cleanly on SIGINT/SIGTERM": no call dies of a signal.
StopsCleanly == \A c \in Call : pc[c] = "dead" => faults < MaxFaults

\* resources.py:311-319 what is refused at import is "a relation not directly
\* serializable": some row could not be represented.
RefusedWouldRaise ==
    \A s \in Serializer : ~RelationsChecked(s) =>
        \E null \in SUBSET Nullable : ~Representable(s, null) \/ ~Encodable(s, null)

\* resources.py:282 "the failure would only surface on the first HTTP/gRPC request, as
\* an unhelpful TypeError at JSON-encoding time" without the check at import and the
\* one of to_representation(): no relation gets past both of them.
RelationsCaught ==
    \A s \in registry, null \in SUBSET Nullable :
        Representable(s, null) => \A n \in Read(s) : Kind[n] \notin {"many", "accessor"}

\* transports/base.py:41 "Raises RemoteServiceUnavailableError if the service could
\* not be reached or responded with an error", and nothing else.
UnavailableSurfaces == \A c \in Call : outcome[c] # "RequestException"
===============================================================================
