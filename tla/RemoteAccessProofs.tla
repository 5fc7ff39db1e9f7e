-------------------------- MODULE RemoteAccessProofs --------------------------
(***************************************************************************)
(* The invariants of RemoteAccess for every set of calls, settings,        *)
(* serializers and faults, and every limit.  A call has no audit record    *)
(* until it is decided, one when it is looked up or answered,              *)
(* and an outcome that agrees with the answer; nobody is looked up for     *)
(* without the credential that the settings ask for; no call is cut but by *)
(* a fault; and the key of a window counts every call that passes in it,   *)
(* until nobody counts any more.                                           *)
(***************************************************************************)
EXTENDS RemoteAccess, FiniteSetTheorems, TLAPS

Undecided == {"new", "arrived", "add", "incr", "again", "auth", "serve"}

Logged(c, granted) ==
    \E caller : audit[c] = <<[granted |-> granted, caller |-> caller]>>

\* The credential is one that the settings ask for.
Entitled(c) ==
    /\ config.AUTH_BACKEND # "None" => Credential[c] = "jwt"
    /\ config.AUTH_BACKEND = "None" /\ config.AUTH_TOKEN # "None" => Credential[c] = "token"

CallInv(c) ==
    /\ pc[c] \in Undecided \cup {"lookup", "done", "dead"}
    /\ pc[c] \in Undecided => audit[c] = <<>> /\ reply[c] = "-"
    /\ pc[c] = "serve" => Entitled(c)
    /\ pc[c] = "lookup" => Logged(c, TRUE) /\ Entitled(c) /\ reply[c] = "-"
    /\ pc[c] = "dead" => (audit[c] = <<>> \/ Logged(c, TRUE)) /\ reply[c] = "-"
    /\ pc[c] = "done" =>
          \/ reply[c] = "unreachable" /\ audit[c] = <<>>
          \/ reply[c] \in Denied /\ Logged(c, FALSE)
          \/ reply[c] \in {"found", "missing", "error"} /\ Logged(c, TRUE) /\ Entitled(c)
    /\ outcome[c] = "None" => reply[c] = "missing"
    /\ outcome[c] = "data" => reply[c] = "found"

IndInv ==
    /\ config \in Config
    /\ pc = [c \in Call |-> pc[c]]
    /\ audit = [c \in Call |-> audit[c]]
    /\ reply = [c \in Call |-> reply[c]]
    /\ outcome = [c \in Call |-> outcome[c]]
    /\ \A c \in Call : CallInv(c)

\* The part of the state that CallInv reads.
decision == <<config, pc, audit, reply, outcome>>

LEMMA InitIndInv == Init => IndInv
  BY DEF Init, IndInv, CallInv, Undecided

\* What a step does to its own call.
Own(c) ==
    /\ pc' = [pc EXCEPT ![c] = pc'[c]]
    /\ audit' = [audit EXCEPT ![c] = audit'[c]]
    /\ reply' = [reply EXCEPT ![c] = reply'[c]]
    /\ outcome' = [outcome EXCEPT ![c] = outcome'[c]]
    /\ UNCHANGED config

LEMMA OwnCall ==
    ASSUME IndInv, NEW c \in Call, Own(c), CallInv(c)'
    PROVE  IndInv'
  <1>1. ASSUME NEW d \in Call, d # c PROVE CallInv(d)'
    <2>1. UNCHANGED <<pc[d], audit[d], reply[d], outcome[d], config>>
      BY <1>1 DEF IndInv, Own
    <2>2. CallInv(d)
      BY DEF IndInv
    <2> QED
      BY <2>1, <2>2 DEF CallInv, Logged, Entitled
  <1>2. \A d \in Call : CallInv(d)'
    BY <1>1
  <1> QED
    BY <1>2 DEF IndInv, Own

\* A record written by an undecided call is its only one.
LEMMA FirstRecord ==
    ASSUME IndInv, NEW c \in Call, pc[c] \in Undecided,
           NEW granted, NEW caller, Log(c, granted, caller)
    PROVE  /\ audit' = [audit EXCEPT ![c] = audit'[c]]
           /\ audit'[c] = <<[granted |-> granted, caller |-> caller]>>
           /\ reply[c] = "-"
  <1>1. audit[c] = <<>> /\ reply[c] = "-"
    BY DEF IndInv, CallInv
  <1>2. audit' = [audit EXCEPT ![c] = <<[granted |-> granted, caller |-> caller]>>]
    BY <1>1 DEF Log
  <1> QED
    BY <1>1, <1>2 DEF IndInv

LEMMA Refusal ==
    ASSUME IndInv, NEW c \in Call, pc[c] \in Undecided, UNCHANGED <<config, outcome>>,
           NEW reason \in Denied, Log(c, FALSE, "None"), Answer(c, reason)
    PROVE  IndInv'
  <1>1. Own(c) /\ pc'[c] = "done" /\ reply'[c] = reason /\ outcome'[c] = outcome[c]
    BY FirstRecord DEF Own, Answer, Go, IndInv
  <1>2. Logged(c, FALSE)'
    <2>1. audit'[c] = <<[granted |-> FALSE, caller |-> "None"]>>
      BY FirstRecord
    <2> QED
      BY <2>1 DEF Logged
  <1>3. reply[c] = "-" /\ CallInv(c)
    BY FirstRecord DEF IndInv
  <1>4. CallInv(c)'
    BY <1>1, <1>2, <1>3 DEF CallInv, Undecided, Denied
  <1> QED
    BY <1>1, <1>4, OwnCall

\* An undecided call goes on undecided.
LEMMA GoesOn ==
    ASSUME IndInv, NEW c \in Call, pc[c] \in Undecided, NEW where \in Undecided,
           where = "serve" => Entitled(c),
           Go(c, where), UNCHANGED <<config, audit, reply, outcome>>
    PROVE  IndInv'
  <1>1. Own(c) /\ pc'[c] = where
    BY DEF Own, Go, IndInv
  <1>2. CallInv(c)'
    BY <1>1 DEF CallInv, IndInv, Undecided, Entitled
  <1> QED
    BY <1>1, <1>2, OwnCall

LEMMA Granted ==
    ASSUME IndInv, NEW c \in Call, pc[c] \in Undecided, Entitled(c), NEW caller,
           Log(c, TRUE, caller), Go(c, "lookup"), UNCHANGED <<config, reply, outcome>>
    PROVE  IndInv'
  <1>1. Own(c) /\ pc'[c] = "lookup" /\ reply'[c] = "-" /\ outcome'[c] = outcome[c]
    BY FirstRecord DEF Own, Go, IndInv
  <1>2. Logged(c, TRUE)'
    BY FirstRecord DEF Logged
  <1>3. CallInv(c)'
    BY <1>1, <1>2, FirstRecord DEF CallInv, IndInv, Undecided, Entitled
  <1> QED
    BY <1>1, <1>3, OwnCall

LEMMA Decided ==
    ASSUME IndInv, NEW c \in Call, pc[c] \in Undecided, NEW count, Decide(c, count),
           UNCHANGED <<config, outcome>>
    PROVE  IndInv'
  <1>1. CASE Go(c, "auth") /\ UNCHANGED <<audit, reply>>
    BY <1>1, GoesOn DEF Undecided
  <1>2. CASE Log(c, FALSE, "None") /\ Answer(c, "rate limited")
    BY <1>2, Refusal DEF Denied
  <1> QED
    BY <1>1, <1>2 DEF Decide

\* What the backend accepts is what the settings ask for.
LEMMA ValidIsEntitled == ASSUME IndInv, NEW c \in Call, Valid(c) PROVE Entitled(c)
  <1>1. config.AUTH_BACKEND \in {"None", "jwt"} /\ config.AUTH_TOKEN \in {"None", "token"}
    BY ConfigAssumption DEF IndInv
  <1> QED
    BY <1>1 DEF Valid, Backend, Entitled

LEMMA ServeStep == ASSUME IndInv, NEW c \in Call, Serve(c) PROVE IndInv'
  <1>1. CASE ReadTime(c) \/ Unlimited(c)
    BY <1>1, GoesOn DEF ReadTime, Unlimited, Undecided, service
  <1>2. CASE Add(c)
    <2>1. CASE Present(slot[c])
      BY <1>2, <2>1, GoesOn DEF Add, Undecided, service
    <2>2. CASE ~Present(slot[c])
      BY <1>2, <2>2, Decided DEF Add, Undecided, service
    <2> QED
      BY <2>1, <2>2
  <1>3. CASE Incr(c)
    <2>1. CASE Present(slot[c])
      BY <1>3, <2>1, Decided DEF Incr, Undecided, service
    <2>2. CASE ~Present(slot[c])
      BY <1>3, <2>2, GoesOn DEF Incr, Undecided, service
    <2> QED
      BY <2>1, <2>2
  <1>4. CASE AddAgain(c)
    BY <1>4, Decided DEF AddAgain, Undecided, service
  <1>5. CASE Authenticate(c)
    <2>1. CASE ~Valid(c)
      BY <1>5, <2>1, Refusal DEF Authenticate, Undecided, Denied, service
    <2>2. CASE Valid(c) /\ config.transport = "http"
      BY <1>5, <2>2, Granted, ValidIsEntitled DEF Authenticate, Undecided, service
    <2>3. CASE Valid(c) /\ config.transport # "http"
      BY <1>5, <2>3, GoesOn, ValidIsEntitled DEF Authenticate, Undecided, service
    <2> QED
      BY <2>1, <2>2, <2>3
  <1>6. CASE GetResource(c)
    <2>1. Entitled(c)
      BY <1>6 DEF GetResource, IndInv, CallInv
    <2> QED
      BY <1>6, <2>1, Granted DEF GetResource, Undecided, service
  <1>7. CASE Lookup(c)
    <2>1. PICK answer \in {"found", "missing", "error"} : Answer(c, answer)
      BY <1>7 DEF Lookup
    <2>2. pc[c] = "lookup" /\ UNCHANGED <<config, audit, outcome>>
      BY <1>7 DEF Lookup, service
    <2>3. Own(c) /\ pc'[c] = "done" /\ reply'[c] = answer
      BY <2>1, <2>2 DEF Own, Answer, Go, IndInv
    <2>4. Logged(c, TRUE)' /\ Entitled(c)'
      BY <2>2 DEF IndInv, CallInv, Logged, Entitled
    <2>5. outcome'[c] \notin {"None", "data"}
      BY <2>2 DEF IndInv, CallInv
    <2>6. CallInv(c)'
      BY <2>3, <2>4, <2>5 DEF CallInv, Undecided
    <2> QED
      BY <2>3, <2>6, OwnCall
  <1> QED
    BY <1>1, <1>2, <1>3, <1>4, <1>5, <1>6, <1>7 DEF Serve

LEMMA FetchStep == ASSUME IndInv, NEW c \in Call, Fetch(c) PROVE IndInv'
  <1>1. CASE Send(c)
    <2>1. CASE Reachable
      BY <1>1, <2>1, GoesOn DEF Send, Undecided, service
    <2>2. CASE ~Reachable
      <3>1. Own(c) /\ pc'[c] = "done" /\ reply'[c] = "unreachable" /\ UNCHANGED <<audit, outcome>>
        BY <1>1, <2>2 DEF Send, Own, Answer, Go, IndInv, service
      <3>2. audit[c] = <<>> /\ outcome[c] = "-"
        BY <1>1 DEF Send, IndInv, CallInv, Undecided
      <3>3. CallInv(c)'
        BY <3>1, <3>2 DEF CallInv, Undecided
      <3> QED
        BY <3>1, <3>3, OwnCall
    <2> QED
      BY <2>1, <2>2
  <1>2. CASE Receive(c) \/ Refuse(c) \/ BreakOff(c) \/ Lost(c) \/ GiveUp(c)
    <2>1. PICK result : End(c, result) /\ (result = "None" => reply[c] = "missing")
                                       /\ (result = "data" => reply[c] = "found")
      <3>1. CASE Receive(c)
        <4> DEFINE result == CASE reply[c] = "found" -> "data"
                               [] reply[c] = "missing" -> "None"
                               [] OTHER -> "Unavailable"
        <4>1. End(c, result)
          BY <3>1 DEF Receive
        <4>2. (result = "None" => reply[c] = "missing") /\ (result = "data" => reply[c] = "found")
          OBVIOUS
        <4> QED
          BY <4>1, <4>2
      <3>2. CASE Refuse(c) \/ Lost(c) \/ GiveUp(c)
        BY <3>2 DEF Refuse, Lost, GiveUp
      <3>3. CASE BreakOff(c)
        BY <3>3 DEF BreakOff
      <3> QED
        BY <1>2, <3>1, <3>2, <3>3
    <2>2. Own(c) /\ outcome'[c] = result /\ UNCHANGED <<pc, audit, reply>>
      BY <2>1 DEF End, Own, IndInv, service
    <2>3. CallInv(c)'
      BY <2>1, <2>2 DEF CallInv, Logged, IndInv, Entitled, Own
    <2> QED
      BY <2>2, <2>3, OwnCall
  <1> QED
    BY <1>1, <1>2 DEF Fetch

\* The process dies with every call that it serves.
LEMMA DieStep == ASSUME IndInv, Die PROVE IndInv'
  <1>1. UNCHANGED <<config, audit, reply, outcome>> /\ pc' = [c \in Call |-> pc'[c]]
    BY DEF Die
  <1>2. ASSUME NEW c \in Call PROVE CallInv(c)'
    <2>1. UNCHANGED <<audit[c], reply[c], outcome[c], config>> /\ CallInv(c)
      BY <1>1 DEF IndInv
    <2>2. CASE pc'[c] = pc[c]
      BY <2>1, <2>2 DEF CallInv, Logged, Entitled
    <2>3. CASE pc'[c] = "dead" /\ pc[c] \in Undecided \cup {"lookup"}
      <3>1. (audit[c] = <<>> \/ Logged(c, TRUE)) /\ reply[c] = "-"
            /\ outcome[c] \notin {"None", "data"}
        BY <2>1, <2>3 DEF CallInv
      <3> QED
        BY <2>1, <2>3, <3>1 DEF CallInv, Logged, Undecided
    <2>4. pc'[c] = IF Served(c) THEN "dead" ELSE pc[c]
      BY DEF Die
    <2>5. Served(c) => pc[c] \in Undecided \cup {"lookup"}
      BY DEF Served, Running, Counting, Undecided
    <2> QED
      BY <2>2, <2>3, <2>4, <2>5
  <1> QED
    BY <1>1, <1>2 DEF IndInv

LEMMA StepIndInv == IndInv /\ [Next]_vars => IndInv'
  <1> SUFFICES ASSUME IndInv, [Next]_vars PROVE IndInv'
    OBVIOUS
  <1>1. CASE UNCHANGED decision
    BY <1>1 DEF decision, IndInv, CallInv, Logged, Entitled
  <1>2. ASSUME NEW c \in Call, Serve(c) \/ Fetch(c) PROVE IndInv'
    BY <1>2, ServeStep, FetchStep
  <1>3. CASE \/ \E w \in Window : ExpireKey(w) \/ EvictKey(w)
             \/ Tick \/ ExpireCredential \/ UNCHANGED vars
    BY <1>1, <1>3 DEF ExpireKey, EvictKey, Tick, ExpireCredential, vars, service, decision
  <1>4. CASE \E s \in Serializer : Expose(s)
    BY <1>1, <1>4 DEF Expose, decision
  <1>5. CASE Lifetime
    <2>1. CASE Die
      BY <2>1, DieStep
    <2>2. CASE Start \/ HandleSignals \/ Stop \/ GraceOver \/ Stopped
      BY <1>1, <2>2 DEF Start, HandleSignals, Stop, GraceOver, Stopped, decision
    <2> QED
      BY <1>5, <2>1, <2>2 DEF Lifetime
  <1> QED
    BY <1>2, <1>3, <1>4, <1>5 DEF Next

LEMMA Invariance == Spec => []IndInv
  BY InitIndInv, StepIndInv, PTL DEF Spec

\* DecisionLogged: one audit record for every decision, saying what was answered.
THEOREM DecisionsAreLogged == Spec => []DecisionLogged
  <1>1. IndInv => DecisionLogged
    <2> SUFFICES ASSUME IndInv, NEW c \in Call
                 PROVE  /\ pc[c] = "done" => Len(audit[c]) = (IF reply[c] = "unreachable" THEN 0 ELSE 1)
                        /\ \A i \in DOMAIN audit[c] : audit[c][i].granted <=>
                              pc[c] \in {"lookup", "dead"} \/ reply[c] \notin Denied \cup NoReply
      BY DEF DecisionLogged
    <2>1. CASE audit[c] = <<>>
      <3>1. pc[c] = "done" => reply[c] = "unreachable"
        BY <2>1 DEF IndInv, CallInv, Logged
      <3>2. DOMAIN audit[c] = {} /\ Len(audit[c]) = 0
        BY <2>1
      <3>3. \A i \in DOMAIN audit[c] : FALSE
        BY <3>2
      <3> QED
        BY <3>1, <3>2, <3>3
    <2>2. CASE pc[c] \in {"lookup", "dead"} /\ Logged(c, TRUE)
      <3>1. DOMAIN audit[c] = {1} /\ audit[c][1].granted = TRUE
        BY <2>2 DEF Logged
      <3>2. pc[c] # "done" /\ \A i \in DOMAIN audit[c] : audit[c][i].granted
        BY <2>2, <3>1
      <3> QED
        BY <2>2, <3>2
    <2>3. CASE pc[c] = "done" /\ reply[c] # "unreachable"
      <3>1. PICK granted \in BOOLEAN :
               /\ \E caller : audit[c] = <<[granted |-> granted, caller |-> caller]>>
               /\ granted <=> reply[c] \notin Denied \cup NoReply
        BY <2>3 DEF IndInv, CallInv, Logged, Denied, NoReply
      <3>2. DOMAIN audit[c] = {1} /\ Len(audit[c]) = 1 /\ audit[c][1].granted = granted
        BY <3>1
      <3>3. \A i \in DOMAIN audit[c] : audit[c][i].granted <=> reply[c] \notin Denied \cup NoReply
        BY <3>1, <3>2
      <3>4. pc[c] \notin {"lookup", "dead"}
        BY <2>3
      <3> QED
        BY <2>3, <3>2, <3>3, <3>4
    <2>4. audit[c] = <<>> \/ (pc[c] \in {"lookup", "dead"} /\ Logged(c, TRUE))
                         \/ (pc[c] = "done" /\ reply[c] # "unreachable")
      BY DEF IndInv, CallInv, Denied, Undecided
    <2> QED
      BY <2>1, <2>2, <2>3, <2>4
  <1> QED
    BY <1>1, Invariance, PTL

\* OutcomeIsHonest: None is the service's word, and data that of a granted call.
THEOREM OutcomesAreHonest == Spec => []OutcomeIsHonest
  <1>1. IndInv => OutcomeIsHonest
    <2> SUFFICES ASSUME IndInv, NEW c \in Call, outcome[c] = "data"
                 PROVE  (\E i \in DOMAIN audit[c] : audit[c][i].granted) /\ Entitled(c)
      BY DEF IndInv, CallInv, OutcomeIsHonest, Entitled
    <2>1. Logged(c, TRUE) /\ Entitled(c)
      BY DEF IndInv, CallInv, Denied, Undecided
    <2>2. 1 \in DOMAIN audit[c] /\ audit[c][1].granted
      BY <2>1 DEF Logged
    <2> QED
      BY <2>1, <2>2
  <1> QED
    BY <1>1, Invariance, PTL

-------------------------------------------------------------------------------
\* Without a fault no call is cut.
GracefulInv ==
    /\ IndInv
    /\ faults \in 0 .. MaxFaults
    /\ faults = MaxFaults => cut = {}
    /\ StopIsGraceful

LEMMA GracefulStep == GracefulInv /\ [Next]_vars => GracefulInv'
  <1> SUFFICES ASSUME GracefulInv, [Next]_vars PROVE GracefulInv'
    OBVIOUS
  <1> USE BoundsAssumption
  <1>1. IndInv'
    BY StepIndInv DEF GracefulInv
  <1>2. CASE faults' = faults - 1 /\ faults > 0
    BY <1>1, <1>2 DEF GracefulInv, StopIsGraceful
  <1>3. ASSUME UNCHANGED <<faults, cut>>,
               \A c \in Call : \/ UNCHANGED <<pc[c], reply[c], outcome[c]>>
                               \/ outcome[c] # "Unavailable" /\ outcome'[c] = outcome[c]
                               \/ pc[c] \in Running /\ outcome'[c] = outcome[c]
        PROVE  GracefulInv'
    BY <1>1, <1>3 DEF GracefulInv, StopIsGraceful, Running, Counting
  <1>4. ASSUME NEW c \in Call, Serve(c) PROVE GracefulInv'
    <2>1. UNCHANGED <<cut, outcome>> /\ pc[c] \in Running /\ (UNCHANGED faults \/ Fault)
      BY <1>4 DEF Serve, ReadTime, Unlimited, Add, Incr, AddAgain, Authenticate, GetResource, Lookup,
                  service, Running, Counting
    <2>2. \A d \in Call \ {c} : UNCHANGED <<pc[d], reply[d]>>
      BY <1>4 DEF Serve, ReadTime, Unlimited, Add, Incr, AddAgain, Authenticate, GetResource, Lookup,
                  Decide, Answer, Go, GracefulInv, IndInv
    <2> QED
      BY <1>2, <1>3, <2>1, <2>2 DEF Fault
  <1>5. ASSUME NEW c \in Call, Send(c) PROVE GracefulInv'
    <2>1. UNCHANGED <<faults, cut, outcome>> /\ outcome[c] = "-"
      BY <1>5 DEF Send, service
    <2>2. \A d \in Call \ {c} : UNCHANGED <<pc[d], reply[d]>>
      BY <1>5 DEF Send, Answer, Go, GracefulInv, IndInv
    <2> QED
      BY <1>3, <2>1, <2>2
  <1>6. ASSUME NEW c \in Call, Receive(c) \/ Lost(c) PROVE GracefulInv'
    <2>1. /\ UNCHANGED <<faults, cut, pc, reply>>
          /\ \A d \in Call \ {c} : outcome'[d] = outcome[d]
      BY <1>6 DEF Receive, Lost, End, service, GracefulInv, IndInv
    <2>2. CASE Receive(c)
      <3>1. pc[c] = "done" /\ reply[c] \in Denied \cup {"found", "missing", "error", "unreachable"}
        BY <2>2 DEF Receive, Answered, GracefulInv, IndInv, CallInv, Undecided
      <3>2. outcome'[c] = "Unavailable" => reply[c] \notin {"found", "missing"}
        BY <2>2 DEF Receive, End, GracefulInv, IndInv
      <3> QED
        BY <1>1, <2>1, <3>1, <3>2 DEF GracefulInv, StopIsGraceful
    <2>3. CASE Lost(c)
      BY <1>1, <2>1, <2>3 DEF Lost, GracefulInv, StopIsGraceful
    <2> QED
      BY <1>6, <2>2, <2>3
  <1>7. ASSUME NEW c \in Call, Refuse(c) \/ BreakOff(c) \/ GiveUp(c) PROVE GracefulInv'
    BY <1>2, <1>7 DEF Refuse, BreakOff, GiveUp, Fault
  <1>8. CASE Lifetime
    <2>1. CASE GraceOver
      BY <1>2, <2>1 DEF GraceOver, Fault
    <2>2. CASE Die
      <3>1. UNCHANGED <<cut, reply, outcome>>
            /\ pc' = [c \in Call |-> IF Served(c) THEN "dead" ELSE pc[c]]
        BY <2>2 DEF Die
      <3>2. CASE UNCHANGED faults
        BY <1>3, <3>1, <3>2 DEF Served
      <3> QED
        BY <1>2, <2>2, <3>2 DEF Die, Fault
    <2>3. CASE Start \/ HandleSignals \/ Stop \/ Stopped
      BY <1>3, <2>3 DEF Start, HandleSignals, Stop, Stopped
    <2> QED
      BY <1>8, <2>1, <2>2, <2>3 DEF Lifetime
  <1>9. ASSUME NEW w \in Window, EvictKey(w) PROVE GracefulInv'
    BY <1>2, <1>9 DEF EvictKey, Fault
  <1>10. CASE \/ \E s \in Serializer : Expose(s)
              \/ \E w \in Window : ExpireKey(w)
              \/ Tick \/ ExpireCredential \/ UNCHANGED vars
    BY <1>3, <1>10 DEF Expose, ExpireKey, Tick, ExpireCredential, vars, service
  <1> QED
    BY <1>4, <1>5, <1>6, <1>7, <1>8, <1>9, <1>10 DEF Next, Fetch

\* StopIsGraceful: a server that is told to stop gives up no call that it serves.
THEOREM StopsAreGraceful == Spec => []StopIsGraceful
  <1>1. Init => GracefulInv
    <2>1. Init => faults \in 0 .. MaxFaults /\ cut = {} /\ StopIsGraceful
      BY BoundsAssumption DEF Init, StopIsGraceful
    <2> QED
      BY <2>1, InitIndInv DEF GracefulInv
  <1>2. GracefulInv => StopIsGraceful
    BY DEF GracefulInv
  <1> QED
    BY <1>1, <1>2, GracefulStep, PTL DEF Spec

-------------------------------------------------------------------------------
(* The budget of a window *)

\* The part of the invariant about one window whose key the cache has not dropped: the
\* key counts every call that has passed, until it times out, when nobody counts any more.
WindowInv(w) ==
    /\ IsFiniteSet(Passed(w)) /\ Cardinality(Passed(w)) <= Limit
    /\ now <= w + 1 => Cardinality(Passed(w)) <= counter[w].count
    /\ Present(w) => counter[w].born >= w
    /\ \A c \in Call : slot[c] = w => /\ pc[c] = "incr" => Present(w)
                                      /\ pc[c] # "again"

BudgetInv ==
    /\ now \in Window
    /\ slot \in [Call -> Window]
    /\ counter \in [Window -> [count : Nat, born : Window]]
    /\ \A c \in Call : pc[c] \in Counting => slot[c] <= now /\ now <= slot[c] + 1
    /\ config.RATE_LIMIT => \A w \in Window \ evicted : WindowInv(w)

LEMMA InitBudget == Init => BudgetInv
  <1> SUFFICES ASSUME Init PROVE BudgetInv
    OBVIOUS
  <1>1. /\ now = 0 /\ slot = [c \in Call |-> 0] /\ counter = [w \in Window |-> NoKey]
        /\ \A c \in Call : pc[c] = "new"
    BY DEF Init
  <1>2. 0 \in Window /\ Limit \in Nat
    BY BoundsAssumption DEF Window
  <1>3. \A w \in Window : Passed(w) = {}
    BY <1>1 DEF Passed
  <1>4. \A w \in Window : WindowInv(w)
    BY <1>1, <1>2, <1>3, FS_EmptySet DEF WindowInv, NoKey, Present
  <1> QED
    BY <1>1, <1>2, <1>4 DEF BudgetInv, NoKey, Counting

\* No call passes, and the counters stay.
LEMMA WindowKept ==
    ASSUME BudgetInv, NEW w \in Window, WindowInv(w), Passed(w)' \subseteq Passed(w),
           counter'[w] = counter[w], now' \in Nat, now' >= now,
           \A c \in Call : slot'[c] = w => /\ pc'[c] = "incr" => Present(w)
                                           /\ pc'[c] # "again"
    PROVE  WindowInv(w)'
  <1>1. /\ IsFiniteSet(Passed(w)') /\ Cardinality(Passed(w)') <= Cardinality(Passed(w))
        /\ Cardinality(Passed(w)') \in Nat /\ Cardinality(Passed(w)) \in Nat
    BY FS_Subset, FS_CardinalityType DEF WindowInv
  <1>2. Limit \in Nat /\ now \in Nat /\ w \in Nat /\ counter[w].count \in Nat
    BY BoundsAssumption DEF BudgetInv, Window
  <1>3. Cardinality(Passed(w)') <= Limit
    BY <1>1, <1>2 DEF WindowInv
  <1>4. now' <= w + 1 => Cardinality(Passed(w)') <= counter'[w].count
    BY <1>1, <1>2 DEF WindowInv
  <1>5. Present(w)' = Present(w)
    BY DEF Present
  <1> QED
    BY <1>1, <1>3, <1>4, <1>5 DEF WindowInv

LEMMA QuietBudget ==
    ASSUME BudgetInv, UNCHANGED <<config, limiter>>, slot' \in [Call -> Window],
           \A c \in Call : pc'[c] \in Counting =>
               \/ pc'[c] = pc[c] /\ slot'[c] = slot[c]
               \/ pc'[c] = "add" /\ slot'[c] = now,
           config.RATE_LIMIT => \A w \in Window : Passed(w)' \subseteq Passed(w)
    PROVE  BudgetInv'
  <1>1. now \in Nat /\ UNCHANGED <<now, counter, evicted, config>>
    BY BoundsAssumption DEF BudgetInv, Window, limiter
  <1>2. \A c \in Call : pc'[c] \in Counting => slot'[c] <= now' /\ now' <= slot'[c] + 1
    BY <1>1 DEF BudgetInv
  <1>3. ASSUME config.RATE_LIMIT, NEW w \in Window \ evicted
        PROVE  WindowInv(w)'
    BY <1>1, <1>3, WindowKept DEF BudgetInv, WindowInv, Counting
  <1> QED
    BY <1>1, <1>2, <1>3 DEF BudgetInv

\* A call counts n in its window, and passes if that is within the limit.
LEMMA DecideBudget ==
    ASSUME IndInv, BudgetInv, NEW c \in Call, pc[c] \in Counting, NEW n, Decide(c, n),
           UNCHANGED <<config, slot, now, evicted>>,
           counter' \in [Window -> [count : Nat, born : Window]],
           \A v \in Window \ {slot[c]} : counter'[v] = counter[v],
           config.RATE_LIMIT /\ slot[c] \notin evicted =>
               /\ n = counter[slot[c]].count + 1 /\ counter'[slot[c]].count = n
               /\ counter'[slot[c]].born >= slot[c]
    PROVE  BudgetInv'
  <1> PICK w \in Window : w = slot[c]
    BY DEF BudgetInv
  <1>1. /\ Limit \in Nat /\ now \in Nat /\ w \in Nat
        /\ \A v \in Window : counter[v].count \in Nat /\ counter'[v].count \in Nat
    <2>1. Limit \in Nat /\ now \in Nat /\ w \in Nat
      BY BoundsAssumption DEF BudgetInv, Window
    <2>2. ASSUME NEW v \in Window PROVE counter[v].count \in Nat /\ counter'[v].count \in Nat
      BY DEF BudgetInv
    <2> QED
      BY <2>1, <2>2
  <1>2. /\ \A d \in Call \ {c} : pc'[d] = pc[d] /\ reply'[d] = reply[d]
        /\ \/ n <= Limit /\ pc'[c] = "auth" /\ reply' = reply
           \/ ~(n <= Limit) /\ pc'[c] = "done" /\ reply'[c] = "rate limited"
    BY DEF Decide, Answer, Go, IndInv
  <1>3. \A v \in Window \ {w} : Passed(v)' \subseteq Passed(v)
    BY <1>2 DEF Passed
  <1>4. /\ Passed(w)' \subseteq Passed(w) \cup {c}
        /\ ~(n <= Limit) => Passed(w)' \subseteq Passed(w)
    BY <1>2 DEF Passed
  <1>5. \A d \in Call : pc'[d] \in Counting => pc'[d] = pc[d]
    BY <1>2 DEF Counting
  <1>6. ASSUME config.RATE_LIMIT, NEW v \in Window \ evicted, v # w
        PROVE  WindowInv(v)'
    <2>1. WindowInv(v) /\ Passed(v)' \subseteq Passed(v) /\ counter'[v] = counter[v]
      BY <1>3, <1>6 DEF BudgetInv
    <2>2. \A d \in Call : slot'[d] = v => (pc'[d] = "incr" => Present(v)) /\ pc'[d] # "again"
      BY <1>5, <2>1 DEF WindowInv, Counting
    <2> QED
      BY <1>1, <2>1, <2>2, WindowKept
  <1>7. ASSUME config.RATE_LIMIT, w \notin evicted
        PROVE  WindowInv(w)'
    <2>1. /\ WindowInv(w) /\ n = counter[w].count + 1 /\ counter'[w].count = n
          /\ counter'[w].born >= w /\ now <= w + 1
      BY <1>7 DEF BudgetInv
    <2>2. /\ IsFiniteSet(Passed(w)) /\ Cardinality(Passed(w)) \in Nat
          /\ Cardinality(Passed(w)) <= Limit /\ Cardinality(Passed(w)) <= counter[w].count
      BY <2>1, FS_CardinalityType DEF WindowInv
    <2>3. /\ IsFiniteSet(Passed(w) \cup {c})
          /\ Cardinality(Passed(w) \cup {c}) \in Nat
          /\ Cardinality(Passed(w) \cup {c}) <= Cardinality(Passed(w)) + 1
      <3>1. /\ IsFiniteSet(Passed(w) \cup {c})
            /\ Cardinality(Passed(w) \cup {c})
                 = IF c \in Passed(w) THEN Cardinality(Passed(w)) ELSE Cardinality(Passed(w)) + 1
        BY <2>2, FS_AddElement
      <3> QED
        BY <2>2, <3>1
    <2>4. /\ IsFiniteSet(Passed(w)') /\ Cardinality(Passed(w)') \in Nat
          /\ Cardinality(Passed(w)') <= Cardinality(Passed(w) \cup {c})
          /\ ~(n <= Limit) => Cardinality(Passed(w)') <= Cardinality(Passed(w))
      BY <1>4, <2>2, <2>3, FS_Subset, FS_CardinalityType
    <2>5. Cardinality(Passed(w)') <= Limit /\ Cardinality(Passed(w)') <= counter'[w].count
      BY <1>1, <2>1, <2>2, <2>3, <2>4
    <2>6. Present(w)'
      BY <1>1, <2>1 DEF Present
    <2>7. \A d \in Call : slot'[d] = w => pc'[d] # "again"
      BY <1>2, <2>1 DEF WindowInv
    <2> QED
      BY <2>1, <2>4, <2>5, <2>6, <2>7 DEF WindowInv
  <1>8. \A d \in Call : pc'[d] \in Counting => slot'[d] <= now' /\ now' <= slot'[d] + 1
    BY <1>5 DEF BudgetInv
  <1> QED
    BY <1>6, <1>7, <1>8 DEF BudgetInv

LEMMA AddBudget == ASSUME IndInv, BudgetInv, NEW c \in Call, Add(c) PROVE BudgetInv'
  <1> PICK w \in Window : w = slot[c]
    BY DEF BudgetInv
  <1>1. /\ pc[c] = "add" /\ UNCHANGED <<config, slot, now, evicted>>
        /\ pc[c] \in Counting
    BY DEF Add, service, Counting
  <1>2. CASE Present(w)
    <2>1. UNCHANGED <<counter, audit, reply>> /\ Go(c, "incr")
      BY <1>2 DEF Add, AddKey
    <2>2. pc'[c] = "incr" /\ \A d \in Call \ {c} : pc'[d] = pc[d]
      BY <2>1 DEF Go, IndInv
    <2>3. \A v \in Window : Passed(v)' \subseteq Passed(v)
      BY <1>1, <2>1, <2>2 DEF Passed
    <2>4. ASSUME config.RATE_LIMIT, NEW v \in Window \ evicted
          PROVE  WindowInv(v)'
      <3>1. WindowInv(v) /\ now' \in Nat /\ now' >= now
        BY <1>1, <2>4, BoundsAssumption DEF BudgetInv, Window
      <3>2. \A d \in Call : slot'[d] = v => (pc'[d] = "incr" => Present(v)) /\ pc'[d] # "again"
        BY <1>1, <1>2, <2>2, <3>1 DEF WindowInv
      <3> QED
        BY <2>1, <2>3, <3>1, <3>2, WindowKept
    <2>5. \A d \in Call : pc'[d] \in Counting => slot'[d] <= now' /\ now' <= slot'[d] + 1
      BY <1>1, <2>2 DEF BudgetInv
    <2> QED
      BY <1>1, <2>1, <2>4, <2>5 DEF BudgetInv
  <1>3. CASE ~Present(w)
    <2>1. counter' = [counter EXCEPT ![w] = [count |-> 1, born |-> now]] /\ Decide(c, 1)
      BY <1>3 DEF Add, AddKey
    <2>2. /\ counter' \in [Window -> [count : Nat, born : Window]]
          /\ \A v \in Window \ {w} : counter'[v] = counter[v]
          /\ counter'[w] = [count |-> 1, born |-> now]
      BY <2>1 DEF BudgetInv
    <2>3. counter[w].count = 0
      BY <1>3 DEF Present, BudgetInv
    <2>4. now >= w
      BY <1>1, BoundsAssumption DEF BudgetInv, Window
    <2> QED
      BY <1>1, <2>1, <2>2, <2>3, <2>4, DecideBudget
  <1> QED
    BY <1>2, <1>3

LEMMA IncrBudget == ASSUME IndInv, BudgetInv, NEW c \in Call, Incr(c) PROVE BudgetInv'
  <1> PICK w \in Window : w = slot[c]
    BY DEF BudgetInv
  <1>1. /\ pc[c] = "incr" /\ UNCHANGED <<config, slot, now, evicted>>
        /\ pc[c] \in Counting
    BY DEF Incr, service, Counting
  <1>2. CASE Present(w)
    <2> PICK k \in Nat, b \in Window : k = counter[w].count /\ b = counter[w].born
      BY DEF BudgetInv
    <2>1. counter' = [counter EXCEPT ![w].count = @ + 1] /\ Decide(c, k + 1)
      BY <1>2 DEF Incr
    <2>2. /\ counter' \in [Window -> [count : Nat, born : Window]]
          /\ \A v \in Window \ {w} : counter'[v] = counter[v]
          /\ counter'[w].count = k + 1 /\ counter'[w].born = b
      BY <2>1 DEF BudgetInv
    <2>3. config.RATE_LIMIT /\ w \notin evicted => b >= w
      BY <1>2 DEF BudgetInv, WindowInv
    <2> QED
      BY <1>1, <2>1, <2>2, <2>3, DecideBudget
  <1>3. CASE ~Present(w)
    <2>1. UNCHANGED <<counter, audit, reply>> /\ Go(c, "again")
      BY <1>3 DEF Incr
    <2>2. pc'[c] = "again" /\ \A d \in Call \ {c} : pc'[d] = pc[d]
      BY <2>1 DEF Go, IndInv
    <2>3. \A v \in Window : Passed(v)' \subseteq Passed(v)
      BY <1>1, <2>1, <2>2 DEF Passed
    <2>4. ASSUME config.RATE_LIMIT, NEW v \in Window \ evicted
          PROVE  WindowInv(v)'
      <3>1. WindowInv(v) /\ now' \in Nat /\ now' >= now
        BY <1>1, <2>4, BoundsAssumption DEF BudgetInv, Window
      <3>2. v # w
        BY <1>1, <1>3, <3>1 DEF WindowInv
      <3>3. \A d \in Call : slot'[d] = v => (pc'[d] = "incr" => Present(v)) /\ pc'[d] # "again"
        BY <1>1, <2>2, <3>1, <3>2 DEF WindowInv
      <3> QED
        BY <2>1, <2>3, <3>1, <3>3, WindowKept
    <2>5. \A d \in Call : pc'[d] \in Counting => slot'[d] <= now' /\ now' <= slot'[d] + 1
      BY <1>1, <2>2 DEF BudgetInv
    <2> QED
      BY <1>1, <2>1, <2>4, <2>5 DEF BudgetInv
  <1> QED
    BY <1>2, <1>3

\* A key that is counted on has not timed out: only one that was evicted is added again.
LEMMA AddAgainBudget == ASSUME IndInv, BudgetInv, NEW c \in Call, AddAgain(c) PROVE BudgetInv'
  <1> PICK w \in Window : w = slot[c]
    BY DEF BudgetInv
  <1>1. /\ pc[c] = "again" /\ UNCHANGED <<config, slot, now, evicted>>
        /\ pc[c] \in Counting /\ Decide(c, 1)
    BY DEF AddAgain, service, Counting
  <1>2. ~(config.RATE_LIMIT /\ w \notin evicted)
    BY <1>1 DEF BudgetInv, WindowInv
  <1>3. counter' = counter \/ counter' = [counter EXCEPT ![w] = [count |-> 1, born |-> now]]
    BY DEF AddAgain, AddKey
  <1>4. /\ counter' \in [Window -> [count : Nat, born : Window]]
        /\ \A v \in Window \ {w} : counter'[v] = counter[v]
    BY <1>3 DEF BudgetInv
  <1> QED
    BY <1>1, <1>2, <1>4, DecideBudget

LEMMA ServeBudget == ASSUME IndInv, BudgetInv, NEW c \in Call, Serve(c) PROVE BudgetInv'
  <1>1. CASE ReadTime(c)
    <2>1. /\ pc[c] = "arrived" /\ slot' = [slot EXCEPT ![c] = now] /\ Go(c, "add")
          /\ UNCHANGED <<config, limiter, reply>>
      BY <1>1 DEF ReadTime, service
    <2>2. /\ slot' \in [Call -> Window] /\ slot'[c] = now /\ pc'[c] = "add"
          /\ \A d \in Call \ {c} : slot'[d] = slot[d] /\ pc'[d] = pc[d]
      BY <2>1 DEF Go, IndInv, BudgetInv
    <2>3. \A w \in Window : Passed(w)' \subseteq Passed(w)
      BY <2>1, <2>2 DEF Passed
    <2> QED
      BY <2>1, <2>2, <2>3, QuietBudget
  <1>2. CASE Unlimited(c) \/ Authenticate(c) \/ GetResource(c) \/ Lookup(c)
    <2>1. UNCHANGED <<config, limiter, slot>>
      BY <1>2 DEF Unlimited, Authenticate, GetResource, Lookup, service
    <2>2. /\ \A d \in Call \ {c} : pc'[d] = pc[d] /\ reply'[d] = reply[d]
          /\ pc'[c] \in {"auth", "serve", "lookup", "done"}
      BY <1>2 DEF Unlimited, Authenticate, GetResource, Lookup, Answer, Go, IndInv
    <2>3. config.RATE_LIMIT => pc[c] \in {"auth", "serve", "lookup"}
      BY <1>2 DEF Unlimited, Authenticate, GetResource, Lookup
    <2>4. config.RATE_LIMIT => \A w \in Window : Passed(w)' \subseteq Passed(w)
      BY <2>1, <2>2, <2>3 DEF Passed
    <2>5. slot' \in [Call -> Window]
      BY <2>1 DEF BudgetInv
    <2>6. \A d \in Call : pc'[d] \in Counting => pc'[d] = pc[d] /\ slot'[d] = slot[d]
      BY <2>1, <2>2 DEF Counting
    <2> QED
      BY <2>1, <2>4, <2>5, <2>6, QuietBudget
  <1> QED
    BY <1>1, <1>2, AddBudget, IncrBudget, AddAgainBudget DEF Serve

\* Time passes, or a key is dropped.
LEMMA LimiterBudget ==
    ASSUME BudgetInv, Tick \/ \E w \in Window : ExpireKey(w) \/ EvictKey(w)
    PROVE  BudgetInv'
  <1>1. UNCHANGED <<config, slot, pc, reply>> /\ now \in Nat
    BY BoundsAssumption DEF Tick, ExpireKey, EvictKey, service, BudgetInv, Window
  <1>2. \A w \in Window : Passed(w)' = Passed(w)
    BY <1>1 DEF Passed
  <1>3. CASE Tick
    <2>1. /\ now' = now + 1 /\ now' \in Window /\ UNCHANGED <<counter, evicted>>
          /\ \A c \in Call : pc[c] \in Counting => slot[c] = now
      BY <1>3, BoundsAssumption DEF Tick, BudgetInv, Window
    <2>2. \A c \in Call : pc'[c] \in Counting => slot'[c] <= now' /\ now' <= slot'[c] + 1
      BY <1>1, <2>1
    <2>3. ASSUME config.RATE_LIMIT, NEW w \in Window \ evicted
          PROVE  WindowInv(w)'
      BY <1>1, <1>2, <2>1, <2>3, WindowKept DEF BudgetInv, WindowInv
    <2> QED
      BY <1>1, <2>1, <2>2, <2>3 DEF BudgetInv
  <1>4. ASSUME NEW w \in Window, ExpireKey(w) \/ EvictKey(w)
        PROVE  BudgetInv'
    <2>1. /\ Present(w) /\ counter' = [counter EXCEPT ![w] = NoKey] /\ now' = now
          /\ evicted \subseteq evicted'
          /\ w \in evicted' \/ now >= counter[w].born + 2
      BY <1>4 DEF ExpireKey, EvictKey, TimeOut
    <2>2. /\ counter' \in [Window -> [count : Nat, born : Window]]
          /\ counter'[w] = NoKey /\ \A v \in Window \ {w} : counter'[v] = counter[v]
      <3>1. NoKey \in [count : Nat, born : Window]
        BY BoundsAssumption DEF NoKey, Window
      <3> QED
        BY <2>1, <3>1 DEF BudgetInv
    <2>3. ASSUME config.RATE_LIMIT, NEW v \in Window \ evicted', v # w
          PROVE  WindowInv(v)'
      BY <1>1, <1>2, <2>1, <2>2, <2>3, WindowKept DEF BudgetInv, WindowInv
    <2>4. ASSUME config.RATE_LIMIT, w \notin evicted'
          PROVE  WindowInv(w)'
      <3>1. WindowInv(w) /\ now >= w + 2 /\ w \in Nat
        <4>1. WindowInv(w) /\ counter[w].born >= w /\ now >= counter[w].born + 2
          BY <2>1, <2>4 DEF BudgetInv, WindowInv
        <4>2. w \in Nat /\ counter[w].born \in Nat
          BY BoundsAssumption DEF BudgetInv, Window
        <4> QED
          BY <1>1, <4>1, <4>2
      <3>2. \A c \in Call : slot[c] = w => pc[c] \notin Counting
        BY <1>1, <3>1 DEF BudgetInv
      <3>3. ~Present(w)'
        BY <2>2 DEF Present, NoKey
      <3>4. ~(now' <= w + 1)
        BY <1>1, <2>1, <3>1
      <3> QED
        BY <1>1, <1>2, <3>1, <3>2, <3>3, <3>4 DEF WindowInv, Counting
    <2>5. \A c \in Call : pc'[c] \in Counting => slot'[c] <= now' /\ now' <= slot'[c] + 1
      BY <1>1, <2>1 DEF BudgetInv
    <2> QED
      BY <1>1, <2>1, <2>2, <2>3, <2>4, <2>5 DEF BudgetInv
  <1> QED
    BY <1>3, <1>4

LEMMA StepBudget == IndInv /\ BudgetInv /\ [Next]_vars => BudgetInv'
  <1> SUFFICES ASSUME IndInv, BudgetInv, [Next]_vars PROVE BudgetInv'
    OBVIOUS
  <1>1. CASE UNCHANGED <<config, limiter, slot, pc, reply>>
    <2>1. \A w \in Window : Passed(w)' = Passed(w)
      BY <1>1 DEF Passed
    <2>2. slot' \in [Call -> Window]
      BY <1>1 DEF BudgetInv
    <2> QED
      BY <1>1, <2>1, <2>2, QuietBudget
  <1>2. ASSUME NEW c \in Call, Send(c)
        PROVE  BudgetInv'
    <2>1. /\ pc[c] = "new" /\ UNCHANGED <<config, limiter, slot>>
          /\ (Go(c, "arrived") /\ UNCHANGED reply) \/ Answer(c, "unreachable")
      BY <1>2 DEF Send, service
    <2>2. /\ \A d \in Call \ {c} : pc'[d] = pc[d] /\ reply'[d] = reply[d]
          /\ pc'[c] = "arrived" \/ (pc'[c] = "done" /\ reply'[c] = "unreachable")
      BY <2>1 DEF Answer, Go, IndInv
    <2>3. \A w \in Window : Passed(w)' \subseteq Passed(w)
      BY <2>1, <2>2 DEF Passed
    <2>4. slot' \in [Call -> Window]
      BY <2>1 DEF BudgetInv
    <2>5. \A d \in Call : pc'[d] \in Counting => pc'[d] = pc[d] /\ slot'[d] = slot[d]
      BY <2>1, <2>2 DEF Counting
    <2> QED
      BY <2>1, <2>3, <2>4, <2>5, QuietBudget
  <1>3. CASE Die
    <2>1. UNCHANGED <<config, limiter, slot, reply>>
      BY <1>3 DEF Die
    <2>2. \A d \in Call : pc'[d] = pc[d] \/ pc'[d] = "dead"
      BY <1>3 DEF Die
    <2>3. \A w \in Window : Passed(w)' \subseteq Passed(w)
      BY <2>1, <2>2 DEF Passed
    <2>4. slot' \in [Call -> Window]
      BY <2>1 DEF BudgetInv
    <2>5. \A d \in Call : pc'[d] \in Counting => pc'[d] = pc[d] /\ slot'[d] = slot[d]
      BY <2>1, <2>2 DEF Counting
    <2> QED
      BY <2>1, <2>3, <2>4, <2>5, QuietBudget
  <1>4. ASSUME NEW c \in Call, Receive(c) \/ Refuse(c) \/ BreakOff(c) \/ Lost(c) \/ GiveUp(c)
        PROVE  BudgetInv'
    BY <1>1, <1>4 DEF Receive, Refuse, BreakOff, Lost, GiveUp, End, service
  <1>5. CASE \/ Start \/ HandleSignals \/ Stop \/ GraceOver \/ Stopped
             \/ \E s \in Serializer : Expose(s)
             \/ ExpireCredential \/ UNCHANGED vars
    BY <1>1, <1>5
    DEF Start, HandleSignals, Stop, GraceOver, Stopped, Expose, ExpireCredential, vars, service
  <1> QED
    BY <1>2, <1>3, <1>4, <1>5, ServeBudget, LimiterBudget DEF Next, Fetch, Lifetime

\* BudgetKept: whatever the interleaving of the server's threads, no more calls pass in a
\* window than RATE_LIMIT allows, unless the cache drops the window's key.
THEOREM BudgetIsKept == Spec => []BudgetKept
  <1>1. BudgetInv => BudgetKept
    BY DEF BudgetInv, WindowInv, BudgetKept
  <1>2. Spec => []BudgetInv
    BY InitIndInv, StepIndInv, InitBudget, StepBudget, PTL DEF Spec
  <1> QED
    BY <1>1, <1>2, PTL
===============================================================================
