--------------------------- MODULE TransportsProofs ---------------------------
(***************************************************************************)
(* ChannelsKept and SafeFromThreads for every number of threads, services  *)
(* and resets.  The lock of a transport lets one thread at a time between  *)
(* the second check and the assignment, so that no open channel is         *)
(* overwritten, and keeps everybody out between the closing of the         *)
(* channels and their clearing; and as long as no reset has begun, the     *)
(* cached transport stays, and its channels stay open.                     *)
(***************************************************************************)
EXTENDS Transports, TLAPS

Holding == {"channel", "channel lock", "make"}

Types ==
    /\ made \in 0 .. MaxResets + 1 /\ cached \in 0 .. made
    /\ channels \in [Transport -> [Service -> 0 .. opened]]
    /\ channelLock = [i \in Transport |-> channelLock[i]]
    /\ opened \in Nat /\ open \subseteq 1 .. opened
    /\ pc = [t \in Thread |-> pc[t]] /\ mine = [t \in Thread |-> mine[t]]
    /\ service \in [Thread -> Service]
    /\ resets \in 0 .. MaxResets

\* Each transport but the first was made after another reset.
Bounded ==
    made <= (IF cached = None THEN resets ELSE resets + 1) - (IF reset = "idle" THEN 0 ELSE 1)

\* Who is in a section under a lock holds it.
Exclusion ==
    /\ \A t \in Thread : pc[t] = "load" => lock = t
    /\ \A t \in Thread : pc[t] \in Holding => mine[t] \in 1 .. made
    /\ \A t \in Thread : pc[t] = "make" => channelLock[mine[t]] = t
    /\ reset \in {"close", "forget", "clear"} => lock = Resetter
    /\ reset \in {"close", "forget"} => cached # None
    /\ reset = "forget" => channelLock[cached] = Resetter

\* What is about to be cleared is closed.
Closed == reset = "forget" => \A s \in Service : channels[cached][s] \notin open

IndInv == Types /\ Bounded /\ Exclusion /\ Closed /\ ChannelsKept

LEMMA MadeInRange == IndInv => \A i \in 1 .. made : i \in Transport
  BY BoundsAssumption DEF IndInv, Types, Transport

LEMMA LocksInRange ==
    IndInv => /\ \A t \in Thread : pc[t] = "make" => mine[t] \in Transport
              /\ reset = "forget" => cached \in Transport
  <1> SUFFICES ASSUME IndInv PROVE /\ \A t \in Thread : pc[t] = "make" => mine[t] \in Transport
                                   /\ reset = "forget" => cached \in Transport
    OBVIOUS
  <1>1. \A t \in Thread : pc[t] = "make" => mine[t] \in Transport
    BY MadeInRange DEF IndInv, Exclusion, Holding
  <1>2. reset = "forget" => cached \in 1 .. made
    BY DEF IndInv, Types, Exclusion, None
  <1> QED
    BY <1>1, <1>2, MadeInRange

LEMMA InitIndInv == Init => IndInv
  BY BoundsAssumption, CallersAssumption
  DEF Init, IndInv, Types, Bounded, Exclusion, Closed, ChannelsKept, Holding, None

\* A thread moves on, and changes nothing that is shared.
LEMMA Moves ==
    ASSUME IndInv, NEW t \in Thread, NEW where, Go(t, where),
           UNCHANGED <<transports, connections, service, reset, resets>>,
           mine' = [mine EXCEPT ![t] = mine'[t]],
           where \notin {"load", "make"},
           where \in Holding => mine'[t] \in 1 .. made
    PROVE  IndInv'
  <1>1. Types' /\ Bounded' /\ Closed' /\ ChannelsKept'
    BY DEF IndInv, Types, Bounded, Closed, ChannelsKept, Go, transports, connections
  <1>2. Exclusion'
    BY DEF IndInv, Types, Exclusion, Go, transports, connections, Holding
  <1> QED
    BY <1>1, <1>2 DEF IndInv

LEMMA Ends ==
    ASSUME IndInv, NEW t \in Thread, NEW how, End(t, how), UNCHANGED <<transports, connections>>
    PROVE  IndInv'
  BY Moves DEF End, resetting, IndInv, Types, Holding

\* A thread leaves the section under the lock of its transport.
LEMMA Releases ==
    ASSUME IndInv, NEW t \in Thread, pc[t] = "make", NEW where, Go(t, where),
           where \notin Holding \cup {"load"},
           Release(t), UNCHANGED <<transports, service, reset, resets>>,
           mine' = [mine EXCEPT ![t] = mine'[t]],
           UNCHANGED <<channels, opened, open>>
    PROVE  IndInv'
  <1>1. Types' /\ Bounded' /\ Closed' /\ ChannelsKept'
    BY DEF IndInv, Types, Bounded, Closed, ChannelsKept, Go, Release, transports
  <1>2. mine[t] \in Transport /\ channelLock[mine[t]] = t
    BY MadeInRange DEF IndInv, Exclusion, Holding
  <1>3. \A u \in Thread \ {t} : pc[u] = "make" => mine[u] # mine[t]
    BY <1>2 DEF IndInv, Exclusion
  <1>4. Exclusion'
    <2>1. \A u \in Thread : pc'[u] = "make" => channelLock'[mine'[u]] = u
      BY <1>2, <1>3, MadeInRange DEF IndInv, Types, Exclusion, Go, Release, Holding
    <2>2. reset' = "forget" => channelLock'[cached'] = Resetter
      BY <1>2, NamesAssumption DEF IndInv, Types, Exclusion, Release, transports
    <2> QED
      BY <2>1, <2>2 DEF IndInv, Types, Exclusion, Go, transports, Holding
  <1> QED
    BY <1>1, <1>4 DEF IndInv

LEMMA LoadStep == ASSUME IndInv, NEW t \in Thread, Load(t) PROVE IndInv'
  <1>1. lock = t /\ lock' = Free /\ Go(t, "get") /\ reset' = reset /\ resets' = resets
        /\ UNCHANGED <<connections, mine, service>>
    BY DEF Load, IndInv, Exclusion, resetting
  <1>2. reset \notin {"close", "forget", "clear"}
    BY <1>1, NamesAssumption DEF IndInv, Exclusion
  <1>3. made \in Nat /\ made' \in Nat /\ made <= made' /\ made' <= MaxResets + 1
        /\ cached' \in 0 .. made' /\ Bounded'
    BY <1>1, BoundsAssumption DEF Load, IndInv, Types, Bounded, None
  <1>4. Types' /\ Closed'
    <2>1. Closed'
      BY <1>1, <1>2 DEF Closed
    <2>2. pc' = [u \in Thread |-> pc'[u]]
      BY <1>1 DEF IndInv, Types, Go
    <2>3. Types'
      <3>1. made' \in 0 .. MaxResets + 1
        BY <1>3, BoundsAssumption
      <3> QED
        BY <1>1, <1>3, <2>2, <3>1 DEF IndInv, Types, connections
    <2> QED
      BY <2>1, <2>3
  <1>5. ChannelsKept'
    BY <1>1, <1>3 DEF IndInv, ChannelsKept, connections
  <1>6. \A u \in Thread : pc'[u] # "load"
    BY <1>1 DEF IndInv, Types, Exclusion, Go
  <1>7. Exclusion'
    <2>11. \A u \in Thread : pc'[u] = "load" => lock' = u
      BY <1>1, <1>2, <1>3, <1>6 DEF IndInv, Types, Exclusion, Go, connections, Holding
    <2>12. \A u \in Thread : pc'[u] \in Holding => mine'[u] \in 1 .. made'
      <3>1. \A u \in Thread : pc'[u] \in Holding => mine'[u] \in 1 .. made
        BY <1>1 DEF IndInv, Types, Exclusion, Go, Holding
      <3> QED
        BY <1>3, <3>1
    <2>13. \A u \in Thread : pc'[u] = "make" => channelLock'[mine'[u]] = u
      BY <1>1, <1>2, <1>3, <1>6, LocksInRange DEF IndInv, Types, Exclusion, Go, connections, Holding
    <2>14. reset' \in {"close", "forget", "clear"} => lock' = Resetter
      BY <1>1, <1>2, <1>3, <1>6 DEF IndInv, Types, Exclusion, Go, connections, Holding
    <2>15. reset' \in {"close", "forget"} => cached' # None
      BY <1>1, <1>2, <1>3, <1>6 DEF IndInv, Types, Exclusion, Go, connections, Holding
    <2>16. reset' = "forget" => channelLock'[cached'] = Resetter
      BY <1>1, <1>2, <1>3, <1>6, LocksInRange DEF IndInv, Types, Exclusion, Go, connections, Holding
    <2> QED
      BY <2>11, <2>12, <2>13, <2>14, <2>15, <2>16 DEF Exclusion
  <1> QED
    BY <1>3, <1>4, <1>5, <1>7 DEF IndInv

\* The channel goes where there was none, and nobody is about to clear it.
LEMMA OpenStep == ASSUME IndInv, NEW t \in Thread, OpenChannel(t) PROVE IndInv'
  <1> DEFINE m == mine[t]
             s == service[t]
  <1>1. /\ pc[t] = "make" /\ m \in 1 .. made /\ m \in Transport /\ s \in Service
        /\ channelLock[m] = t /\ channels[m][s] = None
    BY MadeInRange DEF OpenChannel, Missing, Found, IndInv, Types, Exclusion, Holding
  <1>2. /\ opened' = opened + 1 /\ open' = open \cup {opened + 1}
        /\ channels' = [channels EXCEPT ![m][s] = opened + 1]
        /\ channelLock' = [channelLock EXCEPT ![m] = Free]
        /\ Go(t, "call")
        /\ UNCHANGED <<cached, lock, made, mine, service, reset, resets>>
    BY DEF OpenChannel, Release, transports, resetting
  <1>3. /\ channels' \in [Transport -> [Service -> 0 .. opened']]
        /\ channels'[m][s] = opened + 1
        /\ \A i \in Transport, u \in Service : i # m \/ u # s => channels'[i][u] = channels[i][u]
    BY <1>1, <1>2 DEF IndInv, Types
  <1>4. Types' /\ Bounded'
    <2>1. Bounded'
      BY <1>2 DEF IndInv, Bounded
    <2>2. open' \subseteq 1 .. opened' /\ opened' \in Nat
      BY <1>2 DEF IndInv, Types
    <2>3. /\ pc' = [u \in Thread |-> pc'[u]]
          /\ channelLock' = [i \in Transport |-> channelLock'[i]]
      BY <1>2 DEF IndInv, Types, Go
    <2>4. Types'
      BY <1>2, <1>3, <2>2, <2>3 DEF IndInv, Types
    <2> QED
      BY <2>1, <2>4
  <1>5. ChannelsKept'
    <2> SUFFICES ASSUME NEW c \in open'
                 PROVE  \E i \in 1 .. made' : \E u \in Service : channels'[i][u] = c
      BY DEF ChannelsKept
    <2>1. CASE c = opened + 1
      BY <1>1, <1>2, <1>3, <2>1
    <2>2. CASE c \in open
      <3>1. PICK i \in 1 .. made, u \in Service : channels[i][u] = c
        BY <2>2 DEF IndInv, ChannelsKept
      <3>2. c # None /\ i \in Transport
        BY <2>2, MadeInRange DEF IndInv, Types, None
      <3> QED
        BY <1>1, <1>2, <1>3, <3>1, <3>2
    <2> QED
      BY <1>2, <2>1, <2>2
  <1>6. reset = "forget" => cached # m
    BY <1>1, NamesAssumption DEF IndInv, Exclusion
  <1>7. Closed'
    <2> SUFFICES ASSUME reset = "forget", NEW u \in Service PROVE channels'[cached][u] \notin open'
      BY <1>2 DEF Closed
    <2>1. cached \in Transport /\ channels'[cached][u] = channels[cached][u]
      <3>1. cached \in 1 .. made
        BY DEF IndInv, Types, Exclusion, None
      <3> QED
        BY <1>3, <1>6, <3>1, MadeInRange
    <2>2. channels[cached][u] \notin open /\ channels[cached][u] \in 0 .. opened
      BY <2>1 DEF IndInv, Types, Closed
    <2> QED
      BY <1>2, <2>1, <2>2 DEF IndInv, Types
  <1>8. Exclusion'
    <2>1. \A u \in Thread \ {t} : pc[u] = "make" => mine[u] # m
      BY <1>1 DEF IndInv, Exclusion
    <2>11. \A u \in Thread : pc'[u] = "load" => lock' = u
      BY <1>1, <1>2, <1>6, <2>1 DEF IndInv, Types, Exclusion, Go, Holding
    <2>12. \A u \in Thread : pc'[u] \in Holding => mine'[u] \in 1 .. made'
      BY <1>1, <1>2, <1>6, <2>1 DEF IndInv, Types, Exclusion, Go, Holding
    <2>13. \A u \in Thread : pc'[u] = "make" => channelLock'[mine'[u]] = u
      BY <1>1, <1>2, <1>6, <2>1, LocksInRange DEF IndInv, Types, Exclusion, Go, Holding
    <2>14. reset' \in {"close", "forget", "clear"} => lock' = Resetter
      BY <1>1, <1>2, <1>6, <2>1 DEF IndInv, Types, Exclusion, Go, Holding
    <2>15. reset' \in {"close", "forget"} => cached' # None
      BY <1>1, <1>2, <1>6, <2>1 DEF IndInv, Types, Exclusion, Go, Holding
    <2>16. reset' = "forget" => channelLock'[cached'] = Resetter
      BY <1>1, <1>2, <1>6, <2>1, LocksInRange DEF IndInv, Types, Exclusion, Go, Holding
    <2> QED
      BY <2>11, <2>12, <2>13, <2>14, <2>15, <2>16 DEF Exclusion
  <1> QED
    BY <1>4, <1>5, <1>7, <1>8 DEF IndInv

LEMMA ProceedStep == ASSUME IndInv, NEW t \in Thread, Proceed(t) PROVE IndInv'
  <1>1. CASE Get(t)
    <2>1. CASE cached = None
      BY <1>1, <2>1, Ends DEF Get
    <2>2. CASE cached # None
      <3>1. mine'[t] = cached /\ cached \in 1 .. made
        BY <1>1, <2>2 DEF Get, IndInv, Types, None
      <3> QED
        BY <1>1, <2>2, <3>1, Moves DEF Get, resetting
    <2> QED
      BY <2>1, <2>2
  <1>2. CASE Lock(t)
    <2>1. reset \notin {"close", "forget", "clear"} /\ \A u \in Thread : pc[u] # "load"
      BY <1>2, NamesAssumption DEF Lock, IndInv, Exclusion, Free, Resetter
    <2>2. Types' /\ Bounded' /\ Closed' /\ ChannelsKept'
      BY <1>2 DEF Lock, IndInv, Types, Bounded, Closed, ChannelsKept, Go, connections, resetting
    <2>3. Exclusion'
      BY <1>2, <2>1 DEF Lock, IndInv, Types, Exclusion, Go, connections, resetting, Holding
    <2> QED
      BY <2>2, <2>3 DEF IndInv
  <1>3. CASE Load(t)
    BY <1>3, LoadStep
  <1>4. CASE LookUp(t)
    <2>1. CASE service[t] \in Refused
      BY <1>4, <2>1, Ends DEF LookUp
    <2>2. CASE service[t] \notin Refused
      <3>1. mine'[t] = mine[t] /\ mine[t] \in 1 .. made /\ mine' = [mine EXCEPT ![t] = mine'[t]]
        BY <1>4, <2>2 DEF LookUp, IndInv, Types, Exclusion, Holding
      <3>2. Go(t, "channel lock") \/ Go(t, "call")
        BY <1>4, <2>2 DEF LookUp, Take
      <3> QED
        BY <1>4, <2>2, <3>1, <3>2, Moves DEF LookUp, resetting
    <2> QED
      BY <2>1, <2>2
  <1>5. CASE LockChannels(t)
    <2>1. mine[t] \in 1 .. made /\ mine[t] \in Transport
      BY <1>5, MadeInRange DEF LockChannels, IndInv, Exclusion, Holding
    <2>2. Types' /\ Bounded' /\ Closed' /\ ChannelsKept'
      BY <1>5 DEF LockChannels, IndInv, Types, Bounded, Closed, ChannelsKept, Go, transports, resetting
    <2>3. \A u \in Thread : pc[u] = "make" => mine[u] # mine[t]
      BY <1>5, NamesAssumption DEF LockChannels, IndInv, Exclusion
    <2>4. reset = "forget" => cached # mine[t]
      BY <1>5 DEF LockChannels, IndInv, Exclusion, Free, Resetter
    <2>5. Exclusion'
      <3>11. \A u \in Thread : pc'[u] = "load" => lock' = u
        BY <1>5, <2>1, <2>3, <2>4 DEF LockChannels, IndInv, Types, Exclusion, Go, transports, resetting, Holding
      <3>12. \A u \in Thread : pc'[u] \in Holding => mine'[u] \in 1 .. made'
        BY <1>5, <2>1, <2>3, <2>4 DEF LockChannels, IndInv, Types, Exclusion, Go, transports, resetting, Holding
      <3>13. \A u \in Thread : pc'[u] = "make" => channelLock'[mine'[u]] = u
        BY <1>5, <2>1, <2>3, <2>4, LocksInRange DEF LockChannels, IndInv, Types, Exclusion, Go, transports, resetting, Holding
      <3>14. reset' \in {"close", "forget", "clear"} => lock' = Resetter
        BY <1>5, <2>1, <2>3, <2>4 DEF LockChannels, IndInv, Types, Exclusion, Go, transports, resetting, Holding
      <3>15. reset' \in {"close", "forget"} => cached' # None
        BY <1>5, <2>1, <2>3, <2>4 DEF LockChannels, IndInv, Types, Exclusion, Go, transports, resetting, Holding
      <3>16. reset' = "forget" => channelLock'[cached'] = Resetter
        BY <1>5, <2>1, <2>3, <2>4, LocksInRange DEF LockChannels, IndInv, Types, Exclusion, Go, transports, resetting, Holding
      <3> QED
        BY <3>11, <3>12, <3>13, <3>14, <3>15, <3>16 DEF Exclusion
    <2> QED
      BY <2>2, <2>5 DEF IndInv
  <1>6. CASE Reuse(t)
    BY <1>6, Releases DEF Reuse, Take, resetting, IndInv, Types, Holding
  <1>7. CASE OpenChannel(t)
    BY <1>7, OpenStep
  <1>8. CASE OpenRaises(t)
    BY <1>8, Releases DEF OpenRaises, End, resetting, IndInv, Types, Holding
  <1>9. CASE Call(t)
    <2>1. CASE channel[t] \in open
      BY <1>9, <2>1, Moves DEF Call, resetting, IndInv, Types, Holding
    <2>2. CASE channel[t] \notin open
      BY <1>9, <2>2, Ends DEF Call
    <2> QED
      BY <2>1, <2>2
  <1>10. CASE Return(t)
    BY <1>10, Ends DEF Return
  <1> QED
    BY <1>1, <1>2, <1>3, <1>4, <1>5, <1>6, <1>7, <1>8, <1>9, <1>10 DEF Proceed

\* reload() ends the fetches it hits, and leaves the others as they are.
LEMMA ResetHits ==
    ASSUME Reset
    PROVE  /\ reset = "idle" /\ reset' = "lock" /\ resets < MaxResets /\ resets' = resets + 1
           /\ UNCHANGED <<cached, lock, made, channels, opened, open, service>>
           /\ pc' = [t \in Thread |-> pc'[t]] /\ mine' = [t \in Thread |-> mine'[t]]
           /\ channel' = [t \in Thread |-> channel'[t]] /\ result' = [t \in Thread |-> result'[t]]
           /\ channelLock' = [i \in Transport |-> channelLock'[i]]
           /\ crossed \subseteq crossed'
           /\ \A t \in Thread :
                \/ pc'[t] = "idle" /\ mine'[t] = None /\ t \in crossed'
                \/ /\ pc'[t] = pc[t] /\ mine'[t] = mine[t]
                   /\ channel'[t] = channel[t] /\ result'[t] = result[t]
                   /\ \A i \in Transport : channelLock[i] = t => channelLock'[i] = t
  <1>1. PICK hit \in SUBSET {t \in Thread : AtSettings(t)} :
          /\ pc' = [t \in Thread |-> IF t \in hit THEN "idle" ELSE pc[t]]
          /\ mine' = [t \in Thread |-> IF t \in hit THEN None ELSE mine[t]]
          /\ channel' = [t \in Thread |-> IF t \in hit THEN None ELSE channel[t]]
          /\ result' = [t \in Thread |-> IF t \in hit THEN "KeyError" ELSE result[t]]
          /\ channelLock' = [i \in Transport |-> IF channelLock[i] \in hit THEN Free ELSE channelLock[i]]
          /\ crossed' = crossed \cup hit
    BY DEF Reset
  <1>2. /\ reset = "idle" /\ reset' = "lock" /\ resets < MaxResets /\ resets' = resets + 1
        /\ UNCHANGED <<cached, lock, made, channels, opened, open, service>>
    BY DEF Reset, transports
  <1>3. ASSUME NEW t \in Thread
        PROVE  \/ pc'[t] = "idle" /\ mine'[t] = None /\ t \in crossed'
               \/ /\ pc'[t] = pc[t] /\ mine'[t] = mine[t]
                  /\ channel'[t] = channel[t] /\ result'[t] = result[t]
                  /\ \A i \in Transport : channelLock[i] = t => channelLock'[i] = t
    BY <1>1
  <1>4. /\ pc' = [t \in Thread |-> pc'[t]] /\ mine' = [t \in Thread |-> mine'[t]]
        /\ channel' = [t \in Thread |-> channel'[t]] /\ result' = [t \in Thread |-> result'[t]]
        /\ channelLock' = [i \in Transport |-> channelLock'[i]]
        /\ crossed \subseteq crossed'
    BY <1>1
  <1> QED
    BY <1>2, <1>3, <1>4

LEMMA ResetsStep == ASSUME IndInv, Reset \/ Close PROVE IndInv'
  <1>1. CASE Reset
    <2>1. Types' /\ Bounded' /\ Closed' /\ ChannelsKept'
      BY <1>1, ResetHits, BoundsAssumption DEF IndInv, Types, Bounded, Closed, ChannelsKept
    <2>2. /\ \A t \in Thread : pc'[t] = "load" => lock' = t
          /\ \A t \in Thread : pc'[t] \in Holding => mine'[t] \in 1 .. made'
      BY <1>1, ResetHits DEF IndInv, Exclusion, Holding
    <2>3. \A t \in Thread : pc'[t] = "make" => channelLock'[mine'[t]] = t
      BY <1>1, ResetHits, LocksInRange DEF IndInv, Exclusion
    <2>4. reset' \notin {"close", "forget", "clear"}
      BY <1>1, ResetHits
    <2>5. Exclusion'
      BY <2>2, <2>3, <2>4 DEF Exclusion
    <2> QED
      BY <2>1, <2>5 DEF IndInv
  <1>2. CASE LockTransports
    <2>1. \A t \in Thread : pc[t] # "load"
      BY <1>2, NamesAssumption DEF LockTransports, IndInv, Exclusion
    <2> QED
      BY <1>2, <2>1 DEF LockTransports, ResetStep, IndInv, Types, Bounded, Exclusion, Closed,
                        ChannelsKept, connections, fetches
  <1>3. CASE CloseChannels
    <2>1. /\ cached \in Transport /\ channelLock[cached] = Free
          /\ channelLock' = [channelLock EXCEPT ![cached] = Resetter]
          /\ open' = open \ {channels[cached][s] : s \in Service}
          /\ reset = "close" /\ reset' = "forget"
          /\ UNCHANGED <<cached, lock, made, channels, opened, pc, service, mine, resets>>
      <3>1. cached \in 1 .. made
        BY <1>3 DEF CloseChannels, IndInv, Types, Exclusion, None
      <3> QED
        BY <1>3, <3>1, MadeInRange DEF CloseChannels, ResetStep, IndInv, Exclusion, transports, fetches
    <2>2. \A t \in Thread : pc[t] = "make" => mine[t] # cached
      BY <2>1, NamesAssumption DEF IndInv, Exclusion
    <2>3. Types' /\ Bounded' /\ Closed' /\ ChannelsKept'
      BY <2>1 DEF IndInv, Types, Bounded, Closed, ChannelsKept
    <2>4. Exclusion'
      <3>11. \A u \in Thread : pc'[u] = "load" => lock' = u
        BY <2>1, <2>2 DEF IndInv, Types, Exclusion, Holding
      <3>12. \A u \in Thread : pc'[u] \in Holding => mine'[u] \in 1 .. made'
        BY <2>1, <2>2 DEF IndInv, Types, Exclusion, Holding
      <3>13. \A u \in Thread : pc'[u] = "make" => channelLock'[mine'[u]] = u
        BY <2>1, <2>2, LocksInRange DEF IndInv, Types, Exclusion, Holding
      <3>14. reset' \in {"close", "forget", "clear"} => lock' = Resetter
        BY <2>1, <2>2 DEF IndInv, Types, Exclusion, Holding
      <3>15. reset' \in {"close", "forget"} => cached' # None
        BY <2>1, <2>2 DEF IndInv, Types, Exclusion, Holding
      <3>16. reset' = "forget" => channelLock'[cached'] = Resetter
        BY <2>1, <2>2, LocksInRange DEF IndInv, Types, Exclusion, Holding
      <3> QED
        BY <3>11, <3>12, <3>13, <3>14, <3>15, <3>16 DEF Exclusion
    <2> QED
      BY <2>3, <2>4 DEF IndInv
  <1>4. CASE ForgetChannels
    <2>1. /\ cached \in Transport /\ channelLock[cached] = Resetter
          /\ channelLock' = [channelLock EXCEPT ![cached] = Free]
          /\ channels' = [channels EXCEPT ![cached] = [s \in Service |-> None]]
          /\ reset = "forget" /\ reset' = "clear"
          /\ UNCHANGED <<cached, lock, made, opened, open, pc, service, mine, resets>>
      <3>1. cached \in 1 .. made
        BY <1>4 DEF ForgetChannels, IndInv, Types, Exclusion, None
      <3> QED
        BY <1>4, <3>1, MadeInRange DEF ForgetChannels, ResetStep, IndInv, Exclusion, transports, fetches
    <2>2. \A t \in Thread : pc[t] = "make" => mine[t] # cached
      BY <2>1, NamesAssumption DEF IndInv, Exclusion
    <2>3. Types' /\ Bounded' /\ Closed'
      <3>1. Bounded' /\ Closed'
        BY <2>1 DEF IndInv, Bounded, Closed
      <3>2. [s \in Service |-> None] \in [Service -> 0 .. opened]
        BY DEF IndInv, Types, None
      <3>3. Types'
        BY <2>1, <3>2 DEF IndInv, Types
      <3> QED
        BY <3>1, <3>3
    <2>4. ChannelsKept'
      <3> SUFFICES ASSUME NEW c \in open
                   PROVE  \E i \in 1 .. made : \E s \in Service : channels'[i][s] = c
        BY <2>1 DEF ChannelsKept
      <3>1. PICK i \in 1 .. made, s \in Service : channels[i][s] = c
        BY DEF IndInv, ChannelsKept
      <3>2. i # cached
        BY <2>1, <3>1 DEF IndInv, Closed
      <3> QED
        BY <2>1, <3>1, <3>2 DEF IndInv, Types, Transport
    <2>5. Exclusion'
      <3>11. \A u \in Thread : pc'[u] = "load" => lock' = u
        BY <2>1, <2>2 DEF IndInv, Types, Exclusion, Holding
      <3>12. \A u \in Thread : pc'[u] \in Holding => mine'[u] \in 1 .. made'
        BY <2>1, <2>2 DEF IndInv, Types, Exclusion, Holding
      <3>13. \A u \in Thread : pc'[u] = "make" => channelLock'[mine'[u]] = u
        BY <2>1, <2>2, LocksInRange DEF IndInv, Types, Exclusion, Holding
      <3>14. reset' \in {"close", "forget", "clear"} => lock' = Resetter
        BY <2>1, <2>2 DEF IndInv, Types, Exclusion, Holding
      <3>15. reset' \in {"close", "forget"} => cached' # None
        BY <2>1, <2>2 DEF IndInv, Types, Exclusion, Holding
      <3>16. reset' = "forget" => channelLock'[cached'] = Resetter
        BY <2>1, <2>2, LocksInRange DEF IndInv, Types, Exclusion, Holding
      <3> QED
        BY <3>11, <3>12, <3>13, <3>14, <3>15, <3>16 DEF Exclusion
    <2> QED
      BY <2>3, <2>4, <2>5 DEF IndInv
  <1>5. CASE ClearTransports
    <2>1. \A t \in Thread : pc[t] # "load"
      BY <1>5, NamesAssumption DEF ClearTransports, IndInv, Exclusion
    <2> QED
      BY <1>5, <2>1 DEF ClearTransports, ResetStep, IndInv, Types, Bounded, Exclusion, Closed,
                        ChannelsKept, connections, fetches, None
  <1> QED
    BY <1>1, <1>2, <1>3, <1>4, <1>5 DEF Close

LEMMA StepIndInv == IndInv /\ [Next]_vars => IndInv'
  <1> SUFFICES ASSUME IndInv, [Next]_vars PROVE IndInv'
    OBVIOUS
  <1>1. ASSUME NEW t \in Thread, Fetch(t) PROVE IndInv'
    BY <1>1, Moves DEF Fetch, IndInv, Types, Holding
  <1>2. CASE UNCHANGED vars
    BY <1>2 DEF vars, transports, connections, fetches, resetting, IndInv, Types, Bounded,
                Exclusion, Closed, ChannelsKept
  <1> QED
    BY <1>1, <1>2, ProceedStep, ResetsStep DEF Next

\* ChannelsKept: whatever the threads and resets, each open channel is in a cache.
THEOREM NoChannelIsLost == Spec => []ChannelsKept
  <1>1. IndInv => ChannelsKept
    BY DEF IndInv
  <1> QED
    BY <1>1, InitIndInv, StepIndInv, PTL DEF Spec

-------------------------------------------------------------------------------
Quiet == reset \in {"idle", "lock"}
Beginning == {"idle", "lock", "load", "get"}
Spoiled == {"KeyError", "ValueError", "Unavailable"}

\* A thread has its transport only from load_transport() on.
MineInv(t) == pc[t] \in Beginning => mine[t] = None

\* What a fetch that no reset has crossed can rely on.
SafeInv(t) ==
    /\ pc[t] # "idle" => Quiet
    /\ result[t] \notin Spoiled
    /\ mine[t] # None => mine[t] = cached
    /\ pc[t] = "get" => cached # None
    /\ pc[t] \in Holding \cup {"call", "wait"} => mine[t] = cached /\ cached # None
    /\ pc[t] \in {"call", "wait"} => channel[t] \in open

\* The channels of the cached transport are open, and a new transport has none.
CachedOpen ==
    /\ Quiet /\ cached # None => \A s \in Service : channels[cached][s] \in open \cup {None}
    /\ \A i \in Transport, s \in Service : i > made => channels[i][s] = None

SafetyInv ==
    /\ IndInv /\ CachedOpen
    /\ channel = [t \in Thread |-> channel[t]] /\ result = [t \in Thread |-> result[t]]
    /\ \A t \in Thread : MineInv(t)
    /\ \A t \in Thread \ crossed : SafeInv(t)

LEMMA InitSafetyInv == Init => SafetyInv
  BY InitIndInv DEF Init, SafetyInv, CachedOpen, MineInv, SafeInv, None, Holding, Spoiled

\* What a step leaves to the threads other than t.
Others(t) ==
    /\ pc' = [pc EXCEPT ![t] = pc'[t]] /\ mine' = [mine EXCEPT ![t] = mine'[t]]
    /\ channel' = [channel EXCEPT ![t] = channel'[t]]
    /\ result' = [result EXCEPT ![t] = result'[t]]
    /\ UNCHANGED <<reset, crossed>>

\* A thread moves, and the caches stay as they are, or a channel is added.
LEMMA SafeMove ==
    ASSUME SafetyInv, NEW t \in Thread, IndInv', Others(t), UNCHANGED cached, open \subseteq open',
           CachedOpen', MineInv(t)', t \notin crossed => SafeInv(t)'
    PROVE  SafetyInv'
  <1>1. /\ channel' = [u \in Thread |-> channel'[u]] /\ result' = [u \in Thread |-> result'[u]]
        /\ \A u \in Thread \ {t} : UNCHANGED <<pc[u], mine[u], channel[u], result[u]>>
    BY DEF SafetyInv, Others, IndInv, Types
  <1>2. ASSUME NEW u \in Thread PROVE MineInv(u)'
    BY <1>1 DEF SafetyInv, MineInv
  <1>3. ASSUME NEW u \in Thread \ crossed PROVE SafeInv(u)'
    <2>1. CASE u = t
      BY <2>1
    <2>2. CASE u # t
      BY <1>1, <2>2 DEF SafetyInv, SafeInv, Others, Quiet
    <2> QED
      BY <2>1, <2>2
  <1> QED
    BY <1>1, <1>2, <1>3 DEF SafetyInv, Others

\* The steps of a thread that change nothing but where it is and what it has.
LEMMA LocalStep ==
    ASSUME SafetyInv, NEW t \in Thread, IndInv',
           Get(t) \/ Lock(t) \/ LookUp(t) \/ LockChannels(t) \/ Reuse(t) \/ OpenRaises(t)
           \/ Call(t) \/ Return(t)
    PROVE  SafetyInv'
  <1> USE DEF Go, End, transports, connections, resetting
  <1>1. UNCHANGED <<cached, made, channels, open, reset, crossed>>
    BY DEF Get, Lock, LookUp, LockChannels, Reuse, OpenRaises, Call, Return
  <1>2. Others(t)
    BY <1>1 DEF Get, Lock, LookUp, LockChannels, Reuse, OpenRaises, Call, Return, Take, Others,
                SafetyInv, IndInv, Types
  <1>3. CachedOpen' /\ open \subseteq open'
    BY <1>1 DEF SafetyInv, CachedOpen, Quiet
  <1>4. MineInv(t)'
    BY DEF Get, Lock, LookUp, LockChannels, Reuse, OpenRaises, Call, Return, Take, SafetyInv,
           MineInv, Beginning, IndInv, Types, Exclusion
  <1>5. ASSUME t \notin crossed PROVE SafeInv(t)'
    <2>1. SafeInv(t) /\ MineInv(t) /\ service[t] \in Service
      BY <1>5 DEF SafetyInv, IndInv, Types
    <2>2. pc[t] \in Holding => Found(t) \in open \cup {None}
      BY <2>1 DEF SafetyInv, SafeInv, CachedOpen, Found, Holding
    <2>3. CASE Get(t) \/ Lock(t)
      BY <1>1, <2>1, <2>3 DEF Get, Lock, SafeInv, MineInv, Beginning, Holding, Spoiled, Quiet,
                              SafetyInv, IndInv, Types
    <2>4. CASE LookUp(t)
      BY <1>1, <2>1, <2>2, <2>4 DEF LookUp, Take, SafeInv, Holding, Spoiled, Quiet, SafetyInv,
                                    IndInv, Types
    <2>5. CASE LockChannels(t) \/ Reuse(t) \/ OpenRaises(t)
      BY <1>1, <2>1, <2>2, <2>5 DEF LockChannels, Reuse, OpenRaises, Take, SafeInv, Holding,
                                    Spoiled, Quiet, SafetyInv, IndInv, Types
    <2>6. CASE Call(t) \/ Return(t)
      BY <1>1, <2>1, <2>6 DEF Call, Return, SafeInv, Holding, Spoiled, Quiet, SafetyInv, IndInv, Types
    <2> QED
      BY <2>3, <2>4, <2>5, <2>6
  <1> QED
    BY <1>1, <1>2, <1>3, <1>4, <1>5, SafeMove

LEMMA OpenSafely ==
    ASSUME SafetyInv, NEW t \in Thread, IndInv', OpenChannel(t) PROVE SafetyInv'
  <1> DEFINE m == mine[t]
             s == service[t]
  <1>1. m \in 1 .. made /\ m \in Transport /\ s \in Service
    BY MadeInRange DEF OpenChannel, SafetyInv, IndInv, Types, Exclusion, Holding
  <1>2. /\ open' = open \cup {opened + 1} /\ channels' = [channels EXCEPT ![m][s] = opened + 1]
        /\ pc'[t] = "call" /\ channel'[t] = opened + 1
        /\ UNCHANGED <<cached, made, reset, crossed, mine, result>> /\ Others(t)
    BY DEF OpenChannel, Go, Others, transports, resetting, SafetyInv, IndInv, Types
  <1>3. \A i \in Transport, u \in Service :
          channels'[i][u] = channels[i][u] \/ (i = m /\ channels'[i][u] = opened + 1)
    BY <1>1, <1>2 DEF SafetyInv, IndInv, Types
  <1>4. CachedOpen'
    <2>1. ASSUME NEW i \in Transport, NEW u \in Service, i > made PROVE channels'[i][u] = None
      BY <1>1, <1>3, <2>1 DEF SafetyInv, CachedOpen, IndInv, Types
    <2>2. ASSUME Quiet, cached # None, NEW u \in Service
          PROVE  channels'[cached][u] \in open' \cup {None}
      <3>1. cached \in Transport
        BY <2>2, MadeInRange DEF SafetyInv, IndInv, Types, None
      <3> QED
        BY <1>2, <1>3, <2>2, <3>1 DEF SafetyInv, CachedOpen
    <2> QED
      BY <1>2, <2>1, <2>2 DEF CachedOpen, Quiet
  <1>5. t \notin crossed => SafeInv(t)'
    BY <1>2 DEF OpenChannel, SafetyInv, SafeInv, Holding, Quiet
  <1>6. MineInv(t)'
    BY <1>2 DEF MineInv, Beginning
  <1> QED
    BY <1>2, <1>4, <1>5, <1>6, SafeMove

\* A transport is made only when there is none, and then nobody has one.
LEMMA LoadSafely == ASSUME SafetyInv, NEW t \in Thread, IndInv', Load(t) PROVE SafetyInv'
  <1>1. /\ UNCHANGED <<channels, open, reset, crossed, mine, channel, result>>
        /\ pc[t] = "load" /\ pc' = [pc EXCEPT ![t] = "get"]
    BY DEF Load, Go, connections, resetting
  <1>2. /\ cached' # None /\ made \in Nat /\ made' \in Nat /\ made <= made'
        /\ cached # None => cached' = cached /\ made' = made
        /\ cached = None => cached' = made + 1 /\ made' = made + 1
    BY DEF Load, SafetyInv, IndInv, Types, None
  <1>3. CachedOpen'
    <2>1. CASE cached # None
      BY <1>1, <1>2, <2>1 DEF SafetyInv, CachedOpen, Quiet
    <2>2. CASE cached = None
      <3>1. cached' \in Transport
        BY <1>2, <2>2, BoundsAssumption DEF IndInv, Types, Transport
      <3>2. \A u \in Service : channels[cached'][u] = None
        BY <1>2, <2>2, <3>1 DEF SafetyInv, CachedOpen
      <3>3. \A i \in Transport : i > made' => i > made
        BY <1>2 DEF Transport
      <3> QED
        BY <1>1, <3>2, <3>3 DEF SafetyInv, CachedOpen
    <2> QED
      BY <2>1, <2>2
  <1>4. ASSUME NEW u \in Thread PROVE MineInv(u)'
    BY <1>1 DEF SafetyInv, MineInv, Beginning, IndInv, Types
  <1>5. ASSUME NEW u \in Thread \ crossed PROVE SafeInv(u)'
    BY <1>1, <1>2 DEF SafetyInv, SafeInv, MineInv, Beginning, Holding, Quiet, IndInv, Types
  <1> QED
    BY <1>1, <1>3, <1>4, <1>5 DEF SafetyInv

LEMMA FetchSafely == ASSUME SafetyInv, NEW t \in Thread, IndInv', Fetch(t) PROVE SafetyInv'
  <1>1. /\ UNCHANGED <<cached, made, channels, open, reset, mine, channel>>
        /\ pc[t] = "idle" /\ pc' = [pc EXCEPT ![t] = IF cached = None THEN "lock" ELSE "get"]
        /\ result' = [result EXCEPT ![t] = "-"]
        /\ crossed' = IF Quiet THEN crossed \ {t} ELSE crossed \cup {t}
    BY DEF Fetch, Go, Quiet, transports, connections
  <1>2. CachedOpen'
    BY <1>1 DEF SafetyInv, CachedOpen, Quiet
  <1>3. ASSUME NEW u \in Thread PROVE MineInv(u)'
    BY <1>1 DEF SafetyInv, MineInv, Beginning, IndInv, Types
  <1>4. ASSUME NEW u \in Thread \ crossed' PROVE SafeInv(u)'
    <2>1. CASE u = t
      BY <1>1, <2>1 DEF SafetyInv, SafeInv, MineInv, Beginning, Holding, Quiet, IndInv, Types, Spoiled
    <2>2. CASE u # t
      BY <1>1, <2>2 DEF SafetyInv, SafeInv, Quiet, IndInv, Types
    <2> QED
      BY <2>1, <2>2
  <1> QED
    BY <1>1, <1>2, <1>3, <1>4 DEF SafetyInv

\* Once a reset has begun, the fetches that it has not crossed are over.
LEMMA ResetSafely == ASSUME SafetyInv, IndInv', Reset \/ Close PROVE SafetyInv'
  <1>2. CASE Reset
    <2>1. UNCHANGED <<cached, channels, open, made>> /\ Quiet /\ Quiet'
      BY <1>2, ResetHits DEF Quiet
    <2>2. CachedOpen'
      BY <2>1 DEF SafetyInv, CachedOpen
    <2>3. ASSUME NEW t \in Thread PROVE MineInv(t)'
      BY <1>2, ResetHits DEF SafetyInv, MineInv
    <2>4. ASSUME NEW t \in Thread \ crossed' PROVE SafeInv(t)'
      <3>1. SafeInv(t) /\ pc'[t] = pc[t] /\ mine'[t] = mine[t] /\ channel'[t] = channel[t]
            /\ result'[t] = result[t]
        BY <1>2, ResetHits DEF SafetyInv
      <3> QED
        BY <2>1, <3>1 DEF SafeInv
    <2> QED
      BY <1>2, <2>2, <2>3, <2>4, ResetHits DEF SafetyInv
  <1>3. CASE Close
    <2> USE DEF Close
    <2>0. UNCHANGED <<pc, mine, channel, result, made>>
      BY <1>3 DEF LockTransports, CloseChannels, ForgetChannels, ClearTransports, ResetStep,
                  fetches, transports
    <2>1. crossed' = crossed \cup {t \in Thread : pc[t] # "idle"}
      BY <1>3 DEF LockTransports, CloseChannels, ForgetChannels, ClearTransports, ResetStep
    <2>2. ASSUME NEW t \in Thread \ crossed' PROVE SafeInv(t)'
      BY <2>0, <2>1 DEF SafetyInv, SafeInv, MineInv, Beginning, Holding
    <2>3. CachedOpen'
      <3>1. \A i \in Transport, s \in Service : channels'[i][s] \in {channels[i][s], None}
        BY <1>3 DEF LockTransports, CloseChannels, ForgetChannels, ClearTransports,
                    connections, SafetyInv, IndInv, Types
      <3>2. ~Quiet' \/ cached' = None
        BY <1>3 DEF LockTransports, CloseChannels, ForgetChannels, ClearTransports,
                    ResetStep, Quiet
      <3> QED
        BY <2>0, <3>1, <3>2 DEF SafetyInv, CachedOpen
    <2> QED
      BY <2>0, <2>2, <2>3 DEF SafetyInv, MineInv
  <1> QED
    BY <1>2, <1>3

LEMMA StepSafetyInv == SafetyInv /\ [Next]_vars => SafetyInv'
  <1> SUFFICES ASSUME SafetyInv, [Next]_vars PROVE SafetyInv'
    OBVIOUS
  <1>1. IndInv'
    BY StepIndInv DEF SafetyInv
  <1>2. ASSUME NEW t \in Thread, Fetch(t) \/ Proceed(t) PROVE SafetyInv'
    BY <1>1, <1>2, FetchSafely, LoadSafely, OpenSafely, LocalStep DEF Proceed
  <1>3. CASE UNCHANGED vars
    BY <1>1, <1>3 DEF vars, transports, connections, fetches, resetting, SafetyInv, CachedOpen,
                      MineInv, SafeInv, Quiet
  <1> QED
    BY <1>1, <1>2, <1>3, ResetSafely DEF Next

\* SafeFromThreads: a fetch that no reset has crossed never fails for what others do.
THEOREM FetchesAreSafe == Spec => []SafeFromThreads
  <1>1. SafetyInv => SafeFromThreads
    BY DEF SafetyInv, SafeInv, SafeFromThreads, Spoiled
  <1> QED
    BY <1>1, InitSafetyInv, StepSafetyInv, PTL DEF Spec
===============================================================================
