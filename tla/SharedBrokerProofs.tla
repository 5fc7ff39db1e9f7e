-------------------------- MODULE SharedBrokerProofs --------------------------
(***************************************************************************)
(* NoLeak and MadeFromCurrent for every number of threads, changes and     *)
(* faults.  The lock lets one thread at a time between the second check    *)
(* and the assignment, so that no broker that is open is overwritten; and  *)
(* the receivers of setting_changed, in their order, leave no thread that  *)
(* loads from the old setting but one that had it to store.                *)
(***************************************************************************)
EXTENDS SharedBroker, TLAPS

Critical == {"check"} \cup Loading

\* Who is in a section under the lock holds it, and who loads has seen no broker.
Exclusion ==
    /\ \A t \in Thread : pc[t] \in Critical => lock = t
    /\ \A t \in Thread : pc[t] \in Loading => broker = None
    /\ change = "close" => lock = Changer

IndInv ==
    /\ pc = [t \in Thread |-> pc[t]]
    /\ made \in Nat
    /\ Exclusion
    /\ NoLeak

LEMMA InitIndInv == Init => IndInv
  BY DEF Init, IndInv, Exclusion, NoLeak, Critical, Loading

\* A thread moves within its section, or outside, and leaves broker and lock alone.
LEMMA Moves ==
    ASSUME IndInv, NEW t \in Thread, NEW where, Go(t, where),
           UNCHANGED <<lock, instances, change>>,
           where \in Critical => lock = t,
           where \in Loading => broker = None
    PROVE  IndInv'
  BY DEF IndInv, Exclusion, NoLeak, Go, instances

\* A thread leaves its section and the lock; broker is what it holds no more.
LEMMA Leaves ==
    ASSUME IndInv, NEW t \in Thread, NEW where, Go(t, where), where \notin Critical,
           lock = t, lock' = Free, UNCHANGED change,
           made' \in Nat, NoLeak'
    PROVE  IndInv'
  <1>1. \A u \in Thread \ {t} : pc[u] \notin Critical
    BY DEF IndInv, Exclusion
  <1>2. \A u \in Thread : pc'[u] \notin Critical
    BY <1>1 DEF IndInv, Go
  <1>3. change # "close"
    BY NamesAssumption DEF IndInv, Exclusion
  <1> QED
    BY <1>2, <1>3 DEF IndInv, Exclusion, Go, Critical

LEMMA Raises == ASSUME IndInv, NEW t \in Thread, pc[t] \in Critical, Raise(t) PROVE IndInv'
  BY Leaves DEF Raise, IndInv, Exclusion, NoLeak, instances, Critical, Loading

LEMMA GetStep == ASSUME IndInv, NEW t \in Thread, Check(t) \/ Get(t) PROVE IndInv'
  <1> USE DEF Critical, Loading
  <1>1. CASE Check(t)
    BY <1>1, Moves DEF Check
  <1>2. CASE Lock(t)
    <2>1. lock = Free /\ lock' = t /\ Go(t, "check") /\ UNCHANGED <<instances, change>>
      BY <1>2 DEF Lock
    <2>2. \A u \in Thread : pc[u] \notin Critical
      BY <2>1, NamesAssumption DEF IndInv, Exclusion
    <2>3. change # "close"
      BY <2>1 DEF IndInv, Exclusion, Free, Changer
    <2> QED
      BY <2>1, <2>2, <2>3 DEF IndInv, Exclusion, NoLeak, Go, instances
  <1>3. CASE CheckAgain(t)
    <2>1. CASE broker = None
      BY <1>3, <2>1, Moves DEF CheckAgain, IndInv, Exclusion
    <2>2. CASE broker # None
      BY <1>3, <2>2, Leaves DEF CheckAgain, IndInv, Exclusion, NoLeak, instances
    <2> QED
      BY <2>1, <2>2
  <1>4. CASE Return(t)
    BY <1>4, Moves DEF Return
  <1>5. CASE LookUp(t)
    BY <1>5, Moves DEF LookUp, IndInv, Exclusion
  <1>6. CASE Hit(t)
    <2>1. CASE cached = Absent
      BY <1>6, <2>1, Raises DEF Hit
    <2>2. CASE cached # Absent
      BY <1>6, <2>2, Moves DEF Hit, IndInv, Exclusion
    <2> QED
      BY <2>1, <2>2
  <1>7. CASE Read(t)
    BY <1>7, Moves DEF Read, IndInv, Exclusion
  <1>8. CASE Store(t)
    BY <1>8, Moves DEF Store, IndInv, Exclusion
  <1>9. CASE Load(t)
    <2>1. broker = None /\ lock = t /\ open = {}
      BY <1>9 DEF Load, IndInv, Exclusion, NoLeak
    <2>2. broker' = made + 1 /\ open' = {made + 1} /\ made' = made + 1
      BY <1>9, <2>1 DEF Load
    <2>3. NoLeak' /\ made' \in Nat
      BY <2>2 DEF NoLeak, None, IndInv
    <2> QED
      BY <1>9, <2>1, <2>3, Leaves DEF Load
  <1>10. CASE LoadRaises(t)
    BY <1>10, Raises DEF LoadRaises
  <1> QED
    BY <1>1, <1>2, <1>3, <1>4, <1>5, <1>6, <1>7, <1>8, <1>9, <1>10 DEF Get

LEMMA ChangeStep ==
    ASSUME IndInv, Change \/ Reload \/ Reset \/ Close \/ CloseRaises PROVE IndInv'
  <1>1. CASE Change \/ Reload
    BY <1>1 DEF Change, Reload, IndInv, Exclusion, NoLeak, instances, threads
  <1>2. CASE Reset
    <2>1. \A t \in Thread : pc[t] \notin Critical
      BY <1>2, NamesAssumption DEF Reset, IndInv, Exclusion
    <2> QED
      BY <1>2, <2>1 DEF Reset, IndInv, Exclusion, NoLeak, Critical, instances, threads
  <1>3. CASE Close \/ CloseRaises
    <2>1. \A t \in Thread : pc[t] \notin Critical
      BY <1>3, NamesAssumption DEF Close, CloseRaises, IndInv, Exclusion
    <2>2. change' = "idle" /\ made' = made /\ pc' = pc /\ NoLeak'
      BY <1>3 DEF Close, CloseRaises, IndInv, NoLeak, instances, threads
    <2> QED
      BY <2>1, <2>2 DEF IndInv, Exclusion, Critical
  <1> QED
    BY <1>1, <1>2, <1>3

LEMMA StepIndInv == IndInv /\ [Next]_vars => IndInv'
  <1> SUFFICES ASSUME IndInv, [Next]_vars PROVE IndInv'
    OBVIOUS
  <1>1. CASE UNCHANGED vars
    BY <1>1 DEF vars, instances, threads, IndInv, Exclusion, NoLeak
  <1> QED
    BY <1>1, GetStep, ChangeStep DEF Next

\* NoLeak: whatever the threads and resets, the only open broker is the shared one.
THEOREM OneConnection == Spec => []NoLeak
  <1>1. IndInv => NoLeak
    BY DEF IndInv
  <1> QED
    BY <1>1, InitIndInv, StepIndInv, PTL DEF Spec

-------------------------------------------------------------------------------
\* The changes that are through.
Done == IF change = "idle" THEN setting ELSE setting - 1

\* Each of them forgot the broker at most once: no more brokers than the model has.
CountInv ==
    /\ change # "idle" => setting > 0
    /\ broker = None => made <= Done
    /\ made <= Done + 1

\* After reload(), and unless a thread was late, nobody has the old setting to store;
\* and when reset_broker() has the lock, nobody has it to load.
FreshInv ==
    /\ ~late /\ change # "reload" =>
          /\ cached \in {Absent, setting}
          /\ \A t \in Thread : pc[t] = "store" => read[t] = setting
    /\ ~late /\ change \in {"idle", "close"} => \A t \in Thread : pc[t] = "load" => read[t] = setting

FullInv == IndInv /\ TypeOK /\ CountInv /\ FreshInv /\ MadeFromCurrent

LEMMA InitFullInv == Init => FullInv
  <1>1. Init => TypeOK
    <2> SUFFICES ASSUME Init PROVE TypeOK
      OBVIOUS
    <2>1. 0 \in Version /\ made = 0 /\ broker = 0 /\ open = {} /\ faults \in 0 .. MaxFaults
         /\ abandoned \in 0 .. MaxFaults - faults
      BY BoundsAssumption DEF Init, Version, None
    <2>2. made \in 0 .. MaxChanges + 1 /\ broker \in 0 .. made
      BY <2>1, BoundsAssumption
    <2>3. madeFrom \in [Broker -> Version] /\ read \in [Thread -> Version]
      BY <2>1 DEF Init
    <2> QED
      BY <2>1, <2>2, <2>3 DEF Init, TypeOK
  <1>2. Init => CountInv /\ FreshInv /\ MadeFromCurrent
    BY BoundsAssumption DEF Init, CountInv, Done, FreshInv, MadeFromCurrent
  <1> QED
    BY <1>1, <1>2, InitIndInv DEF FullInv

\* The parts of FullInv beyond IndInv, in the next state.
LEMMA Combine ==
    ASSUME FullInv, [Next]_vars, TypeOK', CountInv', FreshInv', MadeFromCurrent'
    PROVE  FullInv'
  BY StepIndInv DEF FullInv

LEMMA FullGetStep == ASSUME FullInv, NEW t \in Thread, Check(t) \/ Get(t) PROVE FullInv'
  <1> USE BoundsAssumption DEF Go, None, Version, Absent, Broker, instances, settings, failures
  <1>1. CASE \/ Check(t) \/ Lock(t) \/ CheckAgain(t) \/ Return(t) \/ LookUp(t)
             \/ (Hit(t) /\ cached = Absent) \/ LoadRaises(t)
    <2>1. /\ UNCHANGED <<setting, cached, late, broker, made, madeFrom, open, read, change>>
          /\ \/ faults' = faults /\ abandoned' = abandoned
             \/ faults \in Nat \ {0} /\ faults' = faults - 1 /\ abandoned' \in {abandoned, abandoned + 1}
          /\ \A u \in Thread : pc'[u] \in {"store", "load"} => pc[u] = pc'[u]
      BY <1>1 DEF FullInv, TypeOK, Check, Lock, CheckAgain, Return, LookUp, Hit, LoadRaises, Raise, Fault
    <2>2. lock' \in Thread \cup {Free, Changer}
      BY <1>1 DEF FullInv, TypeOK, Check, Lock, CheckAgain, Return, LookUp, Hit, LoadRaises, Raise
    <2>3. /\ pc' \in [Thread -> {"idle", "lock", "check", "return"} \cup Loading]
          /\ result' \in [Thread -> {"-", "broker", "None", "raised"}]
      BY <1>1 DEF FullInv, TypeOK, Loading, Check, Lock, CheckAgain, Return, LookUp, Hit,
                  LoadRaises, Raise
    <2>4. TypeOK'
      BY <2>1, <2>2, <2>3 DEF FullInv, TypeOK
    <2>5. CountInv' /\ FreshInv' /\ MadeFromCurrent'
      BY <2>1 DEF FullInv, TypeOK, CountInv, Done, FreshInv, MadeFromCurrent
    <2> QED
      BY <1>1, <2>4, <2>5, Combine DEF Next, Get
  <1>2. CASE Hit(t) /\ cached # Absent
    <2>1. TypeOK' /\ CountInv' /\ MadeFromCurrent'
      BY <1>2 DEF FullInv, TypeOK, Loading, CountInv, Done, MadeFromCurrent, Hit
    <2>2. FreshInv'
      BY <1>2 DEF FullInv, TypeOK, Loading, FreshInv, Hit
    <2> QED
      BY <1>2, <2>1, <2>2, Combine DEF Next, Get
  <1>3. CASE Read(t)
    <2>1. TypeOK' /\ CountInv' /\ MadeFromCurrent'
      BY <1>3 DEF FullInv, TypeOK, Loading, CountInv, Done, MadeFromCurrent, Read
    <2>2. FreshInv'
      BY <1>3 DEF FullInv, TypeOK, Loading, FreshInv, Read
    <2> QED
      BY <1>3, <2>1, <2>2, Combine DEF Next, Get
  <1>4. CASE Store(t)
    <2>1. TypeOK' /\ CountInv' /\ MadeFromCurrent'
      BY <1>4 DEF FullInv, TypeOK, Loading, CountInv, Done, MadeFromCurrent, Store
    <2>2. FreshInv'
      BY <1>4 DEF FullInv, TypeOK, Loading, FreshInv, Store
    <2> QED
      BY <1>4, <2>1, <2>2, Combine DEF Next, Get
  <1>5. CASE Load(t)
    <2>1. broker = None
      BY <1>5 DEF FullInv, IndInv, Exclusion, Load, Loading
    <2>2. made \in Nat /\ made + 1 <= MaxChanges + 1 /\ setting \in Nat
      BY <2>1 DEF FullInv, TypeOK, CountInv, Done
    <2>3. broker' = made + 1 /\ made' = made + 1 /\ broker' # None
      BY <1>5, <2>2 DEF Load
    <2>4. TypeOK'
      BY <1>5, <2>2, <2>3 DEF FullInv, TypeOK, Loading, Load
    <2>5. CountInv'
      BY <1>5, <2>1, <2>2, <2>3 DEF FullInv, CountInv, Done, Load
    <2>6. FreshInv'
      BY <1>5 DEF FullInv, TypeOK, Loading, FreshInv, Load
    <2>7. madeFrom'[broker'] = read[t]
      BY <1>5, <2>2, <2>3 DEF FullInv, TypeOK, Load
    <2>8. MadeFromCurrent'
      BY <1>5, <2>7 DEF FullInv, FreshInv, MadeFromCurrent, Load
    <2> QED
      BY <1>5, <2>4, <2>5, <2>6, <2>8, Combine DEF Next, Get
  <1> QED
    BY <1>1, <1>2, <1>3, <1>4, <1>5 DEF Get

LEMMA FullChangeStep ==
    ASSUME FullInv, Change \/ Reload \/ Reset \/ Close \/ CloseRaises PROVE FullInv'
  <1> USE BoundsAssumption DEF None, Version, Absent, Broker, instances, settings, threads, failures
  <1>1. CASE Change
    <2>1. TypeOK' /\ CountInv' /\ FreshInv' /\ MadeFromCurrent'
      BY <1>1 DEF FullInv, TypeOK, CountInv, Done, FreshInv, MadeFromCurrent, Change
    <2> QED
      BY <1>1, <2>1, Combine DEF Next
  <1>2. CASE Reload
    <2>1. late' \in BOOLEAN
      BY <1>2 DEF Reload
    <2>2. TypeOK' /\ CountInv' /\ MadeFromCurrent'
      BY <1>2, <2>1 DEF FullInv, TypeOK, CountInv, Done, MadeFromCurrent, Reload
    <2>3. FreshInv'
      BY <1>2 DEF FreshInv, Reload
    <2> QED
      BY <1>2, <2>2, <2>3, Combine DEF Next
  <1>3. CASE Reset
    <2>1. \A t \in Thread : pc[t] # "load"
      BY <1>3, NamesAssumption DEF Reset, FullInv, IndInv, Exclusion, Critical, Loading
    <2>2. TypeOK' /\ CountInv' /\ MadeFromCurrent'
      BY <1>3 DEF FullInv, TypeOK, CountInv, Done, MadeFromCurrent, Reset
    <2>3. FreshInv'
      BY <1>3, <2>1 DEF FullInv, FreshInv, Reset
    <2> QED
      BY <1>3, <2>2, <2>3, Combine DEF Next
  <1>4. CASE Close
    <2>1. TypeOK' /\ CountInv' /\ FreshInv' /\ MadeFromCurrent'
      BY <1>4 DEF FullInv, TypeOK, CountInv, Done, FreshInv, MadeFromCurrent, Close
    <2> QED
      BY <1>4, <2>1, Combine DEF Next
  <1>5. CASE CloseRaises
    <2>1. TypeOK' /\ CountInv' /\ FreshInv' /\ MadeFromCurrent'
      BY <1>5 DEF FullInv, TypeOK, CountInv, Done, FreshInv, MadeFromCurrent, CloseRaises, Fault
    <2> QED
      BY <1>5, <2>1, Combine DEF Next
  <1> QED
    BY <1>1, <1>2, <1>3, <1>4, <1>5

LEMMA StepFullInv == FullInv /\ [Next]_vars => FullInv'
  <1> SUFFICES ASSUME FullInv, [Next]_vars PROVE FullInv'
    OBVIOUS
  <1>1. CASE UNCHANGED vars
    <2>1. TypeOK' /\ CountInv' /\ FreshInv' /\ MadeFromCurrent'
      BY <1>1 DEF vars, settings, instances, threads, failures, FullInv, TypeOK, CountInv, Done, FreshInv,
                  MadeFromCurrent
    <2> QED
      BY <2>1, Combine
  <1> QED
    BY <1>1, FullGetStep, FullChangeStep DEF Next

LEMMA FullInvariance == Spec => []FullInv
  BY InitFullInv, StepFullInv, PTL DEF Spec

\* Every variable keeps its type: the changes of the setting bound the brokers made.
THEOREM TypeCorrect == Spec => []TypeOK
  <1>1. FullInv => TypeOK
    BY DEF FullInv
  <1> QED
    BY <1>1, FullInvariance, PTL

\* MadeFromCurrent: reload() before reset_broker(), both as soon as the setting has
\* changed, is enough for the next broker to be made from the new one, unless
\* something raised or a thread had the old one to store.
THEOREM BrokerFollowsSetting == Spec => []MadeFromCurrent
  <1>1. FullInv => MadeFromCurrent
    BY DEF FullInv
  <1> QED
    BY <1>1, FullInvariance, PTL
===============================================================================
