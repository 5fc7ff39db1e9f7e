------------------------------ MODULE SharedBroker ------------------------------
(***************************************************************************)
(* The broker a process shares between its threads (brokers/utils.py), and *)
(* the setting it is made from (settings.py), when the setting changes.    *)
(***************************************************************************)
EXTENDS Naturals

CONSTANTS
    Thread,      \* the threads that call get_broker()
    MaxChanges,  \* bound of the model on the changes of EVENT_BUS
    MaxFaults    \* bound of the model on the faults of a behaviour

ASSUME BoundsAssumption == MaxChanges \in Nat /\ MaxFaults \in Nat

Broker == 1 .. MaxChanges + 1   \* the instances, in the order they are made
None == 0
Absent == MaxChanges + 1    \* no version
Free == "free"
Changer == "setting_changed"   \* the thread that changes the setting
ASSUME NamesAssumption == Free \notin Thread /\ Changer \notin Thread

VARIABLES
    setting,   \* the version of settings.EVENT_BUS
    cached,    \* app_settings._cache: the version in it, or Absent
    late,      \* did a thread have the old version to store when reload() ran?
    broker,    \* _broker
    lock,      \* who holds _broker_lock
    made,      \* how many brokers have been made
    madeFrom,  \* broker -> the version it was made from
    open,      \* the brokers whose connection is open
    pc,        \* thread -> where it is in get_broker()
    read,      \* thread -> the version it has read
    result,    \* thread -> what its last get_broker() returned
    change,    \* where the change of the setting is
    abandoned, \* how many connections were opened by a constructor that raised afterwards
    faults

settings == <<setting, cached, late>>
instances == <<broker, made, madeFrom, open>>
threads == <<pc, read, result>>
failures == <<abandoned, faults>>
vars == <<settings, lock, instances, threads, change, failures>>

Version == 0 .. MaxChanges
Loading == {"lookup", "hit", "read", "store", "load"}

TypeOK ==
    /\ setting \in Version /\ cached \in Version \cup {Absent} /\ late \in BOOLEAN
    /\ lock \in Thread \cup {Free, Changer}
    /\ made \in 0 .. MaxChanges + 1
    /\ broker \in 0 .. made
    /\ madeFrom \in [Broker -> Version]
    /\ open \subseteq 1 .. made
    /\ pc \in [Thread -> {"idle", "lock", "check", "return"} \cup Loading]
    /\ read \in [Thread -> Version]
    /\ result \in [Thread -> {"-", "broker", "None", "raised"}]
    /\ change \in {"idle", "reload", "reset", "close"}
    /\ faults \in 0 .. MaxFaults /\ abandoned \in 0 .. MaxFaults - faults

Init ==
    /\ setting = 0 /\ cached = Absent /\ late = FALSE
    /\ broker = None
    /\ lock = Free
    /\ made = 0
    /\ madeFrom = [b \in Broker |-> 0]
    /\ open = {}
    /\ pc = [t \in Thread |-> "idle"]
    /\ read = [t \in Thread |-> 0]
    /\ result = [t \in Thread |-> "-"]
    /\ change = "idle"
    /\ faults = MaxFaults /\ abandoned = 0

Fault == faults > 0 /\ faults' = faults - 1
Go(t, where) == pc' = [pc EXCEPT ![t] = where]

-------------------------------------------------------------------------------
(* get_broker() *)

Check(t) ==
    /\ pc[t] = "idle"
    /\ Go(t, IF broker = None THEN "lock" ELSE "return")
    /\ UNCHANGED <<settings, lock, instances, read, result, change, failures>>

Lock(t) ==
    /\ pc[t] = "lock" /\ lock = Free
    /\ lock' = t
    /\ Go(t, "check")
    /\ UNCHANGED <<settings, instances, read, result, change, failures>>

\* A bug: the lock without the second check.
CheckAgain_Not(t) ==
    /\ pc[t] = "check"
    /\ Go(t, "lookup")
    /\ UNCHANGED <<settings, lock, instances, read, result, change, failures>>

CheckAgain(t) ==
    /\ pc[t] = "check"
    /\ IF broker = None THEN Go(t, "lookup") /\ UNCHANGED lock
       ELSE Go(t, "return") /\ lock' = Free
    /\ UNCHANGED <<settings, instances, read, result, change, failures>>

\* The return reads _broker once more, without the lock.
Return(t) ==
    /\ pc[t] = "return"
    /\ result' = [result EXCEPT ![t] = IF broker = None THEN "None" ELSE "broker"]
    /\ Go(t, "idle")
    /\ UNCHANGED <<settings, lock, instances, read, change, failures>>

\* A bug: acquire() and release() without a finally.
Raise_KeepsLock(t) ==
    /\ result' = [result EXCEPT ![t] = "raised"]
    /\ Go(t, "idle")
    /\ UNCHANGED <<settings, lock, instances, read, change>>

\* An exception releases the lock.
Raise(t) ==
    /\ result' = [result EXCEPT ![t] = "raised"]
    /\ Go(t, "idle")
    /\ lock' = Free
    /\ UNCHANGED <<settings, instances, read, change>>

-------------------------------------------------------------------------------
(* load_broker(), and LazySettings.__getattr__() on the way *)

\* if attr in self._cache
LookUp(t) ==
    /\ pc[t] = "lookup"
    /\ Go(t, IF cached = Absent THEN "read" ELSE "hit")
    /\ UNCHANGED <<settings, lock, instances, read, result, change, failures>>

\* return self._cache[attr]: KeyError if reload() was faster.
Hit(t) ==
    /\ pc[t] = "hit"
    /\ IF cached = Absent THEN Raise(t)
       ELSE /\ read' = [read EXCEPT ![t] = cached]
            /\ Go(t, "load")
            /\ UNCHANGED <<settings, lock, instances, result, change>>
    /\ UNCHANGED failures

Read(t) ==
    /\ pc[t] = "read"
    /\ read' = [read EXCEPT ![t] = setting]
    /\ Go(t, "store")
    /\ UNCHANGED <<settings, lock, instances, result, change, failures>>

\* self._cache[attr] = value
Store(t) ==
    /\ pc[t] = "store"
    /\ cached' = read[t]
    /\ Go(t, "load")
    /\ UNCHANGED <<setting, late, lock, instances, read, result, change, failures>>

\* broker_cls(...), which connects.
Load(t) ==
    /\ pc[t] = "load"
    /\ made' = made + 1
    /\ broker' = made'
    /\ madeFrom' = [madeFrom EXCEPT ![made'] = read[t]]
    /\ open' = open \cup {made'}
    /\ lock' = Free
    /\ Go(t, "return")
    /\ UNCHANGED <<settings, read, result, change, failures>>

\* The backend cannot be reached, or fails the constructor once it has connected: then
\* nothing but the garbage collector closes the connection.
LoadRaises(t) ==
    /\ pc[t] = "load"
    /\ Fault
    /\ abandoned' \in {abandoned, abandoned + 1}
    /\ Raise(t)

-------------------------------------------------------------------------------
(* The setting changes: override_settings() and its receivers, in order *)

Change ==
    /\ change = "idle" /\ setting < MaxChanges
    /\ setting' = setting + 1
    /\ change' = "reload"
    /\ UNCHANGED <<cached, late, lock, instances, threads, failures>>

\* A bug: only settings.py follows the setting: the broker is not reset.
Reload_Only ==
    /\ change = "reload"
    /\ cached' = Absent
    /\ late' = \E t \in Thread : pc[t] = "store" /\ read[t] # setting
    /\ change' = "idle"
    /\ UNCHANGED <<setting, lock, instances, threads, failures>>

\* The receiver of settings.py, connected first: reload().
Reload ==
    /\ change = "reload"
    /\ cached' = Absent
    /\ late' = \E t \in Thread : pc[t] = "store" /\ read[t] # setting
    /\ change' = "reset"
    /\ UNCHANGED <<setting, lock, instances, threads, failures>>

\* reset_broker() takes the lock.
Reset ==
    /\ change = "reset" /\ lock = Free
    /\ lock' = Changer
    /\ change' = "close"
    /\ UNCHANGED <<settings, instances, threads, failures>>

Close ==
    /\ change = "close"
    /\ open' = open \ {broker}
    /\ broker' = None
    /\ lock' = Free
    /\ change' = "idle"
    /\ UNCHANGED <<settings, made, madeFrom, threads, failures>>

\* close() raises: the broker stays.  disable() of override_settings() sends the signal
\* robustly; enable() does not, and passes the exception on to its caller.
CloseRaises ==
    /\ change = "close" /\ broker # None
    /\ Fault /\ UNCHANGED abandoned
    /\ lock' = Free
    /\ change' = "idle"
    /\ UNCHANGED <<settings, instances, threads>>

-------------------------------------------------------------------------------
Get(t) ==
    \/ Lock(t) \/ CheckAgain(t) \/ Return(t)
    \/ LookUp(t) \/ Hit(t) \/ Read(t) \/ Store(t) \/ Load(t) \/ LoadRaises(t)

Next ==
    \/ \E t \in Thread : Check(t) \/ Get(t)
    \/ Change \/ Reload \/ Reset \/ Close \/ CloseRaises

Spec == Init /\ [][Next]_vars

\* Threads go on.  The lock need not be fair: between changes of the setting it is
\* contended only until a broker is there.
FairSpec ==
    /\ Spec
    /\ \A t \in Thread : WF_vars(Get(t))
    /\ WF_vars(Reload) /\ WF_vars(Reset) /\ WF_vars(Close)

-------------------------------------------------------------------------------
(* Properties *)

\* No connection is left open by a broker that nobody has any more: of the brokers whose
\* constructor returned, only the shared one is open.
NoLeak == open \subseteq {broker} \ {None}

\* After a change the broker is made from the new setting, unless something raised,
\* or a thread stored what it had read before the change after reload() ran.
MadeFromCurrent ==
    faults = MaxFaults /\ change = "idle" /\ ~late /\ broker # None => madeFrom[broker] = setting

\* Whoever calls get_broker() comes back, and a change goes through.
CallsEnd ==
    /\ \A t \in Thread : pc[t] = "lock" ~> pc[t] = "idle"
    /\ change = "reset" ~> change = "idle"

-------------------------------------------------------------------------------
(* What the sources say and the code does not do *)

\* brokers/utils.py:40 "def get_broker() -> BaseBroker": never None.
ReturnsBroker == \A t \in Thread : result[t] # "None"

\* brokers/utils.py:49 "Shared broker (a single connection)": after a constructor that
\* raised late, the next call opens a second one.
SingleConnection == (IF open = {} THEN 0 ELSE 1) + abandoned <= 1

\* brokers/utils.py:94 the reset is there because without it overriding EVENT_BUS
\* "would leave the broker pointing at the old backend/options".
InSync == change = "idle" /\ broker # None => madeFrom[broker] = setting

\* brokers/utils.py:71 "Closes and forgets the shared broker."
ResetForgets == [][change = "close" /\ change' = "idle" => broker' = None]_vars
===============================================================================
