-------------------------------- MODULE Emission --------------------------------
(***************************************************************************)
(* RemoteSignal.send() (signals.py) in threads that write to the database: *)
(* each event waits in the connection's list of on-commit hooks (Django's  *)
(* transaction.on_commit(), external) for the end of the atomic() blocks   *)
(* it was sent in, and is then published.                                  *)
(***************************************************************************)
EXTENDS Naturals, Sequences, FiniteSets

CONSTANTS
    Event,       \* the envelopes
    Emitter,     \* the threads that send, each with its connection
    MaxBlocks,   \* bound of the model on the atomic() blocks a thread enters
    MaxFaults    \* bound of the model on the faults of a behaviour

ASSUME BlocksAssumption == MaxBlocks \in Nat /\ MaxFaults \in Nat

VARIABLES
    open,      \* emitter -> the atomic() blocks it is in, the outermost first
    entered,   \* emitter -> how many blocks it has entered
    undone,    \* emitter -> the blocks that were rolled back
    hooks,     \* emitter -> run_on_commit: each event with the blocks it was sent in
    running,   \* emitter -> the events whose hooks are still to run
    sent,      \* emitter -> the events it has sent, in order, with their blocks
    log,       \* the events published, in order
    failed,    \* the events whose hook raised
    skipped,   \* the events whose hook was never run, because one before it raised
    faults

blocks == <<open, entered, undone>>
emission == <<blocks, hooks, running, sent, log, failed, skipped, faults>>

Block == 1 .. MaxBlocks
Hook == [event : Event, within : Seq(Block)]
Events(list) == {list[i].event : i \in DOMAIN list}
Elements(list) == {list[i] : i \in DOMAIN list}
Sent == UNION {Events(sent[t]) : t \in Emitter}

EmissionTypeOK ==
    /\ open \in [Emitter -> Seq(Block)]
    /\ entered \in [Emitter -> 0 .. MaxBlocks]
    /\ undone \in [Emitter -> SUBSET Block]
    /\ hooks \in [Emitter -> Seq(Hook)] /\ sent \in [Emitter -> Seq(Hook)]
    /\ running \in [Emitter -> Seq(Event)]
    /\ log \in Seq(Event)
    /\ failed \subseteq Event /\ skipped \subseteq Event
    /\ faults \in 0 .. MaxFaults

EmissionInit ==
    /\ open = [t \in Emitter |-> <<>>]
    /\ entered = [t \in Emitter |-> 0]
    /\ undone = [t \in Emitter |-> {}]
    /\ hooks = [t \in Emitter |-> <<>>]
    /\ running = [t \in Emitter |-> <<>>]
    /\ sent = [t \in Emitter |-> <<>>]
    /\ log = <<>>
    /\ failed = {} /\ skipped = {}
    /\ faults = MaxFaults

Idle(t) == running[t] = <<>>
Innermost(t) == open[t][Len(open[t])]
Leave(t) == open' = [open EXCEPT ![t] = SubSeq(@, 1, Len(@) - 1)]
EventsOf(list) == [i \in DOMAIN list |-> list[i].event]

-------------------------------------------------------------------------------
(* The application's blocks *)

Enter(t) ==
    /\ Idle(t) /\ entered[t] < MaxBlocks
    /\ entered' = [entered EXCEPT ![t] = @ + 1]
    /\ open' = [open EXCEPT ![t] = Append(@, entered[t] + 1)]
    /\ UNCHANGED <<undone, hooks, running, sent, log, failed, skipped, faults>>

\* The end of a savepoint leaves the hooks to the block around it; the outermost
\* block commits and runs them.
Commit(t) ==
    /\ Idle(t) /\ open[t] # <<>>
    /\ Leave(t)
    /\ IF Len(open[t]) > 1 THEN UNCHANGED <<hooks, running>>
       ELSE /\ running' = [running EXCEPT ![t] = EventsOf(hooks[t])]
            /\ hooks' = [hooks EXCEPT ![t] = <<>>]
    /\ UNCHANGED <<entered, undone, sent, log, failed, skipped, faults>>

\* A rollback drops the hooks registered within the block; so does a failed commit.
RollBack(t) ==
    LET outside == {i \in DOMAIN hooks[t] : Innermost(t) \notin Elements(hooks[t][i].within)} IN
    /\ Idle(t) /\ open[t] # <<>>
    /\ Leave(t)
    /\ undone' = [undone EXCEPT ![t] = @ \cup {Innermost(t)}]
    /\ \E f \in [1 .. Cardinality(outside) -> outside] :   \* the others keep their order
          /\ \A k, l \in DOMAIN f : k < l => f[k] < f[l]
          /\ outside \subseteq Elements(f)
          /\ hooks' = [hooks EXCEPT ![t] = [k \in DOMAIN f |-> hooks[t][f[k]]]]
    /\ UNCHANGED <<entered, running, sent, log, failed, skipped, faults>>

-------------------------------------------------------------------------------
(* send() and its hook *)

\* A bug: publish() without on_commit().
Send_AtOnce(t, e) ==
    /\ Idle(t) /\ e \notin Sent
    /\ sent' = [sent EXCEPT ![t] = Append(@, [event |-> e, within |-> open[t]])]
    /\ running' = [running EXCEPT ![t] = <<e>>]
    /\ UNCHANGED <<blocks, hooks, log, failed, skipped, faults>>

\* on_commit() runs the hook at once outside of any block.
Send(t, e) ==
    LET hook == [event |-> e, within |-> open[t]] IN
    /\ Idle(t) /\ e \notin Sent
    /\ sent' = [sent EXCEPT ![t] = Append(@, hook)]
    /\ IF open[t] = <<>>
       THEN running' = [running EXCEPT ![t] = <<e>>] /\ UNCHANGED hooks
       ELSE hooks' = [hooks EXCEPT ![t] = Append(@, hook)] /\ UNCHANGED running
    /\ UNCHANGED <<blocks, log, failed, skipped, faults>>

\* lambda: get_broker().publish(envelope)
RunHook(t) ==
    /\ ~Idle(t)
    /\ log' = Append(log, Head(running[t]))
    /\ running' = [running EXCEPT ![t] = Tail(@)]
    /\ UNCHANGED <<blocks, hooks, sent, failed, skipped, faults>>

\* A bug: on_commit(..., robust=True) goes on with the next hook.
HookRaises_Robust(t) ==
    /\ ~Idle(t)
    /\ faults > 0 /\ faults' = faults - 1
    /\ running' = [running EXCEPT ![t] = Tail(@)]
    /\ failed' = failed \cup {Head(running[t])}
    /\ UNCHANGED <<blocks, hooks, sent, log, skipped>>

\* get_broker() or publish() raises: Django runs no hook after it.
HookRaises(t) ==
    /\ ~Idle(t)
    /\ faults > 0 /\ faults' = faults - 1
    /\ running' = [running EXCEPT ![t] = <<>>]
    /\ failed' = failed \cup {Head(running[t])}
    /\ skipped' = skipped \cup Elements(Tail(running[t]))
    /\ UNCHANGED <<blocks, hooks, sent, log>>

-------------------------------------------------------------------------------
Write(t) ==
    \/ Enter(t) \/ Commit(t) \/ RollBack(t)
    \/ \E e \in Event : Send(t, e)

EmissionNext == \E t \in Emitter : Write(t) \/ RunHook(t) \/ HookRaises(t)

EmissionSpec == EmissionInit /\ [][EmissionNext]_emission

-------------------------------------------------------------------------------
(* Properties *)

Published == Elements(log)

\* Is every block the event was sent in over, and none of them rolled back?
Kept(t, hook) == Elements(hook.within) \cap (undone[t] \cup Elements(open[t])) = {}

\* What is published is committed, with every savepoint around it, and published once;
\* what is committed is published, or about to be, or a hook raised.
PublishedIffCommitted ==
    /\ \A t \in Emitter : \A i \in DOMAIN sent[t] :
          LET e == sent[t][i].event IN
          IF Kept(t, sent[t][i])
          THEN e \in Published \cup Elements(running[t]) \cup failed \cup skipped
          ELSE e \notin Published
    /\ \A i, j \in DOMAIN log : i # j => log[i] # log[j]

Before(d, e) == \E i, j \in DOMAIN log : i < j /\ log[i] = d /\ log[j] = e
SameTransaction(g, h) == g.within # <<>> /\ h.within # <<>> /\ g.within[1] = h.within[1]

\* A thread's events are published in the order it sent them, and of a transaction
\* nothing after the first that failed.
InSendOrder ==
    \A t \in Emitter : \A i, j \in DOMAIN sent[t] :
        LET g == sent[t][i]  h == sent[t][j] IN
        i < j /\ h.event \in Published /\ Kept(t, g) =>
            \/ Before(g.event, h.event)
            \/ g.event \in failed \cup skipped /\ ~SameTransaction(g, h)

-------------------------------------------------------------------------------
(* What the sources say and the code does not do *)

\* signals.py:57 "Published when the current transaction commits (immediately if there is
\* none)": also when another event of the transaction cannot be.
OthersPublished == skipped = {}
===============================================================================
