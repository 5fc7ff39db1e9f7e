------------------------------- MODULE EventBus -------------------------------
(***************************************************************************)
(* The promise every broker makes to one service, whatever its transport:  *)
(* an accepted event stays owed to the service until each of its receivers *)
(* has processed it, or it has been put aside in a dead-letter, or it      *)
(* turned out to be unreadable.  What a transport loses in spite of it     *)
(* joins lost, which stays {} for one that loses nothing.  Nothing bounds  *)
(* how often an owed event is served: delivery is at least once (README,   *)
(* "write idempotent receivers").  The interface is BaseBroker: publish,   *)
(* listen, ack, fail.                                                      *)
(***************************************************************************)

CONSTANTS
    Event,        \* the envelopes of one event type
    Receiver,     \* the receivers this service registered for that type
    Unreadable    \* the events of Event this service cannot deserialize

VARIABLES
    accepted,     \* events the transport has stored
    owed,         \* events the service still has to be served
    served,       \* event -> receivers that have processed it successfully
    dead,         \* events put aside in the dead-letter
    lost          \* events the transport has let go of unsettled

vars == <<accepted, owed, served, dead, lost>>

Init ==
    /\ accepted = {}
    /\ owed = {}
    /\ served = [e \in Event |-> {}]
    /\ dead = {}
    /\ lost = {}

\* publish() stored e; a retried publish may store it a second time.
Accept(e) ==
    /\ accepted' = accepted \cup {e}
    /\ owed' = owed \cup {e}
    /\ UNCHANGED <<served, dead, lost>>

\* A worker ran the receivers of e, and those of rs succeeded.
Serve(e, rs) ==
    /\ e \in accepted \ Unreadable
    /\ served' = [served EXCEPT ![e] = @ \cup rs]
    /\ UNCHANGED <<accepted, owed, dead, lost>>

\* The service may forget events only once nothing is left to do for them, or
\* the transport has lost them before.
Settle(es) ==
    /\ es # {} /\ es \subseteq owed
    /\ \A e \in es : served[e] = Receiver \/ e \in dead \cup lost \cup Unreadable
    /\ owed' = owed \ es
    /\ UNCHANGED <<accepted, served, dead, lost>>

\* The transport offers events it already had: a rewound offset.
Reoffer(es) ==
    /\ es \subseteq accepted
    /\ owed' = owed \cup es
    /\ UNCHANGED <<accepted, served, dead, lost>>

\* fail() gave e up; another copy of e may still be owed.
Bury(e) ==
    /\ e \in accepted \ Unreadable
    /\ dead' = dead \cup {e}
    /\ owed' \in {owed, owed \ {e}}
    /\ UNCHANGED <<accepted, served, lost>>

\* The transport loses the events of es, of which it may have other copies; a
\* process that takes them with it may die in the receivers of e.
Lose(es, e, rs) ==
    /\ es \subseteq owed
    /\ e \in accepted \ Unreadable
    /\ lost' = lost \cup es
    /\ owed' \subseteq owed /\ owed \ owed' \subseteq es
    /\ served' = [served EXCEPT ![e] = @ \cup rs]
    /\ UNCHANGED <<accepted, dead>>

Next ==
    \/ \E e \in Event :
        \/ Accept(e)
        \/ \E rs \in SUBSET Receiver : Serve(e, rs)
        \/ Bury(e)
    \/ \E es \in SUBSET Event :
        \/ Settle(es) \/ Reoffer(es)
        \/ \E e \in Event, rs \in SUBSET Receiver : Lose(es, e, rs)

Spec == Init /\ [][Next]_vars

\* An owed event does not stay owed for ever.
EventuallySettled == \A e \in Event : e \in owed ~> e \notin owed
===============================================================================
