-------------------------------- MODULE InProcess --------------------------------
(***************************************************************************)
(* A process with the default backend: threads that send events in         *)
(* transactions (Emission) and threads that consume them, over LocMem.     *)
(***************************************************************************)
EXTENDS Emission

CONSTANTS TypeOf, Type, Service, Consumer, ServiceOf, TypesOf, MaxResets   \* of LocMem

VARIABLES subscribed, queue, pc, at, cur, delivered, due, resets           \* of LocMem

Bus == INSTANCE LocMem WITH published <- Published
bus == <<subscribed, queue, pc, at, cur, delivered, due, resets>>
vars == <<emission, bus>>

ASSUME BusAssumption == Bus!Parameters

Init == EmissionInit /\ Bus!Init

\* The hook publishes to the broker.
Publish(t) == RunHook(t) /\ Bus!Publish(Head(running[t]))

Next ==
    \/ \E t \in Emitter : (Write(t) \/ HookRaises(t)) /\ UNCHANGED bus
    \/ \E t \in Emitter : Publish(t)
    \/ \E c \in Consumer : UNCHANGED emission /\ (Bus!Listen(c) \/ Bus!Step(c))
    \/ UNCHANGED emission /\ Bus!Reset

Spec == Init /\ [][Next]_vars

\* The threads that listen go on.
FairSpec == Spec /\ \A c \in Consumer : WF_vars(UNCHANGED emission /\ Bus!Step(c))

-------------------------------------------------------------------------------
(* Properties *)

TypeOK == EmissionTypeOK /\ Bus!TypeOK

\* As in LocMem: an event that was published is in one place of each service that listened.
OncePerService == Bus!OncePerService

\* As in LocMem: nothing but a reset() keeps a published event from its receivers.
EventuallyDelivered == Bus!EventuallyDelivered

OneThread(s) == \A c, d \in Consumer : ServiceOf[c] = s /\ ServiceOf[d] = s => c = d

\* A service with one thread is given the events of one type in the order in which
\* the thread that sent them did, as long as nothing is reset.
ServedInSendOrder ==
    \A s \in Service, t \in Emitter : \A i, j \in DOMAIN sent[t] :
        LET d == sent[t][i].event  e == sent[t][j].event IN
        i < j /\ TypeOf[d] = TypeOf[e] /\ {<<s, d>>, <<s, e>>} \subseteq due /\ OneThread(s) =>
            delivered[s][e] <= delivered[s][d]
===============================================================================
