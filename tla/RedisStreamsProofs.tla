-------------------------- MODULE RedisStreamsProofs --------------------------
(***************************************************************************)
(* Proofs, for every value of the constants, about RedisStreams: its type  *)
(* invariant, NeverLost, what publish() leaves in the stream, and, before  *)
(* the group is lost, when an entry is buried and who holds it; last, that *)
(* it implements the promise of EventBus as long as no entry is trimmed    *)
(* and the group is not destroyed.                                         *)
(***************************************************************************)
EXTENDS RedisStreams, FiniteSetTheorems, TLAPS

-------------------------------------------------------------------------------
(* The inductive invariant behind NeverLost *)

\* A group that does not exist has delivered nothing.
GroupInv == ~group => cursor = 0

\* A worker in dispatch() is busy with an entry of the stream that loads.
BusyInv ==
    \A w \in Worker :
        pc[w] \in Busy => cur[w] \in 1 .. Len(stream) /\ stream[cur[w]] \notin Unreadable

\* A worker about to acknowledge has seen every receiver succeed.
AckInv == \A w \in Worker : pc[w] = "ack" => served[stream[cur[w]]] = Receiver

\* A publish() still under way has an attempt left.
AttemptInv == \A e \in Event : pub[e] = "pending" => attempt[e] <= PublishRetries

\* While nothing is trimmed and the group is not lost, a running worker has a
\* group and the dead-letter holds entries of the stream only.
KeptInv ==
    /\ first = 1
    /\ \A w \in Worker : pc[w] # "recover" /\ (pc[w] \notin Down => group)
    /\ \A i \in Id : dlq[i] > 0 => i <= Len(stream)

IndInv ==
    TypeOK /\ AttemptInv /\ GroupInv /\ BusyInv /\ AckInv /\ NeverLost

(* The inductive invariants behind the other safety properties *)

\* An attempt of publish() leaves at most one entry.
CopiesInv ==
    \A e \in Event :
        /\ pub[e] = "pending" => Cardinality(Copies(e)) <= attempt[e]
        /\ pub[e] = "raised" => Cardinality(Copies(e)) <= attempt[e]
        /\ pub[e] = "returned" => /\ Copies(e) # {}
                                  /\ attempt[e] <= PublishRetries
                                  /\ Cardinality(Copies(e)) <= attempt[e] + 1

\* Only a group that may be destroyed has a gap.
GapInv == GroupLoss \/ gap = 0

\* Before the group is lost: what is pending, held or dead-lettered lies behind
\* the cursor and has been delivered, and a worker on its way to bury an entry,
\* or one that has, found its counter at MAX_RETRIES.
Delivered(i) == i \in 1 .. cursor /\ deliveries[i] > 0

DeliveryInv ==
    gap = 0 =>
        /\ \A i \in pel : Delivered(i)
        /\ \A w \in Worker, i \in Id : Holds(w, i) => Delivered(i)
        /\ \A w \in Worker : pc[w] = "bury" => deliveries[cur[w]] = MaxRetries
        /\ \A i \in Id : dlq[i] > 0 => Delivered(i) /\ deliveries[i] = MaxRetries

\* The handlers a worker has run since its last reply, and those it has still to
\* run for it, are no more than surely end within RETRY_IDLE_MS.
LoadInv ==
    \A w \in Worker :
        /\ pc[w] \notin Busy => cur[w] = 0
        /\ IsFiniteSet(batch[w])
        /\ handled[w] + Cardinality(batch[w]) + (IF cur[w] = 0 THEN 0 ELSE 1) <= Within

\* Before the group is lost, and while every reply is handled within
\* RETRY_IDLE_MS: an entry that may be claimed is in nobody's hands, an entry is
\* in one worker's hands and once only, and a buried entry is in nobody's.
HolderInv ==
    gap = 0 =>
        /\ \A w \in Worker, i \in Id : Holds(w, i) => i \notin idle
        /\ \A w \in Worker : cur[w] \notin batch[w]
        /\ OneHolder
        /\ BuriedOnce

USE MaxEntriesAssumption, MaxRetriesAssumption, CountAssumption,
    PublishRetriesAssumption, MaxFaultsAssumption

-------------------------------------------------------------------------------
(* The commands of the server keep its type. *)

\* XADD appends one entry and keeps the others.
LEMMA XaddFact ==
    ASSUME ServerTypeOK, NEW e \in Event, XADD(e)
    PROVE  /\ ServerTypeOK'
           /\ Len(stream') = Len(stream) + 1
           /\ stream'[Len(stream) + 1] = e
           /\ \A i \in 1 .. Len(stream) : stream'[i] = stream[i]
           /\ first' >= first
<1>1. /\ stream' \in Seq(Event)
      /\ Len(stream') = Len(stream) + 1
      /\ stream'[Len(stream) + 1] = e
      /\ \A i \in 1 .. Len(stream) : stream'[i] = stream[i]
  BY DEF ServerTypeOK, XADD
<1>2. Len(stream) \in Nat /\ Len(stream) < MaxEntries
  BY DEF ServerTypeOK, XADD
<1>3. first' \in 1 .. MaxEntries + 1 /\ first' >= first
  BY <1>2 DEF ServerTypeOK, XADD
<1>4. cursor' \in 0 .. Len(stream')
  BY <1>1, <1>2 DEF ServerTypeOK, XADD
<1> QED
  BY <1>1, <1>2, <1>3, <1>4 DEF ServerTypeOK, XADD

\* XGROUP CREATE at a position of the stream.
LEMMA CreateFact ==
    ASSUME ServerTypeOK, NEW start \in 0 .. Len(stream), XGROUP_CREATE(start),
           ~group => cursor = 0
    PROVE  ServerTypeOK'
BY DEF ServerTypeOK, XGROUP_CREATE

\* The group's next entries are a range of the stream that starts after cursor.
LEMMA FreshFact ==
    ASSUME ServerTypeOK
    PROVE  /\ Fresh \subseteq 1 .. Len(stream)
           /\ \A i \in Fresh : i > cursor /\ i >= first
           /\ Fresh # {} =>
                LET last == CHOOSE i \in Fresh : \A j \in Fresh : j <= i
                IN  /\ last \in Fresh
                    /\ \A i \in 1 .. last : i <= cursor \/ i < first \/ i \in Fresh
<1> DEFINE from == IF cursor < first THEN first ELSE cursor + 1
           top == IF Len(stream) < from + ReadCount - 1
                  THEN Len(stream) ELSE from + ReadCount - 1
<1>1. from \in Nat /\ from >= first /\ from > cursor /\ from >= 1
  BY DEF ServerTypeOK
<1>2. Len(stream) \in Nat
  BY DEF ServerTypeOK
<1>3. Fresh = from .. top
  BY <1>1, <1>2 DEF Fresh
<1>4. Fresh \subseteq 1 .. Len(stream) /\ \A i \in Fresh : i > cursor /\ i >= first
  BY <1>1, <1>2, <1>3 DEF ServerTypeOK
<1>5. ASSUME Fresh # {}
      PROVE  LET last == CHOOSE i \in Fresh : \A j \in Fresh : j <= i
             IN  /\ last \in Fresh
                 /\ \A i \in 1 .. last : i <= cursor \/ i < first \/ i \in Fresh
  <2> DEFINE last == CHOOSE i \in Fresh : \A j \in Fresh : j <= i
  <2>1. top \in Fresh /\ \A j \in Fresh : j <= top
    BY <1>1, <1>2, <1>3, <1>5
  <2>2. last \in Fresh /\ \A j \in Fresh : j <= last
    BY <2>1
  <2>3. \A i \in 1 .. last : i >= from => i \in Fresh
    BY <1>1, <1>2, <1>3, <2>2
  <2>4. \A i \in 1 .. last : i < from => i <= cursor \/ i < first
    BY <1>1, <1>2, <1>3, <2>2 DEF ServerTypeOK
  <2> QED
    BY <1>1, <1>2, <1>3, <2>2, <2>3, <2>4
<1> QED
  BY <1>4, <1>5

\* XREADGROUP moves the cursor over the entries it hands out, no further.
LEMMA ReadFact ==
    ASSUME ServerTypeOK, XREADGROUP
    PROVE  /\ ServerTypeOK'
           /\ Fresh \subseteq 1 .. Len(stream)
           /\ \A i \in 1 .. Len(stream) :
                i > cursor => i > cursor' \/ i \in pel' \/ i < first
<1>1. CASE Fresh = {}
  <2>1. cursor' = cursor /\ pel' = pel /\ idle' = idle /\ stream' = stream
    BY <1>1 DEF XREADGROUP
  <2> QED
    BY <1>1, <2>1 DEF XREADGROUP, ServerTypeOK, Id
<1>2. CASE Fresh # {}
  <2> DEFINE last == CHOOSE i \in Fresh : \A j \in Fresh : j <= i
  <2>1. cursor' = last /\ pel' = pel \cup Fresh /\ idle' = idle \ Fresh
    BY <1>2 DEF XREADGROUP
  <2>2. last \in Fresh /\ Fresh \subseteq 1 .. Len(stream) /\ last > cursor
        /\ \A i \in 1 .. last : i <= cursor \/ i < first \/ i \in Fresh
    BY <1>2, FreshFact
  <2>3. \A j \in Fresh : j <= last
    <3>1. \E i \in Fresh : \A j \in Fresh : j <= i
      <4> DEFINE from == IF cursor < first THEN first ELSE cursor + 1
                 top == IF Len(stream) < from + ReadCount - 1
                        THEN Len(stream) ELSE from + ReadCount - 1
      <4>1. top \in Fresh /\ \A j \in Fresh : j <= top
        BY <1>2 DEF Fresh, ServerTypeOK
      <4> QED
        BY <4>1
    <3> QED
      BY <3>1
  <2> HIDE DEF last
  <2>4. deliveries' \in [Id -> 0 .. MaxRetries]
    BY DEF XREADGROUP, ServerTypeOK
  <2>5. /\ cursor' \in 0 .. Len(stream)
        /\ pel' \subseteq 1 .. cursor'
        /\ idle' \subseteq pel'
    BY <2>1, <2>2, <2>3 DEF ServerTypeOK
  <2>6. ServerTypeOK'
    BY <2>4, <2>5 DEF XREADGROUP, ServerTypeOK
  <2>7. \A i \in 1 .. Len(stream) :
            i > cursor => i > cursor' \/ i \in pel' \/ i < first
    BY <2>1, <2>2 DEF ServerTypeOK
  <2> QED
    BY <2>2, <2>6, <2>7
<1> QED
  BY <1>1, <1>2

\* XAUTOCLAIM hands out pending entries, and drops only trimmed ones.
LEMMA ClaimFact ==
    ASSUME ServerTypeOK, XAUTOCLAIM
    PROVE  /\ ServerTypeOK'
           /\ Claimed \subseteq pel
           /\ \A i \in pel : i \in pel' \/ i < first
<1>1. Claimable \subseteq pel /\ Claimed \subseteq Claimable
  BY DEF Claimable, Claimed
<1>2. \A i \in Claimable \ Claimed : i < first
  BY <1>1 DEF Claimed, ServerTypeOK
<1>3. pel' \subseteq pel /\ idle' \subseteq idle \ Claimable
  BY DEF XAUTOCLAIM
<1>4. idle' \subseteq pel'
  BY <1>1 DEF XAUTOCLAIM, ServerTypeOK
<1>5. deliveries' \in [Id -> 0 .. MaxRetries]
  BY DEF XAUTOCLAIM, ServerTypeOK, Bump
<1> QED
  BY <1>1, <1>2, <1>3, <1>4, <1>5 DEF XAUTOCLAIM, ServerTypeOK

\* XACK and the transaction of fail() take one entry out of the PEL.
LEMMA AckFact ==
    ASSUME ServerTypeOK, NEW i, XACK(i)
    PROVE  ServerTypeOK' /\ pel' = pel \ {i}
BY DEF ServerTypeOK, XACK

LEMMA BuryFact ==
    ASSUME ServerTypeOK, NEW i \in Id, XADD_DLQ_XACK(i)
    PROVE  /\ ServerTypeOK' /\ pel' = pel \ {i}
           /\ dlq'[i] > 0
           /\ \A j \in Id : dlq[j] > 0 => dlq'[j] > 0
<1>1. dlq' \in [Id -> 0 .. 2] /\ dlq'[i] > 0
  BY DEF ServerTypeOK, XADD_DLQ_XACK, Bump
<1>2. \A j \in Id : dlq[j] > 0 => dlq'[j] > 0
  BY <1>1 DEF ServerTypeOK, XADD_DLQ_XACK
<1> QED
  BY <1>1, <1>2 DEF ServerTypeOK, XADD_DLQ_XACK
-------------------------------------------------------------------------------
(* The steps of a worker keep the type of its variables. *)

LEMMA ExitType ==
    ASSUME WorkerTypeOK, NEW w \in Worker, NEW why \in Down, Exit(w, why),
           Len(stream') = Len(stream), Len(stream) \in Nat
    PROVE  WorkerTypeOK'
BY WithinAssumption DEF WorkerTypeOK, Exit, Goto, Down

LEMMA ForgetType ==
    ASSUME WorkerTypeOK, NEW w \in Worker, Forget(w),
           Len(stream') = Len(stream), Len(stream) \in Nat
    PROVE  WorkerTypeOK'
BY WithinAssumption DEF WorkerTypeOK, Forget, Goto, Bump

LEMMA ReceiveType ==
    ASSUME WorkerTypeOK, NEW w \in Worker,
           NEW ids \in SUBSET (1 .. Len(stream)), NEW next \in {"claim", "read"},
           Receive(w, ids, next), Len(stream') = Len(stream)
    PROVE  WorkerTypeOK'
BY WithinAssumption DEF WorkerTypeOK, Receive, Goto

LEMMA RunReceiversType ==
    ASSUME HistoryTypeOK, NEW i \in Id, NEW ok \in SUBSET Receiver, RunReceivers(i, ok),
           Len(stream') = Len(stream)
    PROVE  HistoryTypeOK'
<1>1. served' \in [Event -> SUBSET Receiver]
  BY DEF HistoryTypeOK, RunReceivers
<1>2. tried' \in [Id -> 0 .. MaxRetries + 1]
  BY DEF HistoryTypeOK, RunReceivers, Bump
<1> QED
  BY <1>1, <1>2 DEF HistoryTypeOK, RunReceivers

\* Creating the group, at the start or at "$", keeps what the proof relies on.
LEMMA RecreateFact ==
    ASSUME ServerTypeOK, HistoryTypeOK, GroupInv, XGROUP_RECREATE
    PROVE  ServerTypeOK' /\ HistoryTypeOK' /\ GroupInv'
<1>1. Len(stream) \in 0 .. Len(stream)
  BY DEF ServerTypeOK
<1>2. ServerTypeOK'
  BY <1>1, CreateFact DEF XGROUP_RECREATE, GroupInv
<1> QED
  BY <1>2 DEF XGROUP_RECREATE, XGROUP_CREATE, GroupInv, HistoryTypeOK

LEMMA ListenFact ==
    ASSUME ServerTypeOK, GroupInv, XGROUP_CREATE(0)
    PROVE  ServerTypeOK' /\ GroupInv' /\ stream' = stream
<1>1. 0 \in 0 .. Len(stream)
  BY DEF ServerTypeOK
<1>2. ServerTypeOK'
  BY <1>1, CreateFact DEF GroupInv
<1> QED
  BY <1>2 DEF XGROUP_CREATE, GroupInv

-------------------------------------------------------------------------------
(* What a step has to show to keep each part of the invariant. *)

\* Only w moves, to label: BusyInv has to hold of w alone.
LEMMA BusyStep ==
    ASSUME TypeOK, BusyInv, NEW w \in Worker, NEW label, Goto(w, label),
           stream' = stream,
           \A v \in Worker : v # w => cur'[v] = cur[v],
           label \in Busy => /\ cur'[w] \in 1 .. Len(stream)
                             /\ stream[cur'[w]] \notin Unreadable
    PROVE  BusyInv'
BY DEF TypeOK, WorkerTypeOK, BusyInv, Goto

\* Only w moves, to label, and no event loses a receiver that has served it.
LEMMA AckStep ==
    ASSUME TypeOK, BusyInv, AckInv, NEW w \in Worker, NEW label, Goto(w, label),
           stream' = stream,
           \A e \in Event : served[e] = Receiver => served'[e] = Receiver,
           \A v \in Worker : v # w => cur'[v] = cur[v],
           label = "ack" => served'[stream[cur'[w]]] = Receiver
    PROVE  AckInv'
<1> SUFFICES ASSUME NEW v \in Worker, pc'[v] = "ack"
             PROVE  served'[stream[cur'[v]]] = Receiver
  BY DEF AckInv
<1>1. CASE v = w
  BY <1>1 DEF TypeOK, WorkerTypeOK, Goto
<1>2. CASE v # w
  <2>1. pc[v] = "ack" /\ cur'[v] = cur[v]
    BY <1>2 DEF TypeOK, WorkerTypeOK, Goto
  <2>2. stream[cur[v]] \in Event
    BY <2>1 DEF BusyInv, Busy, TypeOK, ServerTypeOK
  <2> QED
    BY <2>1, <2>2 DEF AckInv
<1> QED
  BY <1>1, <1>2

\* No record is lost, and what stops being outstanding is accounted for.
LEMMA NeverLostStep ==
    ASSUME TypeOK, NeverLost, stream' = stream, first' = first,
           missed \subseteq missed',
           \A e \in Event : served[e] = Receiver => served'[e] = Receiver,
           \A i \in Id : dlq[i] > 0 => dlq'[i] > 0,
           \A i \in 1 .. Len(stream) : Outstanding(i) =>
                Outstanding(i)' \/ Settled(i)' \/ i \in missed' \/ i < first
    PROVE  NeverLost'
<1> SUFFICES ASSUME NEW i \in 1 .. Len(stream)
             PROVE  Outstanding(i)' \/ Settled(i)' \/ i \in missed' \/ i < first
  BY DEF NeverLost
<1>1. stream[i] \in Event /\ i \in Id
  BY DEF TypeOK, ServerTypeOK, Id
<1>2. Settled(i) => Settled(i)'
  BY <1>1 DEF Settled
<1> QED
  BY <1>2 DEF NeverLost

\* Nothing the property speaks of changes.
LEMMA NeverLostStutter ==
    ASSUME NeverLost, UNCHANGED <<stream, first, cursor, pel, dlq, served, missed>>
    PROVE  NeverLost'
BY DEF NeverLost, Outstanding, Settled

\* A command that takes out of the PEL only what is settled loses nothing.
LEMMA NeverLostRemove ==
    ASSUME TypeOK, NeverLost, NEW i \in Id, pel' = pel \ {i},
           UNCHANGED <<stream, first, cursor, history>>,
           \A j \in Id : dlq[j] > 0 => dlq'[j] > 0,
           i \in 1 .. Len(stream) => Settled(i)'
    PROVE  NeverLost'
<1>1. \A j \in 1 .. Len(stream) : Outstanding(j) => Outstanding(j)' \/ Settled(j)'
  BY DEF Outstanding
<1> QED
  BY <1>1, NeverLostStep DEF history

\* A receiver that succeeds never takes another's success away.
LEMMA ServedGrows ==
    ASSUME TypeOK, NEW i \in 1 .. Len(stream), NEW ok \in SUBSET Receiver,
           RunReceivers(i, ok)
    PROVE  /\ \A e \in Event : served[e] = Receiver => served'[e] = Receiver
           /\ served'[stream[i]] = served[stream[i]] \cup ok
<1>1. stream[i] \in Event
  BY DEF TypeOK, ServerTypeOK
<1>2. served \in [Event -> SUBSET Receiver]
  BY DEF TypeOK, HistoryTypeOK
<1> QED
  BY <1>1, <1>2 DEF RunReceivers

\* Creating the group makes every entry deliverable again, or counts it missed.
LEMMA NeverLostListen ==
    ASSUME TypeOK, GroupInv, NeverLost, XGROUP_CREATE(0), UNCHANGED history
    PROVE  NeverLost'
<1>1. \A i \in 1 .. Len(stream) : Outstanding(i) => Outstanding(i)'
  BY DEF Outstanding, XGROUP_CREATE, GroupInv, TypeOK, ServerTypeOK
<1> QED
  BY <1>1, NeverLostStep DEF XGROUP_CREATE, history

LEMMA NeverLostRecreate ==
    ASSUME TypeOK, NeverLost, XGROUP_RECREATE
    PROVE  NeverLost'
<1>1. CASE group
  BY <1>1, NeverLostStutter DEF XGROUP_RECREATE, XGROUP_CREATE
<1>2. CASE ~group
  <2> SUFFICES ASSUME NEW i \in 1 .. Len(stream)
               PROVE  Settled(i)' \/ i \in missed'
    BY DEF NeverLost, XGROUP_RECREATE, XGROUP_CREATE
  <2>1. Settled(i)' <=> Settled(i)
    BY DEF Settled, XGROUP_RECREATE, XGROUP_CREATE
  <2> QED
    BY <1>2, <2>1 DEF XGROUP_RECREATE
<1> QED
  BY <1>1, <1>2

-------------------------------------------------------------------------------
(* Every step keeps the invariant. *)

\* The publisher's steps: the stream may grow, by an entry nobody was given yet.
LEMMA AppendInv ==
    ASSUME IndInv, NEW e \in Event, XADD(e), UNCHANGED <<worker, history>>,
           PublisherTypeOK', AttemptInv', faults' \in 0 .. MaxFaults
    PROVE  IndInv'
<1>1. /\ ServerTypeOK' /\ Len(stream') = Len(stream) + 1 /\ first' >= first
      /\ \A i \in 1 .. Len(stream) : stream'[i] = stream[i]
  BY XaddFact DEF IndInv, TypeOK
<1>2. Len(stream) \in Nat /\ first \in Nat /\ first' \in Nat /\ cursor \in Nat
      /\ cursor <= Len(stream)
  BY <1>1 DEF IndInv, TypeOK, ServerTypeOK
<1>3. TypeOK'
  <2>1. 1 .. Len(stream) \subseteq 1 .. Len(stream')
        /\ 0 .. Len(stream) \subseteq 0 .. Len(stream')
    BY <1>1, <1>2
  <2>2. WorkerTypeOK'
    BY <2>1 DEF IndInv, TypeOK, WorkerTypeOK, worker
  <2>3. HistoryTypeOK'
    BY <2>1 DEF IndInv, TypeOK, HistoryTypeOK, history
  <2> QED
    BY <1>1, <2>2, <2>3 DEF TypeOK
<1>4. GroupInv'
  BY DEF IndInv, GroupInv, XADD
<1>5. BusyInv' /\ AckInv'
  BY <1>1, <1>2 DEF IndInv, BusyInv, AckInv, Busy, worker, history
<1>6. NeverLost'
  <2> SUFFICES ASSUME NEW i \in 1 .. Len(stream')
               PROVE  (Outstanding(i) \/ Settled(i) \/ i \in missed \/ i < first)'
    BY DEF NeverLost
  <2>1. CASE i \in 1 .. Len(stream)
    <3>1. Outstanding(i)' <=> Outstanding(i)
      BY DEF Outstanding, XADD
    <3>2. Settled(i)' <=> Settled(i)
      BY <2>1, <1>1 DEF Settled, XADD, history
    <3> QED
      BY <2>1, <3>1, <3>2, <1>1, <1>2 DEF IndInv, NeverLost, history
  <2>2. CASE i = Len(stream) + 1
    BY <2>2, <1>2 DEF Outstanding, XADD
  <2> QED
    BY <2>1, <2>2, <1>1, <1>2
<1> QED
  BY <1>3, <1>4, <1>5, <1>6 DEF IndInv

LEMMA PublishInv ==
    ASSUME IndInv, NEW e \in Event, Publish(e) \/ PublishInterrupted(e)
    PROVE  IndInv'
<1>1. faults' \in 0 .. MaxFaults
  BY DEF IndInv, TypeOK, Publish, PublishInterrupted, Fault
<1>2. PublisherTypeOK' /\ AttemptInv'
  <2>1. CASE Publish(e)
    BY <2>1 DEF IndInv, AttemptInv, TypeOK, PublisherTypeOK, Publish
  <2>2. CASE PublishInterrupted(e)
    <3>1. attempt[e] \in 0 .. PublishRetries
      BY <2>2 DEF IndInv, AttemptInv, TypeOK, PublisherTypeOK, PublishInterrupted
    <3>2. attempt' \in [Event -> 0 .. PublishRetries + 1]
          /\ attempt'[e] = attempt[e] + 1
          /\ \A d \in Event : d # e => attempt'[d] = attempt[d]
      BY <2>2, <3>1 DEF IndInv, TypeOK, PublisherTypeOK, PublishInterrupted
    <3>3. /\ pub' \in [Event -> {"pending", "returned", "raised"}]
          /\ pub'[e] = "pending" => attempt'[e] # Attempts
          /\ \A d \in Event : d # e => pub'[d] = pub[d]
      BY <2>2 DEF IndInv, TypeOK, PublisherTypeOK, PublishInterrupted
    <3>4. AttemptInv'
      <4> SUFFICES ASSUME NEW d \in Event, pub'[d] = "pending"
                   PROVE  attempt'[d] <= PublishRetries
        BY DEF AttemptInv
      <4>1. CASE d = e
        BY <4>1, <3>1, <3>2, <3>3 DEF Attempts
      <4>2. CASE d # e
        BY <4>2, <3>2, <3>3 DEF IndInv, AttemptInv
      <4> QED
        BY <4>1, <4>2
    <3> QED
      BY <3>2, <3>3, <3>4 DEF PublisherTypeOK
  <2> QED
    BY <2>1, <2>2
<1>3. CASE XADD(e)
  BY <1>1, <1>2, <1>3, AppendInv DEF Publish, PublishInterrupted
<1>4. CASE UNCHANGED server
  <2>1. UNCHANGED <<worker, history>>
    BY DEF Publish, PublishInterrupted
  <2>2. NeverLost'
    BY <1>4, <2>1, NeverLostStutter DEF IndInv, server, history
  <2>3. TypeOK'
    BY <1>1, <1>2, <1>4, <2>1
    DEF IndInv, TypeOK, ServerTypeOK, WorkerTypeOK, HistoryTypeOK, server, worker, history
  <2>4. GroupInv' /\ BusyInv' /\ AckInv'
    BY <1>4, <2>1 DEF IndInv, GroupInv, BusyInv, AckInv, server, worker, history
  <2> QED
    BY <1>2, <2>2, <2>3, <2>4 DEF IndInv
<1> QED
  BY <1>3, <1>4 DEF Publish, PublishInterrupted

\* A step of worker w that ends at label keeps the invariant if it keeps the
\* types, loses no entry, and has in hand what dispatch() needs.
LEMMA WorkerInv ==
    ASSUME IndInv, NEW w \in Worker, NEW label, Goto(w, label), stream' = stream,
           ServerTypeOK', GroupInv', UNCHANGED publisher, WorkerTypeOK',
           HistoryTypeOK', faults' \in 0 .. MaxFaults, NeverLost',
           \A e \in Event : served[e] = Receiver => served'[e] = Receiver,
           \A v \in Worker : v # w => cur'[v] = cur[v],
           label \in Busy => /\ cur'[w] \in 1 .. Len(stream)
                             /\ stream[cur'[w]] \notin Unreadable,
           label = "ack" => served'[stream[cur'[w]]] = Receiver
    PROVE  IndInv'
<1>1. TypeOK' /\ AttemptInv'
  BY DEF IndInv, TypeOK, PublisherTypeOK, AttemptInv, publisher
<1>2. BusyInv'
  BY BusyStep DEF IndInv
<1>3. AckInv'
  BY AckStep DEF IndInv
<1> QED
  BY <1>1, <1>2, <1>3 DEF IndInv

\* A fault spends one unit of the budget.
LEMMA FaultType ==
    ASSUME faults \in 0 .. MaxFaults, Fault \/ UNCHANGED faults
    PROVE  faults' \in 0 .. MaxFaults
BY DEF Fault

\* A step that changes nothing but where w is and what it holds.
LEMMA QuietInv ==
    ASSUME IndInv, NEW w \in Worker, NEW label, Goto(w, label),
           UNCHANGED <<server, publisher, history>>, WorkerTypeOK',
           Fault \/ UNCHANGED faults,
           \A v \in Worker : v # w => cur'[v] = cur[v],
           label \in Busy => /\ cur'[w] \in 1 .. Len(stream)
                             /\ stream[cur'[w]] \notin Unreadable,
           label # "ack"
    PROVE  IndInv'
<1>1. ServerTypeOK' /\ GroupInv' /\ stream' = stream
  BY DEF IndInv, TypeOK, ServerTypeOK, GroupInv, server
<1>2. HistoryTypeOK' /\ UNCHANGED served
  BY <1>1 DEF IndInv, TypeOK, HistoryTypeOK, history
<1>3. NeverLost'
  BY NeverLostStutter DEF IndInv, server, history
<1>4. faults' \in 0 .. MaxFaults
  BY FaultType DEF IndInv, TypeOK
<1> QED
  BY <1>1, <1>2, <1>3, <1>4, WorkerInv

\* A step in which w ends and the server takes a command that loses nothing.
LEMMA ExitInv ==
    ASSUME IndInv, NEW w \in Worker, NEW why \in Down, Exit(w, why),
           stream' = stream, ServerTypeOK', GroupInv', UNCHANGED publisher,
           HistoryTypeOK', Fault \/ UNCHANGED faults, NeverLost',
           \A e \in Event : served[e] = Receiver => served'[e] = Receiver
    PROVE  IndInv'
<1>1. Len(stream) \in Nat
  BY DEF IndInv, TypeOK, ServerTypeOK
<1>2. WorkerTypeOK'
  BY <1>1, ExitType DEF IndInv, TypeOK
<1>3. faults' \in 0 .. MaxFaults
  BY FaultType DEF IndInv, TypeOK
<1>4. why \notin Busy /\ why # "ack"
  BY DEF Down, Busy
<1>5. Goto(w, why) /\ \A v \in Worker : v # w => cur'[v] = cur[v]
  BY DEF Exit, IndInv, TypeOK, WorkerTypeOK
<1> QED
  BY <1>2, <1>3, <1>4, <1>5, WorkerInv

-------------------------------------------------------------------------------
(* The commands, with all of the invariant. *)

LEMMA ListenCommand ==
    ASSUME IndInv, XGROUP_CREATE(0), UNCHANGED history
    PROVE  ServerTypeOK' /\ GroupInv' /\ stream' = stream /\ NeverLost' /\ HistoryTypeOK'
<1>1. ServerTypeOK' /\ GroupInv' /\ stream' = stream
  BY ListenFact DEF IndInv, TypeOK
<1>2. NeverLost'
  BY NeverLostListen DEF IndInv
<1> QED
  BY <1>1, <1>2 DEF IndInv, TypeOK, HistoryTypeOK, history

LEMMA RecreateCommand ==
    ASSUME IndInv, XGROUP_RECREATE
    PROVE  /\ ServerTypeOK' /\ GroupInv' /\ stream' = stream /\ NeverLost'
           /\ HistoryTypeOK' /\ UNCHANGED served
<1>1. ServerTypeOK' /\ HistoryTypeOK' /\ GroupInv'
  BY RecreateFact DEF IndInv, TypeOK
<1>2. NeverLost'
  BY NeverLostRecreate DEF IndInv
<1> QED
  BY <1>1, <1>2 DEF XGROUP_RECREATE, XGROUP_CREATE

LEMMA ReadCommand ==
    ASSUME IndInv, XREADGROUP, UNCHANGED history
    PROVE  /\ ServerTypeOK' /\ GroupInv' /\ stream' = stream /\ NeverLost'
           /\ HistoryTypeOK' /\ Fresh \in SUBSET (1 .. Len(stream))
<1>1. ServerTypeOK' /\ stream' = stream /\ Fresh \in SUBSET (1 .. Len(stream))
      /\ \A i \in 1 .. Len(stream) :
            i > cursor => i > cursor' \/ i \in pel' \/ i < first
  BY ReadFact DEF IndInv, TypeOK, XREADGROUP
<1>2. GroupInv'
  BY DEF GroupInv, XREADGROUP
<1>3. \A i \in 1 .. Len(stream) : Outstanding(i) => Outstanding(i)' \/ i < first
  BY <1>1 DEF Outstanding, XREADGROUP
<1>4. NeverLost'
  BY <1>1, <1>3, NeverLostStep DEF IndInv, XREADGROUP, history
<1> QED
  BY <1>1, <1>2, <1>4 DEF IndInv, TypeOK, HistoryTypeOK, history

LEMMA ClaimCommand ==
    ASSUME IndInv, XAUTOCLAIM, UNCHANGED history
    PROVE  /\ ServerTypeOK' /\ GroupInv' /\ stream' = stream /\ NeverLost'
           /\ HistoryTypeOK' /\ Claimed \in SUBSET (1 .. Len(stream))
<1>1. ServerTypeOK' /\ stream' = stream /\ Claimed \subseteq pel
      /\ \A i \in pel : i \in pel' \/ i < first
  BY ClaimFact DEF IndInv, TypeOK, XAUTOCLAIM
<1>2. GroupInv' /\ cursor' = cursor
  BY DEF GroupInv, XAUTOCLAIM
<1>3. \A i \in 1 .. Len(stream) : Outstanding(i) => Outstanding(i)' \/ i < first
  BY <1>1, <1>2 DEF Outstanding
<1>4. NeverLost'
  BY <1>1, <1>3, NeverLostStep DEF IndInv, XAUTOCLAIM, history
<1>5. Claimed \in SUBSET (1 .. Len(stream))
  BY <1>1 DEF IndInv, TypeOK, ServerTypeOK
<1> QED
  BY <1>1, <1>2, <1>4, <1>5 DEF IndInv, TypeOK, HistoryTypeOK, history

LEMMA AckCommand ==
    ASSUME IndInv, NEW i \in 1 .. Len(stream), XACK(i), UNCHANGED history, Settled(i)
    PROVE  ServerTypeOK' /\ GroupInv' /\ stream' = stream /\ NeverLost' /\ HistoryTypeOK'
<1>1. ServerTypeOK' /\ pel' = pel \ {i} /\ stream' = stream /\ i \in Id
  BY AckFact DEF IndInv, TypeOK, ServerTypeOK, XACK, Id
<1>2. Settled(i)'
  BY DEF Settled, XACK, history
<1>3. NeverLost'
  BY <1>1, <1>2, NeverLostRemove DEF IndInv, XACK
<1> QED
  BY <1>1, <1>3 DEF IndInv, TypeOK, HistoryTypeOK, GroupInv, XACK, history

LEMMA BuryCommand ==
    ASSUME IndInv, NEW i \in 1 .. Len(stream), XADD_DLQ_XACK(i), UNCHANGED history
    PROVE  ServerTypeOK' /\ GroupInv' /\ stream' = stream /\ NeverLost' /\ HistoryTypeOK'
<1>1. i \in Id
  BY DEF IndInv, TypeOK, ServerTypeOK, Id
<1>2. /\ ServerTypeOK' /\ pel' = pel \ {i} /\ stream' = stream
      /\ dlq'[i] > 0
      /\ \A j \in Id : dlq[j] > 0 => dlq'[j] > 0
  BY <1>1, BuryFact DEF IndInv, TypeOK, XADD_DLQ_XACK
<1>3. NeverLost'
  BY <1>1, <1>2, NeverLostRemove DEF IndInv, Settled, XADD_DLQ_XACK
<1> QED
  BY <1>2, <1>3 DEF IndInv, TypeOK, HistoryTypeOK, GroupInv, XADD_DLQ_XACK, history

-------------------------------------------------------------------------------
(* One step of the proof per action. *)

\* A reply is put in batch; the loop is not in dispatch().
LEMMA ReceiveInv ==
    ASSUME IndInv, NEW w \in Worker, NEW next \in {"claim", "read"},
           NEW ids \in SUBSET (1 .. Len(stream)), Receive(w, ids, next),
           ServerTypeOK', GroupInv', stream' = stream, NeverLost', HistoryTypeOK'
    PROVE  IndInv'
<1>1. WorkerTypeOK'
  BY ReceiveType DEF IndInv, TypeOK
<1>2. /\ Goto(w, "drain") /\ UNCHANGED <<publisher, cur, served>>
      /\ faults' \in 0 .. MaxFaults
  BY DEF Receive, IndInv, TypeOK, history
<1>3. "drain" \notin Busy /\ "drain" # "ack"
  BY DEF Busy
<1> QED
  BY <1>1, <1>2, <1>3, WorkerInv

\* ack() and fail() leave dispatch() behind.
LEMMA ForgetInv ==
    ASSUME IndInv, NEW w \in Worker, Forget(w), UNCHANGED <<publisher, history, faults>>,
           ServerTypeOK', GroupInv', stream' = stream, NeverLost', HistoryTypeOK'
    PROVE  IndInv'
<1>1. WorkerTypeOK'
  BY ForgetType DEF IndInv, TypeOK, ServerTypeOK
<1>2. /\ Goto(w, "drain") /\ UNCHANGED served
      /\ \A v \in Worker : v # w => cur'[v] = cur[v]
      /\ faults' \in 0 .. MaxFaults
  BY DEF Forget, IndInv, TypeOK, WorkerTypeOK, history
<1>3. "drain" \notin Busy /\ "drain" # "ack"
  BY DEF Busy
<1> QED
  BY <1>1, <1>2, <1>3, WorkerInv

\* Receivers run on the entry w holds.
LEMMA RunReceiversInv ==
    ASSUME IndInv, NEW w \in Worker, pc[w] \in Busy, NEW ok \in SUBSET Receiver,
           RunReceivers(cur[w], ok), UNCHANGED server
    PROVE  /\ ServerTypeOK' /\ GroupInv' /\ stream' = stream /\ HistoryTypeOK'
           /\ NeverLost'
           /\ \A e \in Event : served[e] = Receiver => served'[e] = Receiver
           /\ served'[stream[cur[w]]] = served[stream[cur[w]]] \cup ok
<1>1. cur[w] \in 1 .. Len(stream) /\ cur[w] \in Id
  BY DEF IndInv, BusyInv, TypeOK, ServerTypeOK, Id
<1>2. /\ \A e \in Event : served[e] = Receiver => served'[e] = Receiver
      /\ served'[stream[cur[w]]] = served[stream[cur[w]]] \cup ok
  BY <1>1, ServedGrows DEF IndInv
<1>3. ServerTypeOK' /\ GroupInv' /\ stream' = stream
  BY DEF IndInv, TypeOK, ServerTypeOK, GroupInv, server
<1>4. HistoryTypeOK'
  BY <1>1, <1>3, RunReceiversType DEF IndInv, TypeOK
<1>5. \A i \in 1 .. Len(stream) : Outstanding(i) => Outstanding(i)'
  BY DEF Outstanding, server
<1>6. NeverLost'
  BY <1>2, <1>5, NeverLostStep DEF IndInv, RunReceivers, server
<1> QED
  BY <1>2, <1>3, <1>4, <1>6

LEMMA WorkInv ==
    ASSUME IndInv, NEW w \in Worker, Work(w)
    PROVE  IndInv'
<1> USE DEF Busy, Down
<1>1. CASE Listen(w)
  <2>1. ServerTypeOK' /\ GroupInv' /\ stream' = stream /\ NeverLost' /\ HistoryTypeOK'
    BY <1>1, ListenCommand DEF Listen
  <2>2. WorkerTypeOK' /\ UNCHANGED <<cur, served>> /\ faults' \in 0 .. MaxFaults
    BY <1>1, <2>1 DEF Listen, Goto, IndInv, TypeOK, WorkerTypeOK, history
  <2> QED
    BY <1>1, <2>1, <2>2, WorkerInv DEF Listen
<1>2. CASE AutoClaim(w)
  BY <1>2, ClaimCommand, ReceiveInv DEF AutoClaim, Receive
<1>3. CASE Read(w)
  BY <1>3, ReadCommand, ReceiveInv DEF Read, Receive
<1>4. CASE NoGroup(w)
  <2>1. WorkerTypeOK'
    BY <1>4 DEF NoGroup, Goto, IndInv, TypeOK, WorkerTypeOK, server
  <2> QED
    BY <1>4, <2>1, QuietInv DEF NoGroup
<1>5. CASE Recover(w)
  <2>1. /\ ServerTypeOK' /\ GroupInv' /\ stream' = stream /\ NeverLost'
        /\ HistoryTypeOK' /\ UNCHANGED served
    BY <1>5, RecreateCommand DEF Recover
  <2>2. WorkerTypeOK' /\ UNCHANGED <<publisher, cur>> /\ faults' \in 0 .. MaxFaults
    BY <1>5, <2>1 DEF Recover, Goto, IndInv, TypeOK, WorkerTypeOK
  <2>3. Goto(w, resume[w]) /\ resume[w] \in {"claim", "read"}
    BY <1>5 DEF Recover, IndInv, TypeOK, WorkerTypeOK
  <2> QED
    BY <2>1, <2>2, <2>3, WorkerInv
<1>6. CASE Discard(w)
  <2>1. PICK i \in batch[w] : /\ stream[i] \in Unreadable
                              /\ XACK(i)
                              /\ batch' = [batch EXCEPT ![w] = @ \ {i}]
    BY <1>6 DEF Discard
  <2>2. i \in 1 .. Len(stream)
    BY DEF IndInv, TypeOK, WorkerTypeOK
  <2>3. ServerTypeOK' /\ GroupInv' /\ stream' = stream /\ NeverLost' /\ HistoryTypeOK'
    BY <1>6, <2>1, <2>2, AckCommand DEF Discard, Settled
  <2>4. Goto(w, "drain") /\ UNCHANGED <<publisher, cur, served>>
    BY <1>6 DEF Discard, Goto, IndInv, TypeOK, WorkerTypeOK, history
  <2>5. WorkerTypeOK' /\ faults' \in 0 .. MaxFaults
    BY <1>6, <2>1, <2>3 DEF Discard, IndInv, TypeOK, WorkerTypeOK
  <2> QED
    BY <2>3, <2>4, <2>5, WorkerInv
<1>7. CASE Yield(w)
  <2>1. PICK i \in batch[w] :
            /\ stream[i] \notin Unreadable
            /\ IF stop[w] THEN Exit(w, "stopped")
               ELSE /\ Goto(w, "handle")
                    /\ cur' = [cur EXCEPT ![w] = i]
                    /\ batch' = [batch EXCEPT ![w] = @ \ {i}]
                    /\ UNCHANGED <<resume, handled, stop>>
    BY <1>7 DEF Yield
  <2>2. i \in 1 .. Len(stream)
    BY DEF IndInv, TypeOK, WorkerTypeOK
  <2>3. UNCHANGED <<server, publisher, history, faults>>
    BY <1>7 DEF Yield
  <2>4. CASE stop[w]
    <3>1. ServerTypeOK' /\ GroupInv' /\ stream' = stream /\ HistoryTypeOK'
      BY <2>3 DEF IndInv, TypeOK, ServerTypeOK, GroupInv, HistoryTypeOK, server, history
    <3>2. NeverLost' /\ UNCHANGED served
      BY <2>3, NeverLostStutter DEF IndInv, server, history
    <3> QED
      BY <2>1, <2>3, <2>4, <3>1, <3>2, ExitInv
  <2>5. CASE ~stop[w]
    <3>1. WorkerTypeOK'
      <4>1. pc' \in [Worker -> Down \cup Busy \cup {"claim", "read", "recover", "drain"}]
        BY <2>1, <2>5 DEF Goto, IndInv, TypeOK, WorkerTypeOK
      <4>2. i \in 0 .. Len(stream)
        BY <2>2 DEF IndInv, TypeOK, ServerTypeOK
      <4>3. cur' \in [Worker -> 0 .. Len(stream)]
            /\ batch' \in [Worker -> SUBSET (1 .. Len(stream))]
        BY <2>1, <2>5, <4>2 DEF IndInv, TypeOK, WorkerTypeOK
      <4> QED
        BY <2>1, <2>3, <2>5, <4>1, <4>3 DEF IndInv, TypeOK, WorkerTypeOK, server
    <3>2. cur'[w] = i /\ \A v \in Worker : v # w => cur'[v] = cur[v]
      BY <2>1, <2>5 DEF IndInv, TypeOK, WorkerTypeOK
    <3> QED
      BY <2>1, <2>2, <2>3, <2>5, <3>1, <3>2, QuietInv
  <2> QED
    BY <2>4, <2>5
<1>8. CASE Drained(w)
  <2>1. WorkerTypeOK'
    BY <1>8 DEF Drained, Goto, IndInv, TypeOK, WorkerTypeOK, server
  <2>2. Goto(w, resume[w]) /\ resume[w] \in {"claim", "read"}
    BY <1>8 DEF Drained, IndInv, TypeOK, WorkerTypeOK
  <2> QED
    BY <1>8, <2>1, <2>2, QuietInv DEF Drained
<1>9. CASE Dispatch(w)
  <2>1. PICK failed \in SUBSET Receiver :
            /\ RunReceivers(cur[w], Receiver \ failed)
            /\ Goto(w, IF failed = {} THEN "ack" ELSE "fail")
    BY <1>9 DEF Dispatch
  <2>2. pc[w] \in Busy /\ UNCHANGED <<server, publisher, resume, batch, cur, handled, stop, faults>>
    BY <1>9 DEF Dispatch
  <2>3. /\ ServerTypeOK' /\ GroupInv' /\ stream' = stream /\ HistoryTypeOK'
        /\ NeverLost'
        /\ \A e \in Event : served[e] = Receiver => served'[e] = Receiver
        /\ served'[stream[cur[w]]] = served[stream[cur[w]]] \cup (Receiver \ failed)
    BY <2>1, <2>2, RunReceiversInv
  <2>4. WorkerTypeOK' /\ faults' \in 0 .. MaxFaults
    BY <2>1, <2>2, <2>3 DEF Goto, IndInv, TypeOK, WorkerTypeOK
  <2>5. cur[w] \in 1 .. Len(stream) /\ stream[cur[w]] \notin Unreadable
    BY <2>2 DEF IndInv, BusyInv
  <2>6. failed = {} => served'[stream[cur[w]]] = Receiver
    BY <2>3, <2>5 DEF IndInv, TypeOK, ServerTypeOK, HistoryTypeOK
  <2> QED
    BY <2>1, <2>2, <2>3, <2>4, <2>5, <2>6, WorkerInv
<1>10. CASE Ack(w)
  <2>1. cur[w] \in 1 .. Len(stream) /\ Settled(cur[w])
    BY <1>10 DEF Ack, IndInv, BusyInv, AckInv, Settled
  <2>2. ServerTypeOK' /\ GroupInv' /\ stream' = stream /\ NeverLost' /\ HistoryTypeOK'
    BY <1>10, <2>1, AckCommand DEF Ack
  <2> QED
    BY <1>10, <2>2, ForgetInv DEF Ack
<1>11. CASE Fail(w)
  <2>1. UNCHANGED <<server, publisher, history, faults>>
    BY <1>11 DEF Fail
  <2>2. CASE Forget(w)
    <3>1. ServerTypeOK' /\ GroupInv' /\ stream' = stream /\ HistoryTypeOK'
      BY <2>1 DEF IndInv, TypeOK, ServerTypeOK, GroupInv, HistoryTypeOK, server, history
    <3>2. NeverLost'
      BY <2>1, NeverLostStutter DEF IndInv, server, history
    <3> QED
      BY <2>1, <2>2, <3>1, <3>2, ForgetInv
  <2>3. CASE Goto(w, "bury") /\ UNCHANGED <<resume, batch, cur, handled, stop>>
    <3>1. WorkerTypeOK'
      BY <2>1, <2>3 DEF Goto, IndInv, TypeOK, WorkerTypeOK, server
    <3>2. cur[w] \in 1 .. Len(stream) /\ stream[cur[w]] \notin Unreadable
      BY <1>11 DEF Fail, IndInv, BusyInv
    <3> QED
      BY <2>1, <2>3, <3>1, <3>2, QuietInv
  <2> QED
    BY <1>11, <2>2, <2>3 DEF Fail
<1>12. CASE Bury(w)
  <2>1. cur[w] \in 1 .. Len(stream)
    BY <1>12 DEF Bury, IndInv, BusyInv
  <2>2. ServerTypeOK' /\ GroupInv' /\ stream' = stream /\ NeverLost' /\ HistoryTypeOK'
    BY <1>12, <2>1, BuryCommand DEF Bury
  <2> QED
    BY <1>12, <2>2, ForgetInv DEF Bury
<1>13. CASE FailNoGroup(w)
  <2>1. ServerTypeOK' /\ GroupInv' /\ stream' = stream /\ HistoryTypeOK'
    BY <1>13 DEF FailNoGroup, IndInv, TypeOK, ServerTypeOK, GroupInv, HistoryTypeOK,
                 server, history
  <2>2. NeverLost' /\ UNCHANGED served
    BY <1>13, NeverLostStutter DEF FailNoGroup, IndInv, server, history
  <2> QED
    BY <1>13, <2>1, <2>2, ExitInv DEF FailNoGroup
<1> QED
  BY <1>1, <1>2, <1>3, <1>4, <1>5, <1>6, <1>7, <1>8, <1>9, <1>10, <1>11, <1>12,
     <1>13 DEF Work

LEMMA CallRaisesInv ==
    ASSUME IndInv, NEW w \in Worker, CallRaises(w)
    PROVE  IndInv'
<1>1. Exit(w, "raised") /\ Fault /\ UNCHANGED publisher /\ UnguardedCall(w)
      /\ "raised" \in Down
  BY DEF CallRaises, Down
<1>2. SUFFICES /\ ServerTypeOK' /\ GroupInv' /\ stream' = stream /\ NeverLost'
               /\ HistoryTypeOK'
               /\ UNCHANGED served
  BY <1>1, ExitInv
<1>3. CASE XGROUP_CREATE(0) /\ UNCHANGED history
  BY <1>3, ListenCommand DEF history
<1>4. CASE XGROUP_RECREATE
  BY <1>4, RecreateCommand
<1>5. CASE /\ \E i \in batch[w] : stream[i] \in Unreadable /\ XACK(i)
           /\ UNCHANGED history
  <2>1. PICK i \in batch[w] : stream[i] \in Unreadable /\ XACK(i)
    BY <1>5
  <2>2. i \in 1 .. Len(stream) /\ Settled(i)
    BY <2>1 DEF IndInv, TypeOK, WorkerTypeOK, Settled
  <2> QED
    BY <1>5, <2>1, <2>2, AckCommand DEF history
<1>6. CASE pc[w] = "ack" /\ XACK(cur[w]) /\ UNCHANGED history
  <2>1. cur[w] \in 1 .. Len(stream) /\ Settled(cur[w])
    BY <1>6 DEF IndInv, BusyInv, AckInv, Settled, Busy
  <2> QED
    BY <1>6, <2>1, AckCommand DEF history
<1>7. CASE pc[w] = "bury" /\ XADD_DLQ_XACK(cur[w]) /\ UNCHANGED history
  <2>1. cur[w] \in 1 .. Len(stream)
    BY <1>7 DEF IndInv, BusyInv, Busy
  <2> QED
    BY <1>7, <2>1, BuryCommand DEF history
<1>8. CASE UNCHANGED <<server, history>>
  <2>1. NeverLost'
    BY <1>8, NeverLostStutter DEF IndInv, server, history
  <2> QED
    BY <1>8, <2>1
    DEF IndInv, TypeOK, ServerTypeOK, HistoryTypeOK, GroupInv, server, history
<1> QED
  BY <1>1, <1>3, <1>4, <1>5, <1>6, <1>7, <1>8 DEF UnguardedCall

LEMMA FaultInv ==
    ASSUME IndInv, NEW w \in Worker,
           ConsumeInterrupted(w) \/ RequestStop(w) \/ Kill(w)
    PROVE  IndInv'
<1> USE DEF Busy, Down
<1>1. CASE ConsumeInterrupted(w)
  <2>1. UNCHANGED <<publisher, resume, batch, cur, handled, stop, history>> /\ Fault
    BY <1>1 DEF ConsumeInterrupted
  <2>2. PICK label \in {"claim", "read"} : Goto(w, label)
    BY <1>1 DEF ConsumeInterrupted
  <2>3. XAUTOCLAIM \/ XREADGROUP \/ UNCHANGED server
    BY <1>1 DEF ConsumeInterrupted
  <2>4. ServerTypeOK' /\ GroupInv' /\ stream' = stream /\ NeverLost' /\ HistoryTypeOK'
    <3>1. CASE UNCHANGED server
      <4>1. NeverLost'
        BY <2>1, <3>1, NeverLostStutter DEF IndInv, server, history
      <4> QED
        BY <2>1, <3>1, <4>1
        DEF IndInv, TypeOK, ServerTypeOK, HistoryTypeOK, GroupInv, server, history
    <3> QED
      BY <2>1, <2>3, <3>1, ReadCommand, ClaimCommand
  <2>5. WorkerTypeOK' /\ UNCHANGED served
    BY <2>1, <2>2, <2>4 DEF Goto, IndInv, TypeOK, WorkerTypeOK, history
  <2>6. faults' \in 0 .. MaxFaults
    BY <2>1, FaultType DEF IndInv, TypeOK
  <2> QED
    BY <2>1, <2>2, <2>4, <2>5, <2>6, WorkerInv
<1>2. CASE RequestStop(w)
  <2>1. /\ UNCHANGED <<server, publisher, pc, resume, batch, cur, handled, history>>
        /\ stop' = [stop EXCEPT ![w] = TRUE]
    BY <1>2 DEF RequestStop
  <2>2. TypeOK'
    <3>1. faults' \in 0 .. MaxFaults
      BY <1>2, FaultType DEF RequestStop, IndInv, TypeOK
    <3> QED
      BY <2>1, <3>1
      DEF IndInv, TypeOK, ServerTypeOK, PublisherTypeOK, WorkerTypeOK, HistoryTypeOK,
          server, publisher, history
  <2>3. NeverLost'
    BY <2>1, NeverLostStutter DEF IndInv, server, history
  <2> QED
    BY <2>1, <2>2, <2>3
    DEF IndInv, AttemptInv, GroupInv, BusyInv, AckInv, server, publisher, history
<1>3. CASE Kill(w)
  <2>1. Exit(w, "killed") /\ Fault /\ UNCHANGED <<server, publisher>>
    BY <1>3 DEF Kill
  <2>2. CASE pc[w] = "handle"
    <3>1. PICK ok \in SUBSET Receiver : RunReceivers(cur[w], ok)
      BY <1>3, <2>2 DEF Kill
    <3> QED
      BY <2>1, <2>2, <3>1, RunReceiversInv, ExitInv
  <2>3. CASE UNCHANGED history
    <3>1. NeverLost' /\ UNCHANGED served
      BY <2>1, <2>3, NeverLostStutter DEF IndInv, server, history
    <3>2. ServerTypeOK' /\ GroupInv' /\ stream' = stream /\ HistoryTypeOK'
      BY <2>1, <2>3
      DEF IndInv, TypeOK, ServerTypeOK, HistoryTypeOK, GroupInv, server, history
    <3> QED
      BY <2>1, <3>1, <3>2, ExitInv
  <2> QED
    BY <1>3, <2>2, <2>3 DEF Kill
<1> QED
  BY <1>1, <1>2, <1>3

LEMMA EnvironmentInv ==
    ASSUME IndInv, DestroyGroup \/ \E i \in Id : BecomeIdle(i)
    PROVE  IndInv'
<1>1. CASE DestroyGroup
  <2>1. /\ UNCHANGED <<publisher, worker, served, tried, missed, stream, first, dlq>>
        /\ group' = FALSE /\ cursor' = 0 /\ pel' = {} /\ idle' = {}
        /\ deliveries' = deliveries /\ gap' = Len(stream) + 1
    BY <1>1 DEF DestroyGroup, XGROUP_DESTROY
  <2>2. ServerTypeOK' /\ GroupInv'
    <3>1. 0 \in 0 .. Len(stream)
      BY DEF IndInv, TypeOK, ServerTypeOK
    <3> QED
      BY <2>1, <3>1 DEF IndInv, TypeOK, ServerTypeOK, GroupInv
  <2>3. faults' \in 0 .. MaxFaults
    BY <1>1, FaultType DEF DestroyGroup, IndInv, TypeOK
  <2>4. gap' \in 0 .. MaxEntries + 1
    BY <2>1 DEF IndInv, TypeOK, ServerTypeOK
  <2>5. TypeOK'
    BY <2>1, <2>2, <2>3, <2>4
    DEF IndInv, TypeOK, PublisherTypeOK, WorkerTypeOK, HistoryTypeOK, publisher, worker
  <2>6. \A i \in 1 .. Len(stream) : Outstanding(i)'
    BY <2>1 DEF Outstanding
  <2>7. NeverLost'
    BY <2>1, <2>6 DEF NeverLost
  <2> QED
    BY <2>1, <2>2, <2>5, <2>7
    DEF IndInv, AttemptInv, BusyInv, AckInv, publisher, worker
<1>2. CASE \E i \in Id : BecomeIdle(i)
  <2>1. /\ UNCHANGED <<publisher, worker, history, faults>>
        /\ UNCHANGED <<stream, first, group, cursor, pel, deliveries, dlq>>
        /\ idle' \subseteq pel
    BY <1>2 DEF BecomeIdle, ELAPSE, IndInv, TypeOK, ServerTypeOK
  <2>2. TypeOK'
    BY <2>1
    DEF IndInv, TypeOK, ServerTypeOK, PublisherTypeOK, WorkerTypeOK, HistoryTypeOK,
        publisher, worker, history
  <2>3. NeverLost'
    BY <2>1, NeverLostStutter DEF IndInv, history
  <2> QED
    BY <2>1, <2>2, <2>3
    DEF IndInv, AttemptInv, GroupInv, BusyInv, AckInv, publisher, worker, history
<1> QED
  BY <1>1, <1>2

-------------------------------------------------------------------------------
(* The theorems *)

LEMMA InitInv == ASSUME Init PROVE IndInv
<1>1. ServerTypeOK /\ stream = <<>> /\ group = FALSE /\ cursor = 0
  <2>1. <<>> \in Seq(Event) /\ Len(<<>>) = 0
    OBVIOUS
  <2>2. /\ [i \in Id |-> 0] \in [Id -> 0 .. MaxRetries]
        /\ [i \in Id |-> 0] \in [Id -> 0 .. 2]
    OBVIOUS
  <2>3. /\ stream = <<>> /\ first = 1 /\ group = FALSE /\ cursor = 0
        /\ pel = {} /\ idle = {}
        /\ deliveries = [i \in Id |-> 0] /\ dlq = [i \in Id |-> 0]
    BY DEF Init, ServerInit
  <2>4. deliveries \in [Id -> 0 .. MaxRetries] /\ dlq \in [Id -> 0 .. 2]
    BY <2>2, <2>3
  <2>5. stream \in Seq(Event) /\ Len(stream) = 0
    BY <2>1, <2>3
  <2>6. group \in BOOLEAN
    BY <2>3
  <2>7. /\ Len(stream) <= MaxEntries
        /\ first \in 1 .. MaxEntries + 1
        /\ cursor \in 0 .. Len(stream)
        /\ pel \subseteq 1 .. cursor
        /\ idle \subseteq pel
    BY <2>3, <2>5
  <2> QED
    BY <2>3, <2>4, <2>5, <2>6, <2>7 DEF ServerTypeOK
<1>2. TypeOK
  BY <1>1, WithinAssumption
  DEF Init, TypeOK, PublisherTypeOK, WorkerTypeOK, HistoryTypeOK, Down
<1> QED
  BY <1>1, <1>2
  DEF Init, IndInv, AttemptInv, GroupInv, BusyInv, AckInv, NeverLost, Busy

LEMMA StutterInv == ASSUME IndInv, UNCHANGED vars PROVE IndInv'
<1>1. NeverLost'
  BY NeverLostStutter DEF IndInv, vars, server, history
<1>2. TypeOK'
  BY DEF IndInv, TypeOK, ServerTypeOK, PublisherTypeOK, WorkerTypeOK, HistoryTypeOK,
         vars, server, publisher, worker, history
<1> QED
  BY <1>1, <1>2
  DEF IndInv, AttemptInv, GroupInv, BusyInv, AckInv, vars, server, publisher, worker,
      history

LEMMA NextInv == ASSUME IndInv, [Next]_vars PROVE IndInv'
BY PublishInv, WorkInv, CallRaisesInv, FaultInv, EnvironmentInv, StutterInv DEF Next

\* IndInv is an invariant of the broker, for any number of workers, receivers,
\* events and faults, any retry limit, batch sizes and trimming, with handlers
\* slow or not and the group lost or not.
THEOREM Invariance == Spec => []IndInv
<1>1. Init => IndInv
  BY InitInv
<1>2. IndInv /\ [Next]_vars => IndInv'
  BY NextInv
<1> QED
  BY <1>1, <1>2, PTL DEF Spec

\* The variables keep their types: redis_streams.py holds only ids Redis handed
\* to it, and publish() never exceeds its attempts.
THEOREM TypeCorrect == Spec => []TypeOK
<1>1. IndInv => TypeOK
  BY DEF IndInv
<1> QED
  BY <1>1, Invariance, PTL

\* At-least-once: redis_streams.py lets go of an entry only once it is settled,
\* missed by a group created again at "$", or trimmed by MAXLEN.
THEOREM AtLeastOnce == Spec => []NeverLost
<1>1. IndInv => NeverLost
  BY DEF IndInv
<1> QED
  BY <1>1, Invariance, PTL

-------------------------------------------------------------------------------
(* CopiesInv: how many entries publish() leaves. *)

LEMMA CopiesFinite ==
    ASSUME TypeOK, NEW e \in Event
    PROVE  IsFiniteSet(Copies(e)) /\ Cardinality(Copies(e)) \in Nat
<1>1. Len(stream) \in Nat /\ Copies(e) \subseteq 1 .. Len(stream)
  BY DEF TypeOK, ServerTypeOK, Copies
<1>2. IsFiniteSet(1 .. Len(stream))
  BY <1>1, FS_Interval
<1>3. IsFiniteSet(Copies(e))
  BY <1>1, <1>2, FS_Subset
<1> QED
  BY <1>3, FS_CardinalityType

\* An XADD makes one more entry of its event, and none of another.
LEMMA CopiesXadd ==
    ASSUME TypeOK, NEW e \in Event, XADD(e), NEW d \in Event
    PROVE  /\ d # e => Copies(d)' = Copies(d)
           /\ d = e => /\ Copies(d)' # {}
                       /\ Cardinality(Copies(d)') = Cardinality(Copies(d)) + 1
<1> PICK n : n = Len(stream)
  OBVIOUS
<1>1. /\ n \in Nat /\ Len(stream') = n + 1 /\ stream'[n + 1] = e
      /\ \A i \in 1 .. n : stream'[i] = stream[i]
  BY XaddFact DEF TypeOK, ServerTypeOK
<1>2. ASSUME d # e PROVE Copies(d)' = Copies(d)
  BY <1>1, <1>2 DEF Copies
<1>3. ASSUME d = e
      PROVE  /\ Copies(d)' # {}
             /\ Cardinality(Copies(d)') = Cardinality(Copies(d)) + 1
  <2>1. Copies(d)' = Copies(d) \cup {n + 1} /\ n + 1 \notin Copies(d)
    BY <1>1, <1>3 DEF Copies
  <2>2. Cardinality(Copies(d) \cup {n + 1}) = Cardinality(Copies(d)) + 1
    BY <2>1, CopiesFinite, FS_AddElement
  <2> QED
    BY <2>1, <2>2
<1> QED
  BY <1>2, <1>3

LEMMA CopiesNext ==
    ASSUME IndInv, CopiesInv, [Next]_vars
    PROVE  CopiesInv'
<1>0. TypeOK /\ AttemptInv
      /\ pub \in [Event -> {"pending", "returned", "raised"}]
      /\ attempt \in [Event -> 0 .. PublishRetries + 1]
  BY DEF IndInv, TypeOK, PublisherTypeOK
<1>1. ASSUME NEW e \in Event, Publish(e) \/ PublishInterrupted(e)
      PROVE  CopiesInv'
  <2> SUFFICES ASSUME NEW d \in Event
               PROVE  /\ pub'[d] = "pending" => Cardinality(Copies(d)') <= attempt'[d]
                      /\ pub'[d] = "raised" => Cardinality(Copies(d)') <= attempt'[d]
                      /\ pub'[d] = "returned" =>
                            /\ Copies(d)' # {}
                            /\ attempt'[d] <= PublishRetries
                            /\ Cardinality(Copies(d)') <= attempt'[d] + 1
    BY DEF CopiesInv
  <2>0. Cardinality(Copies(d)) \in Nat
    BY <1>0, CopiesFinite
  <2>1. CASE d # e
    <3>1. pub'[d] = pub[d] /\ attempt'[d] = attempt[d]
      BY <1>0, <1>1, <2>1 DEF Publish, PublishInterrupted
    <3>2. Copies(d)' = Copies(d)
      <4>1. CASE XADD(e)
        BY <1>0, <2>1, <4>1, CopiesXadd
      <4>2. CASE UNCHANGED server
        BY <4>2 DEF server, Copies
      <4> QED
        BY <1>1, <4>1, <4>2 DEF Publish, PublishInterrupted
    <3> QED
      BY <3>1, <3>2 DEF CopiesInv
  <2>2. CASE d = e /\ Publish(e)
    <3>1. /\ pub[d] = "pending" /\ pub'[d] = "returned" /\ attempt'[d] = attempt[d]
          /\ attempt[d] \in 0 .. PublishRetries + 1 /\ attempt[d] <= PublishRetries
      BY <1>0, <2>2 DEF Publish, AttemptInv
    <3>2. Copies(d)' # {} /\ Cardinality(Copies(d)') = Cardinality(Copies(d)) + 1
      BY <1>0, <2>2, CopiesXadd DEF Publish
    <3>3. Cardinality(Copies(d)) <= attempt[d]
      BY <3>1 DEF CopiesInv
    <3> QED
      BY <2>0, <3>1, <3>2, <3>3
  <2>3. CASE d = e /\ PublishInterrupted(e)
    <3>1. /\ pub[d] = "pending" /\ pub'[d] # "returned" /\ attempt'[d] = attempt[d] + 1
          /\ attempt[d] \in 0 .. PublishRetries + 1
      BY <1>0, <2>3 DEF PublishInterrupted
    <3>2. Cardinality(Copies(d)') \in {Cardinality(Copies(d)), Cardinality(Copies(d)) + 1}
      <4>1. CASE XADD(e)
        BY <1>0, <2>3, <4>1, CopiesXadd
      <4>2. CASE UNCHANGED server
        <5>1. Copies(d)' = Copies(d)
          BY <4>2 DEF server, Copies
        <5> QED
          BY <5>1
      <4> QED
        BY <2>3, <4>1, <4>2 DEF PublishInterrupted
    <3>3. Cardinality(Copies(d)) <= attempt[d]
      BY <3>1 DEF CopiesInv
    <3> QED
      BY <2>0, <3>1, <3>2, <3>3
  <2> QED
    BY <1>1, <2>1, <2>2, <2>3
<1>2. ASSUME UNCHANGED <<publisher, stream>>
      PROVE  CopiesInv'
  BY <1>2 DEF CopiesInv, Copies, publisher
<1>3. ASSUME NEW w \in Worker, Work(w)
      PROVE  UNCHANGED <<publisher, stream>>
  BY <1>3
  DEF Work, Listen, AutoClaim, Read, Receive, NoGroup, Recover, Discard, Yield, Drained,
      Dispatch, Ack, Fail, Bury, FailNoGroup, XGROUP_CREATE, XGROUP_RECREATE, XAUTOCLAIM,
      XREADGROUP, XACK, XADD_DLQ_XACK, server
<1>4. ASSUME NEW w \in Worker,
             ConsumeInterrupted(w) \/ CallRaises(w) \/ RequestStop(w) \/ Kill(w)
      PROVE  UNCHANGED <<publisher, stream>>
  BY <1>4
  DEF ConsumeInterrupted, CallRaises, UnguardedCall, RequestStop, Kill, XGROUP_CREATE,
      XGROUP_RECREATE, XAUTOCLAIM, XREADGROUP, XACK, XADD_DLQ_XACK, server
<1>5. CASE DestroyGroup \/ (\E i \in Id : BecomeIdle(i)) \/ UNCHANGED vars
  BY <1>2, <1>5 DEF DestroyGroup, BecomeIdle, XGROUP_DESTROY, ELAPSE, vars, server
<1> QED
  BY <1>1, <1>2, <1>3, <1>4, <1>5 DEF Next

LEMMA CopiesInit == ASSUME Init PROVE CopiesInv
<1>1. \A e \in Event : Copies(e) = {}
  <2>1. 1 .. Len(stream) = {}
    BY DEF Init, ServerInit
  <2> QED
    BY <2>1 DEF Copies
<1>2. pub = [e \in Event |-> "pending"] /\ attempt = [e \in Event |-> 0]
  BY DEF Init
<1> QED
  BY <1>1, <1>2, FS_EmptySet DEF CopiesInv

\* publish() neither loses what it says it stored nor stores it more often than
\* it tried: a returned event has an entry, and no event has more than
\* PUBLISH_RETRIES + 1, whatever replies are lost.
THEOREM PublishAccounts == Spec => []PublishedIsAccounted
<1>1. Init => IndInv /\ CopiesInv
  BY InitInv, CopiesInit
<1>2. IndInv /\ CopiesInv /\ [Next]_vars => IndInv' /\ CopiesInv'
  BY NextInv, CopiesNext
<1>3. IndInv /\ CopiesInv => PublishedIsAccounted
  <2> SUFFICES ASSUME IndInv, CopiesInv, NEW e \in Event
               PROVE  /\ pub[e] = "returned" => Copies(e) # {}
                      /\ Cardinality(Copies(e)) <= PublishRetries + 1
    BY DEF PublishedIsAccounted
  <2>1. /\ pub[e] \in {"pending", "returned", "raised"}
        /\ attempt[e] \in 0 .. PublishRetries + 1
        /\ Cardinality(Copies(e)) \in Nat
    BY CopiesFinite DEF IndInv, TypeOK, PublisherTypeOK
  <2> QED
    BY <2>1 DEF CopiesInv
<1> QED
  BY <1>1, <1>2, <1>3, PTL DEF Spec

-------------------------------------------------------------------------------
(* DeliveryInv and HolderInv: who holds an entry, and how often it was     *)
(* delivered, before the group is lost.                                    *)

\* The ids of the stream, those delivered and those held are in Id.
LEMMA IdFact ==
    ASSUME TypeOK
    PROVE  /\ Len(stream) \in Nat /\ cursor \in Nat /\ cursor <= Len(stream)
           /\ 1 .. Len(stream) \subseteq Id /\ 1 .. cursor \subseteq Id
           /\ pel \subseteq 1 .. cursor /\ idle \subseteq pel
           /\ \A w \in Worker : batch[w] \subseteq Id /\ cur[w] \in Id \cup {0}
           /\ \A i \in Id : deliveries[i] \in 0 .. MaxRetries /\ dlq[i] \in 0 .. 2
BY DEF TypeOK, ServerTypeOK, WorkerTypeOK, Id

\* The delivery counters and the cursor only grow.
Grows ==
    /\ stream' = stream
    /\ cursor <= cursor'
    /\ \A i \in 1 .. cursor : deliveries[i] <= deliveries'[i]
    /\ \A i \in pel' : i \in pel \/ (i > cursor /\ Delivered(i)')

\* Nobody but w is moved.
Alone(w) ==
    /\ w \in Worker
    /\ \A v \in Worker : v # w => /\ batch'[v] = batch[v] /\ cur'[v] = cur[v]
                                  /\ pc'[v] = pc[v]

LEMMA DeliveredGrows ==
    ASSUME IndInv, Grows, TypeOK', NEW i \in Id, Delivered(i)
    PROVE  /\ Delivered(i)'
           /\ deliveries[i] = MaxRetries => deliveries'[i] = MaxRetries
<1>1. /\ deliveries[i] \in 0 .. MaxRetries /\ deliveries'[i] \in 0 .. MaxRetries
      /\ cursor \in Nat /\ cursor' \in Nat /\ cursor <= cursor'
      /\ i \in 1 .. cursor
  BY DEF IndInv, TypeOK, ServerTypeOK, Delivered, Grows
<1>2. deliveries[i] <= deliveries'[i]
  BY <1>1 DEF Grows
<1> QED
  BY <1>1, <1>2 DEF Delivered

\* A worker's step keeps DeliveryInv when it takes up, or buries, only what has
\* been delivered.
LEMMA DeliveryStep ==
    ASSUME IndInv, DeliveryInv, TypeOK', Grows, gap' = gap, NEW w, Alone(w),
           gap = 0 =>
             /\ \A i \in Id : Holds(w, i)' => Holds(w, i) \/ Delivered(i)'
             /\ pc'[w] = "bury" => deliveries'[cur'[w]] = MaxRetries
             /\ \A i \in Id : dlq'[i] > 0 =>
                   dlq[i] > 0 \/ (Delivered(i)' /\ deliveries'[i] = MaxRetries)
    PROVE  DeliveryInv'
<1> SUFFICES ASSUME gap = 0
             PROVE  /\ \A i \in pel' : Delivered(i)'
                    /\ \A v \in Worker, i \in Id : Holds(v, i)' => Delivered(i)'
                    /\ \A v \in Worker : pc'[v] = "bury" => deliveries'[cur'[v]] = MaxRetries
                    /\ \A i \in Id : dlq'[i] > 0 => Delivered(i)' /\ deliveries'[i] = MaxRetries
  BY DEF DeliveryInv
<1>0. w \in Worker
  BY DEF Alone
<1>1. ASSUME NEW i \in pel' PROVE Delivered(i)'
  <2>1. i \in Id
    BY IdFact, <1>1 DEF TypeOK, ServerTypeOK, Id
  <2>2. CASE i \in pel
    BY <2>1, <2>2, DeliveredGrows DEF DeliveryInv
  <2> QED
    BY <1>1, <2>2 DEF Grows
<1>2. ASSUME NEW v \in Worker, NEW i \in Id, Holds(v, i)'
      PROVE  Delivered(i)'
  <2>1. Holds(v, i) => Delivered(i)'
    BY DeliveredGrows DEF DeliveryInv
  <2>2. v # w => Holds(v, i)
    BY <1>2 DEF Alone, Holds
  <2> QED
    BY <1>2, <2>1, <2>2
<1>3. ASSUME NEW v \in Worker, pc'[v] = "bury"
      PROVE  deliveries'[cur'[v]] = MaxRetries
  <2>1. CASE v = w
    BY <1>3, <2>1
  <2>2. CASE v # w
    <3>1. pc[v] = "bury" /\ cur'[v] = cur[v]
      BY <1>3, <2>2 DEF Alone
    <3>2. cur[v] \in Id /\ Holds(v, cur[v])
      BY <3>1, IdFact DEF IndInv, BusyInv, Busy, Holds
    <3>3. Delivered(cur[v]) /\ deliveries[cur[v]] = MaxRetries
      BY <3>1, <3>2 DEF DeliveryInv
    <3> QED
      BY <3>1, <3>2, <3>3, DeliveredGrows
  <2> QED
    BY <2>1, <2>2
<1>4. ASSUME NEW i \in Id, dlq'[i] > 0
      PROVE  Delivered(i)' /\ deliveries'[i] = MaxRetries
  BY <1>4, DeliveredGrows DEF DeliveryInv
<1> QED
  BY <1>1, <1>2, <1>3, <1>4

\* A worker's step keeps HolderInv when what it takes up was in nobody's hands.
LEMMA HolderStep ==
    ASSUME IndInv, DeliveryInv, HolderInv, Grows, gap' = gap, NEW w, Alone(w),
           gap = 0 =>
             /\ idle' \subseteq idle
             /\ cur'[w] \notin batch'[w]
             /\ \A i \in Id : Holds(w, i)' =>
                   /\ i \notin idle'
                   /\ \/ Holds(w, i)
                      \/ dlq'[i] = 0 /\ \A v \in Worker : ~Holds(v, i)
             /\ \A i \in Id : dlq'[i] # dlq[i] =>
                   /\ Holds(w, i) /\ ~Holds(w, i)'
                   /\ dlq'[i] = Bump(dlq[i], 2) /\ i \notin pel'
    PROVE  HolderInv'
<1> SUFFICES ASSUME gap = 0
             PROVE  /\ \A v \in Worker, i \in Id : Holds(v, i)' => i \notin idle'
                    /\ \A v \in Worker : cur'[v] \notin batch'[v]
                    /\ OneHolder'
                    /\ BuriedOnce'
  BY DEF HolderInv
<1>0. w \in Worker /\ stream' = stream /\ 1 .. Len(stream) \subseteq Id
  BY IdFact DEF Alone, Grows, IndInv
<1>1. \A v \in Worker, i \in Id : v # w => (Holds(v, i)' <=> Holds(v, i))
  BY DEF Alone, Holds
<1>2. ASSUME NEW v \in Worker, NEW i \in Id, Holds(v, i)'
      PROVE  i \notin idle'
  BY <1>1, <1>2 DEF HolderInv
<1>3. ASSUME NEW v \in Worker
      PROVE  cur'[v] \notin batch'[v]
  BY <1>3 DEF HolderInv, Alone
<1>4. OneHolder'
  <2> SUFFICES ASSUME NEW i \in 1 .. Len(stream), NEW v \in Worker, NEW u \in Worker,
                      v # u, Holds(v, i)', Holds(u, i)'
               PROVE  FALSE
    BY <1>0 DEF OneHolder
  <2>1. i \in Id
    BY <1>0
  <2>2. ~(Holds(v, i) /\ Holds(u, i))
    BY DEF HolderInv, OneHolder
  <2>3. CASE v = w
    BY <1>1, <2>1, <2>2, <2>3
  <2>4. CASE u = w
    BY <1>1, <2>1, <2>2, <2>4
  <2> QED
    BY <1>1, <2>1, <2>2, <2>3, <2>4
<1>5. BuriedOnce'
  <2> SUFFICES ASSUME NEW i \in 1 .. Len(stream), dlq'[i] > 0
               PROVE  dlq'[i] = 1 /\ i \notin pel' /\ \A v \in Worker : ~Holds(v, i)'
    BY <1>0 DEF BuriedOnce
  <2>1. i \in Id
    BY <1>0
  <2>2. CASE dlq'[i] = dlq[i]
    <3>1. dlq[i] = 1 /\ i \notin pel /\ \A v \in Worker : ~Holds(v, i)
      BY <2>2 DEF HolderInv, BuriedOnce
    <3>2. i <= cursor
      BY <2>1, <3>1, IdFact DEF DeliveryInv, Delivered, IndInv
    <3>3. i \notin pel'
      BY <2>1, <3>1, <3>2 DEF Grows, IndInv, TypeOK, ServerTypeOK, Id
    <3>4. \A v \in Worker : ~Holds(v, i)'
      BY <1>1, <2>1, <2>2, <3>1
    <3> QED
      BY <2>2, <3>1, <3>3, <3>4
  <2>3. CASE dlq'[i] # dlq[i]
    <3>1. Holds(w, i) /\ ~Holds(w, i)' /\ dlq'[i] = Bump(dlq[i], 2) /\ i \notin pel'
      BY <2>1, <2>3
    <3>2. ~(dlq[i] > 0)
      BY <1>0, <3>1 DEF HolderInv, BuriedOnce
    <3>3. dlq[i] = 0
      BY <2>1, <3>2 DEF IndInv, TypeOK, ServerTypeOK
    <3>4. \A v \in Worker : v # w => ~Holds(v, i)
      BY <1>0, <3>1 DEF HolderInv, OneHolder
    <3> QED
      BY <1>1, <2>1, <3>1, <3>3, <3>4 DEF Bump
  <2> QED
    BY <2>2, <2>3
<1> QED
  BY <1>2, <1>3, <1>4, <1>5

\* A step that hands nothing out and buries nothing.
LEMMA LetGo ==
    ASSUME IndInv, TypeOK', DeliveryInv, NEW w, Alone(w), gap' = gap,
           stream' = stream, cursor <= cursor', UNCHANGED <<deliveries, dlq>>,
           pel' \subseteq pel, idle' \subseteq idle,
           \A i \in Id : Holds(w, i)' => Holds(w, i),
           cur[w] \notin batch[w] => cur'[w] \notin batch'[w],
           pc'[w] = "bury" /\ gap = 0 => deliveries[cur'[w]] = MaxRetries
    PROVE  DeliveryInv' /\ (HolderInv => HolderInv')
<1>0. w \in Worker
  BY DEF Alone
<1>1. Grows
  BY IdFact DEF Grows, IndInv
<1>2. DeliveryInv'
  <2>1. gap = 0 => \A i \in Id : dlq'[i] > 0 => dlq[i] > 0
    OBVIOUS
  <2> QED
    BY <1>1, <2>1, DeliveryStep
<1>3. ASSUME HolderInv PROVE HolderInv'
  <2>1. ASSUME gap = 0
        PROVE  /\ cur'[w] \notin batch'[w]
               /\ \A i \in Id : Holds(w, i)' => i \notin idle' /\ Holds(w, i)
    BY <1>0, <1>3, <2>1 DEF HolderInv
  <2> QED
    BY <1>1, <1>3, <2>1, HolderStep
<1> QED
  BY <1>2, <1>3

\* What XREADGROUP hands out lay ahead of the cursor.
LEMMA HandOutFresh ==
    ASSUME IndInv, TypeOK', DeliveryInv, NEW w, Alone(w), gap' = gap, XREADGROUP,
           \A i \in Id : Holds(w, i)' => Holds(w, i) \/ i \in Fresh,
           cur'[w] = cur[w], batch'[w] \in {batch[w], Fresh}, pc'[w] # "bury"
    PROVE  DeliveryInv' /\ (HolderInv => HolderInv')
<1>0. w \in Worker
  BY DEF Alone
<1>1. /\ Fresh \subseteq 1 .. Len(stream)
      /\ \A i \in Fresh : i > cursor
      /\ Len(stream) \in Nat /\ cursor \in Nat /\ 1 .. Len(stream) \subseteq Id
  BY FreshFact, IdFact DEF IndInv, TypeOK
<1>2. /\ stream' = stream /\ dlq' = dlq /\ pel' = pel \cup Fresh
      /\ idle' \subseteq idle /\ \A i \in Fresh : i \notin idle'
  BY DEF XREADGROUP
<1>3. \A i \in Id : deliveries'[i] = IF i \in Fresh THEN 1 ELSE deliveries[i]
  BY DEF XREADGROUP
<1>4. cursor' \in Nat /\ pel' \subseteq 1 .. cursor'
  BY DEF TypeOK, ServerTypeOK
<1>5. cursor <= cursor'
  <2>1. CASE Fresh = {}
    BY <1>1, <2>1 DEF XREADGROUP
  <2>2. CASE Fresh # {}
    <3>1. PICK i \in Fresh : i \in 1 .. cursor' /\ i > cursor
      BY <1>1, <1>2, <1>4, <2>2
    <3> QED
      BY <1>1, <1>4, <3>1
  <2> QED
    BY <2>1, <2>2
<1>6. \A i \in Fresh : Delivered(i)'
  BY <1>1, <1>2, <1>3, <1>4 DEF Delivered
<1>7. Grows
  <2>1. ASSUME NEW i \in 1 .. cursor
        PROVE  deliveries[i] <= deliveries'[i]
    <3>1. i \in Id /\ i \notin Fresh
      BY <1>1, IdFact DEF IndInv
    <3> QED
      BY <1>3, <3>1 DEF IndInv, TypeOK, ServerTypeOK
  <2> QED
    BY <1>1, <1>2, <1>5, <1>6, <2>1 DEF Grows
<1>8. DeliveryInv'
  BY <1>2, <1>6, <1>7, DeliveryStep
<1>9. ASSUME HolderInv PROVE HolderInv'
  <2> SUFFICES ASSUME gap = 0
               PROVE  /\ cur'[w] \notin batch'[w]
                      /\ \A i \in Id : Holds(w, i)' =>
                            /\ i \notin idle'
                            /\ \/ Holds(w, i)
                               \/ dlq'[i] = 0 /\ \A v \in Worker : ~Holds(v, i)
    BY <1>2, <1>7, <1>9, HolderStep
  <2>1. ASSUME NEW i \in Fresh
        PROVE  dlq'[i] = 0 /\ \A v \in Worker : ~Holds(v, i)
    <3>1. i \in Id /\ ~Delivered(i)
      BY <1>1 DEF Delivered
    <3>2. \A v \in Worker : ~Holds(v, i)
      BY <3>1 DEF DeliveryInv
    <3>3. ~(dlq[i] > 0) /\ dlq[i] \in 0 .. 2
      BY <3>1 DEF DeliveryInv, IndInv, TypeOK, ServerTypeOK
    <3> QED
      BY <1>2, <3>2, <3>3
  <2>2. cur'[w] \notin batch'[w]
    BY <1>0, <1>9, <2>1 DEF HolderInv, Holds
  <2>3. \A i \in Id : Holds(w, i) => i \notin idle'
    BY <1>0, <1>2, <1>9 DEF HolderInv
  <2> QED
    BY <1>2, <2>1, <2>2, <2>3
<1> QED
  BY <1>8, <1>9

\* What XAUTOCLAIM hands out was idle, hence in nobody's hands.
LEMMA HandOutClaimed ==
    ASSUME IndInv, TypeOK', DeliveryInv, NEW w, Alone(w), gap' = gap, XAUTOCLAIM,
           \A i \in Id : Holds(w, i)' => Holds(w, i) \/ i \in Claimed,
           cur'[w] = cur[w], batch'[w] \in {batch[w], Claimed}, pc'[w] # "bury"
    PROVE  DeliveryInv' /\ (HolderInv => HolderInv')
<1>0. w \in Worker
  BY DEF Alone
<1>1. /\ Claimed \subseteq pel /\ Claimed \subseteq idle /\ Claimed \subseteq Claimable
  <2>1. Claimed \subseteq pel /\ Claimed \subseteq Claimable
    BY DEF Claimed, Claimable
  <2>2. \A i \in Claimed : ~(i < first)
    <3>1. \A i \in pel : i \in Nat
      BY IdFact DEF IndInv
    <3>2. first \in Nat
      BY DEF IndInv, TypeOK, ServerTypeOK
    <3> QED
      BY <2>1, <3>1, <3>2 DEF Claimed
  <2> QED
    BY <2>1, <2>2 DEF Claimed, Claimable
<1>2. /\ pel \subseteq Id /\ Len(stream) \in Nat /\ cursor \in Nat
  BY IdFact DEF IndInv, TypeOK, ServerTypeOK, Id
<1>3. /\ UNCHANGED <<stream, cursor, dlq>> /\ pel' \subseteq pel
      /\ idle' = idle \ Claimable
  BY DEF XAUTOCLAIM
<1>4. \A i \in Id : /\ deliveries[i] \in 0 .. MaxRetries
                     /\ deliveries'[i] = IF i \in Claimed
                                         THEN Bump(deliveries[i], MaxRetries)
                                         ELSE deliveries[i]
  BY DEF XAUTOCLAIM, IndInv, TypeOK, ServerTypeOK
<1>5. \A i \in Id : deliveries[i] <= deliveries'[i]
  BY <1>4 DEF Bump
<1>6. Grows
  BY <1>2, <1>3, <1>5, IdFact DEF Grows, IndInv
<1>7. \A i \in Claimed : gap = 0 => Delivered(i)'
  BY <1>1, <1>2, <1>6, DeliveredGrows DEF DeliveryInv
<1>8. DeliveryInv'
  BY <1>3, <1>6, <1>7, DeliveryStep
<1>9. ASSUME HolderInv PROVE HolderInv'
  <2> SUFFICES ASSUME gap = 0
               PROVE  /\ cur'[w] \notin batch'[w]
                      /\ \A i \in Id : Holds(w, i)' =>
                            /\ i \notin idle'
                            /\ \/ Holds(w, i)
                               \/ dlq'[i] = 0 /\ \A v \in Worker : ~Holds(v, i)
    BY <1>3, <1>6, <1>9, HolderStep
  <2>1. ASSUME NEW i \in Claimed
        PROVE  i \notin idle' /\ dlq'[i] = 0 /\ \A v \in Worker : ~Holds(v, i)
    <3>1. i \in Id /\ i \in idle /\ i \in pel /\ i \in 1 .. Len(stream)
      BY <1>1, <1>2, IdFact DEF IndInv
    <3>2. \A v \in Worker : ~Holds(v, i)
      BY <1>9, <3>1 DEF HolderInv
    <3>3. ~(dlq[i] > 0) /\ dlq[i] \in 0 .. 2
      BY <1>9, <3>1 DEF HolderInv, BuriedOnce, IndInv, TypeOK, ServerTypeOK
    <3> QED
      BY <1>1, <1>3, <3>2, <3>3
  <2>2. cur'[w] \notin batch'[w]
    BY <1>0, <1>9, <2>1 DEF HolderInv, Holds
  <2>3. \A i \in Id : Holds(w, i) => i \notin idle'
    BY <1>0, <1>3, <1>9 DEF HolderInv
  <2> QED
    BY <2>1, <2>2, <2>3
<1> QED
  BY <1>8, <1>9

\* The transaction of fail(): the worker lets go of what it buries.
LEMMA BuryHeld ==
    ASSUME IndInv, TypeOK', DeliveryInv, NEW w, Alone(w), gap' = gap,
           pc[w] = "bury", XADD_DLQ_XACK(cur[w]),
           cur'[w] = 0, batch'[w] \in {batch[w], {}}, pc'[w] # "bury"
    PROVE  DeliveryInv' /\ (HolderInv => HolderInv')
<1> PICK c : c = cur[w]
  OBVIOUS
<1>0. w \in Worker /\ c \in Id /\ batch[w] \subseteq Id /\ Holds(w, c)
  BY IdFact DEF Alone, IndInv, BusyInv, Busy, Holds
<1>1. /\ UNCHANGED <<stream, cursor, deliveries>> /\ pel' = pel \ {c}
      /\ idle' \subseteq idle
  BY DEF XADD_DLQ_XACK
<1>2. Grows
  BY <1>1, IdFact DEF Grows, IndInv
<1>3. \A i \in Id : dlq'[i] = IF i = c THEN Bump(dlq[i], 2) ELSE dlq[i]
  BY DEF XADD_DLQ_XACK, IndInv, TypeOK, ServerTypeOK
<1>4. \A i \in Id : Holds(w, i)' => Holds(w, i) /\ i \in batch[w]
  BY DEF Holds, Id
<1>5. DeliveryInv'
  <2>1. ASSUME gap = 0
        PROVE  Delivered(c)' /\ deliveries'[c] = MaxRetries
    BY <1>0, <1>1, <2>1 DEF DeliveryInv, Delivered
  <2> QED
    BY <1>2, <1>3, <1>4, <2>1, DeliveryStep
<1>6. ASSUME HolderInv PROVE HolderInv'
  <2> SUFFICES ASSUME gap = 0
               PROVE  /\ cur'[w] \notin batch'[w]
                      /\ \A i \in Id : Holds(w, i)' => i \notin idle' /\ Holds(w, i)
                      /\ ~Holds(w, c)'
    BY <1>0, <1>1, <1>2, <1>3, <1>6, HolderStep
  <2>1. cur'[w] \notin batch'[w]
    BY <1>0 DEF Id
  <2>2. c \notin batch[w]
    BY <1>0, <1>6 DEF HolderInv
  <2> QED
    BY <1>0, <1>1, <1>4, <1>6, <2>1, <2>2 DEF HolderInv
<1> QED
  BY <1>5, <1>6

-------------------------------------------------------------------------------
(* The steps keep DeliveryInv and, while a reply is handled in time, HolderInv. *)

LEMMA WorkHolds ==
    ASSUME IndInv, TypeOK', DeliveryInv, NEW w \in Worker, Work(w)
    PROVE  DeliveryInv' /\ (HolderInv => HolderInv')
<1> USE DEF Alone, Goto
<1>0. /\ pc \in [Worker -> Down \cup Busy \cup {"claim", "read", "recover", "drain"}]
      /\ batch \in [Worker -> SUBSET (1 .. Len(stream))]
      /\ cur \in [Worker -> 0 .. Len(stream)]
  BY DEF IndInv, TypeOK, WorkerTypeOK
<1>1. /\ cursor \in Nat /\ Len(stream) \in Nat /\ cursor <= Len(stream)
      /\ batch[w] \subseteq Id /\ 0 \notin Id
      /\ ~group => cursor = 0
  BY IdFact DEF IndInv, GroupInv, Id
<1>2. CASE Listen(w)
  BY <1>0, <1>1, <1>2, LetGo DEF Listen, XGROUP_CREATE, Holds, history
<1>3. CASE AutoClaim(w)
  BY <1>0, <1>3, HandOutClaimed DEF AutoClaim, Receive, Holds, history
<1>4. CASE Read(w)
  BY <1>0, <1>4, HandOutFresh DEF Read, Receive, Holds, history
<1>5. CASE NoGroup(w) \/ Drained(w) \/ Dispatch(w)
  <2>1. UNCHANGED <<server, batch, cur, gap>>
    BY <1>5 DEF NoGroup, Drained, Dispatch, RunReceivers, history
  <2>2. \E label : label # "bury" /\ Goto(w, label)
    BY <1>5 DEF NoGroup, Drained, Dispatch, WorkerTypeOK, IndInv, TypeOK
  <2> QED
    BY <1>0, <1>1, <2>1, <2>2, LetGo DEF Holds, server
<1>6. CASE Recover(w)
  <2>1. cursor <= cursor' /\ gap' = gap
    BY <1>1, <1>6 DEF Recover, XGROUP_RECREATE, XGROUP_CREATE
  <2>2. resume[w] # "bury"
    BY DEF WorkerTypeOK, IndInv, TypeOK
  <2> QED
    BY <1>0, <1>6, <2>1, <2>2, LetGo DEF Recover, XGROUP_RECREATE, XGROUP_CREATE, Holds
<1>7. CASE Discard(w)
  BY <1>0, <1>1, <1>7, LetGo DEF Discard, XACK, Holds, history
<1>8. CASE Yield(w)
  BY <1>0, <1>1, <1>8, LetGo DEF Yield, Exit, Holds, history, server
<1>9. CASE Ack(w)
  BY <1>0, <1>1, <1>9, LetGo DEF Ack, XACK, Forget, Holds, history
<1>10. CASE Fail(w)
  <2>1. cur[w] \in Id /\ Holds(w, cur[w])
    BY <1>10, IdFact DEF Fail, IndInv, BusyInv, Busy, Holds
  <2>2. ASSUME ~Retried(cur[w]), gap = 0
        PROVE  deliveries[cur[w]] = MaxRetries
    <3>1. deliveries[cur[w]] > 0 /\ deliveries[cur[w]] \in 0 .. MaxRetries
      BY <2>1, <2>2, IdFact DEF DeliveryInv, Delivered, IndInv
    <3> QED
      BY <2>2, <3>1 DEF Retried, XPENDING
  <2>3. CASE Retried(cur[w])
    BY <1>0, <1>1, <1>10, <2>3, LetGo DEF Fail, Forget, Holds, history, server
  <2>4. CASE ~Retried(cur[w])
    BY <1>0, <1>1, <1>10, <2>2, <2>4, LetGo DEF Fail, Holds, history, server
  <2> QED
    BY <2>3, <2>4
<1>11. CASE Bury(w)
  BY <1>0, <1>1, <1>11, BuryHeld DEF Bury, Forget, Holds, history
<1>12. CASE FailNoGroup(w)
  BY <1>0, <1>1, <1>12, LetGo DEF FailNoGroup, Exit, Holds, history, server
<1> QED
  BY <1>2, <1>3, <1>4, <1>5, <1>6, <1>7, <1>8, <1>9, <1>10, <1>11, <1>12 DEF Work

\* A worker that ends holds nothing.
LEMMA ExitHolds ==
    ASSUME IndInv, TypeOK', DeliveryInv, NEW w \in Worker, NEW why \in Down,
           Exit(w, why), gap' = gap, stream' = stream, cursor <= cursor',
           UNCHANGED <<deliveries, dlq>>, pel' \subseteq pel, idle' \subseteq idle
    PROVE  DeliveryInv' /\ (HolderInv => HolderInv')
<1>1. /\ pc'[w] = why /\ batch'[w] = {} /\ cur'[w] = 0
      /\ \A v \in Worker : v # w => /\ batch'[v] = batch[v] /\ cur'[v] = cur[v]
                                    /\ pc'[v] = pc[v]
  BY DEF Exit, Goto, IndInv, TypeOK, WorkerTypeOK
<1>2. Alone(w) /\ pc'[w] # "bury"
  BY <1>1 DEF Alone, Down
<1>3. \A i \in Id : ~Holds(w, i)'
  BY <1>1 DEF Holds, Id
<1> QED
  BY <1>1, <1>2, <1>3, LetGo

LEMMA CallRaisesHolds ==
    ASSUME IndInv, TypeOK', DeliveryInv, NEW w \in Worker, CallRaises(w)
    PROVE  DeliveryInv' /\ (HolderInv => HolderInv')
<1>1. Exit(w, "raised") /\ UnguardedCall(w) /\ "raised" \in Down
  BY DEF CallRaises, Down
<1>2. CASE pc[w] = "bury" /\ XADD_DLQ_XACK(cur[w])
  <2>1. gap' = gap
    BY <1>1, <1>2 DEF UnguardedCall, Down, history
  <2>2. Alone(w) /\ batch'[w] = {} /\ cur'[w] = 0 /\ pc'[w] # "bury"
    BY <1>1 DEF Exit, Goto, Alone, IndInv, TypeOK, WorkerTypeOK
  <2> QED
    BY <1>2, <2>1, <2>2, BuryHeld
<1>3. CASE ~(pc[w] = "bury" /\ XADD_DLQ_XACK(cur[w]))
  <2>1. cursor \in Nat /\ Len(stream) \in Nat /\ cursor <= Len(stream)
        /\ (~group => cursor = 0)
    BY IdFact DEF IndInv, GroupInv
  <2>2. /\ gap' = gap /\ stream' = stream /\ cursor <= cursor'
        /\ UNCHANGED <<deliveries, dlq>>
        /\ pel' \subseteq pel /\ idle' \subseteq idle
    BY <1>1, <1>3, <2>1
    DEF UnguardedCall, XGROUP_CREATE, XGROUP_RECREATE, XACK, history, server
  <2> QED
    BY <1>1, <2>2, ExitHolds
<1> QED
  BY <1>2, <1>3

LEMMA FaultHolds ==
    ASSUME IndInv, TypeOK', DeliveryInv, NEW w \in Worker,
           ConsumeInterrupted(w) \/ RequestStop(w) \/ Kill(w)
    PROVE  DeliveryInv' /\ (HolderInv => HolderInv')
<1>0. cursor \in Nat
  BY IdFact DEF IndInv
<1>1. CASE ConsumeInterrupted(w)
  <2>1. UNCHANGED <<batch, cur, gap>>
    BY <1>1 DEF ConsumeInterrupted, history
  <2>2. Alone(w) /\ pc'[w] # "bury" /\ \A i \in Id : Holds(w, i)' => Holds(w, i)
    BY <1>1, <2>1 DEF ConsumeInterrupted, Goto, Alone, Holds, IndInv, TypeOK, WorkerTypeOK
  <2>3. CASE XAUTOCLAIM
    BY <2>1, <2>2, <2>3, HandOutClaimed
  <2>4. CASE XREADGROUP
    BY <2>1, <2>2, <2>4, HandOutFresh
  <2>5. CASE UNCHANGED server
    BY <1>0, <2>1, <2>2, <2>5, LetGo DEF server
  <2> QED
    BY <1>1, <2>3, <2>4, <2>5 DEF ConsumeInterrupted
<1>2. CASE RequestStop(w)
  <2>1. UNCHANGED <<server, pc, batch, cur, gap>>
    BY <1>2 DEF RequestStop, history
  <2>2. pc[w] = "bury" /\ gap = 0 => deliveries[cur[w]] = MaxRetries
    BY DEF DeliveryInv
  <2> QED
    BY <1>0, <2>1, <2>2, LetGo DEF Alone, Holds, server
<1>3. CASE Kill(w)
  <2>1. UNCHANGED server /\ Exit(w, "killed") /\ gap' = gap /\ "killed" \in Down
    BY <1>3 DEF Kill, RunReceivers, history, Down
  <2> QED
    BY <1>0, <2>1, ExitHolds DEF server
<1> QED
  BY <1>1, <1>2, <1>3

\* publish() adds an entry ahead of the cursor, in nobody's hands.
LEMMA PublishHolds ==
    ASSUME IndInv, TypeOK', DeliveryInv, NEW e \in Event,
           Publish(e) \/ PublishInterrupted(e)
    PROVE  DeliveryInv' /\ (HolderInv => HolderInv')
<1>1. UNCHANGED <<worker, gap, cursor, pel, idle, deliveries, dlq>>
  BY DEF Publish, PublishInterrupted, XADD, server, history
<1>2. DeliveryInv'
  BY <1>1 DEF DeliveryInv, Delivered, Holds, worker
<1>3. ASSUME HolderInv PROVE HolderInv'
  <2> SUFFICES ASSUME gap = 0
               PROVE  OneHolder' /\ BuriedOnce'
    BY <1>1, <1>3 DEF HolderInv, Holds, worker
  <2>1. 1 .. Len(stream') \subseteq Id
    BY IdFact DEF TypeOK, ServerTypeOK, Id
  <2>2. ASSUME NEW i \in Id, i \notin 1 .. Len(stream)
        PROVE  /\ \A v \in Worker : ~Holds(v, i)
               /\ ~(dlq[i] > 0)
    <3>1. ~Delivered(i)
      BY <2>2, IdFact DEF Delivered, IndInv
    <3> QED
      BY <3>1 DEF DeliveryInv
  <2>3. OneHolder'
    <3> SUFFICES ASSUME NEW i \in 1 .. Len(stream'), NEW v \in Worker, NEW u \in Worker,
                        v # u, Holds(v, i), Holds(u, i)
                 PROVE  FALSE
      BY <1>1 DEF OneHolder, Holds, worker
    <3> QED
      BY <1>3, <2>1, <2>2 DEF HolderInv, OneHolder
  <2>4. BuriedOnce'
    <3> SUFFICES ASSUME NEW i \in 1 .. Len(stream'), dlq[i] > 0
                 PROVE  dlq[i] = 1 /\ i \notin pel /\ \A v \in Worker : ~Holds(v, i)
      BY <1>1 DEF BuriedOnce, Holds, worker
    <3> QED
      BY <1>3, <2>1, <2>2 DEF HolderInv, BuriedOnce
  <2> QED
    BY <2>3, <2>4
<1> QED
  BY <1>2, <1>3

-------------------------------------------------------------------------------
(* LoadInv: a reply is never longer than what is handled in time. *)

\* XREADGROUP hands out at most ReadCount entries.
LEMMA FreshCount ==
    ASSUME ServerTypeOK
    PROVE  IsFiniteSet(Fresh) /\ Cardinality(Fresh) <= ReadCount
<1> DEFINE from == IF cursor < first THEN first ELSE cursor + 1
           upto == from + ReadCount - 1
<1>1. from \in Int /\ upto \in Int /\ from <= upto /\ upto - from + 1 = ReadCount
  BY DEF ServerTypeOK
<1>2. IsFiniteSet(from .. upto) /\ Cardinality(from .. upto) = ReadCount
  BY <1>1, FS_Interval
<1>3. Fresh \in SUBSET (from .. upto)
  BY <1>1 DEF Fresh, ServerTypeOK
<1> HIDE DEF from, upto
<1>4. IsFiniteSet(Fresh) /\ Cardinality(Fresh) <= Cardinality(from .. upto)
  BY <1>2, <1>3, FS_Subset
<1> QED
  BY <1>2, <1>4

\* XAUTOCLAIM hands out at most ClaimCount entries: each of them has fewer than
\* ClaimCount before it, and no two have the same number.
LEMMA ClaimedCount ==
    ASSUME ServerTypeOK
    PROVE  IsFiniteSet(Claimed) /\ Cardinality(Claimed) <= ClaimCount
<1> DEFINE due == {i \in pel : i \in idle \/ i < first}
           Before(i) == {j \in due : j < i}
           rank == [i \in Claimable |-> Cardinality(Before(i))]
<1>1. Claimable = {i \in due : Cardinality(Before(i)) < ClaimCount}
  BY DEF Claimable
<1>2. cursor \in Int /\ \A i \in due : i \in 1 .. cursor
  <2>1. cursor \in Int /\ pel \subseteq 1 .. cursor
    BY DEF ServerTypeOK
  <2> QED
    BY <2>1
<1>3. IsFiniteSet(due)
  <2>1. IsFiniteSet(1 .. cursor) /\ due \in SUBSET (1 .. cursor)
    BY <1>2, FS_Interval
  <2> HIDE DEF due
  <2> QED
    BY <2>1, FS_Subset
<1>4. \A i \in due : IsFiniteSet(Before(i)) /\ Cardinality(Before(i)) \in Nat
  BY <1>3, FS_Subset, FS_CardinalityType
<1>5. Claimable \in SUBSET due /\ Claimed \in SUBSET Claimable
  BY <1>1 DEF Claimed
<1>6. IsFiniteSet(Claimable)
  BY <1>3, <1>5, FS_Subset
<1>7. IsFiniteSet(0 .. ClaimCount - 1) /\ Cardinality(0 .. ClaimCount - 1) = ClaimCount
  BY FS_Interval
<1>8. rank \in [Claimable -> 0 .. ClaimCount - 1]
  BY <1>1, <1>4, <1>5
<1>9. ASSUME NEW i \in Claimable, NEW k \in Claimable, i < k
      PROVE  rank[i] # rank[k]
  <2>1. i \in due /\ k \in due /\ i \in Nat /\ k \in Nat
    BY <1>2, <1>5
  <2>2. i \notin Before(i) /\ Before(i) \cup {i} \in SUBSET Before(k)
    <3>1. cursor \in Int /\ \A j \in due : j \in 1 .. cursor
      BY <1>2
    <3>2. \A j \in due : j < i => j < k
      BY <1>9, <3>1, <2>1
    <3>3. ~(i < i)
      BY <2>1
    <3>4. /\ \A j : j \in Before(i) <=> j \in due /\ j < i
          /\ \A j : j \in Before(k) <=> j \in due /\ j < k
      OBVIOUS
    <3> HIDE DEF due, Before
    <3> QED
      BY <1>9, <2>1, <3>2, <3>3, <3>4
  <2>3. Cardinality(Before(i) \cup {i}) = Cardinality(Before(i)) + 1
    BY <1>4, <2>1, <2>2, FS_AddElement
  <2>4. Cardinality(Before(i) \cup {i}) <= Cardinality(Before(k))
    BY <1>4, <2>1, <2>2, FS_Subset
  <2> QED
    BY <1>4, <2>1, <2>3, <2>4
<1>10. Cardinality(Claimable) <= ClaimCount
  <2>1. \A i \in Claimable, k \in Claimable : i # k => i < k \/ k < i
    BY <1>2, <1>5
  <2>2. \A i \in Claimable, k \in Claimable : i # k => rank[i] # rank[k]
    BY <1>9, <2>1
  <2>3. Cardinality(Claimable) \in Nat
    BY <1>6, FS_CardinalityType
  <2> HIDE DEF rank
  <2>4. ~(Cardinality(0 .. ClaimCount - 1) < Cardinality(Claimable))
    BY <1>6, <1>7, <1>8, <2>2, FS_PigeonHole
  <2> QED
    BY <1>7, <2>3, <2>4
<1>11. IsFiniteSet(Claimed) /\ Cardinality(Claimed) <= Cardinality(Claimable)
  BY <1>5, <1>6, FS_Subset
<1>12. Cardinality(Claimed) \in Nat /\ Cardinality(Claimable) \in Nat
  BY <1>6, <1>11, FS_CardinalityType
<1> QED
  BY <1>10, <1>11, <1>12

\* An entry that a worker holds has not been held for RETRY_IDLE_MS.
LEMMA HeldInTime ==
    ASSUME TypeOK, LoadInv, NEW w \in Worker, NEW i \in Id, Holds(w, i)
    PROVE  ~(handled[w] >= Within)
<1> PICK n \in Nat : n = Cardinality(batch[w])
  BY FS_CardinalityType DEF LoadInv
<1> PICK h \in Nat : h = handled[w]
  BY WithinAssumption DEF TypeOK, WorkerTypeOK
<1>1. h + n + (IF cur[w] = 0 THEN 0 ELSE 1) <= Within
  BY DEF LoadInv
<1>2. CASE i = cur[w]
  BY <1>1, <1>2, WithinAssumption DEF Id
<1>3. CASE i \in batch[w]
  <2>1. n # 0
    BY <1>3, FS_EmptySet DEF LoadInv
  <2> QED
    BY <1>1, <2>1, WithinAssumption
<1> QED
  BY <1>2, <1>3 DEF Holds

\* Only w moves: its load alone has to be looked at.
LEMMA LoadStep ==
    ASSUME LoadInv, NEW w \in Worker,
           \A v \in Worker : v # w => /\ pc'[v] = pc[v] /\ batch'[v] = batch[v]
                                     /\ cur'[v] = cur[v] /\ handled'[v] = handled[v],
           pc'[w] \notin Busy => cur'[w] = 0,
           IsFiniteSet(batch'[w]),
           handled'[w] + Cardinality(batch'[w]) + (IF cur'[w] = 0 THEN 0 ELSE 1) <= Within
    PROVE  LoadInv'
<1> SUFFICES ASSUME NEW v \in Worker
             PROVE  /\ pc'[v] \notin Busy => cur'[v] = 0
                    /\ IsFiniteSet(batch'[v])
                    /\ handled'[v] + Cardinality(batch'[v])
                         + (IF cur'[v] = 0 THEN 0 ELSE 1) <= Within
  BY DEF LoadInv
<1>1. CASE v = w
  BY <1>1
<1>2. CASE v # w
  BY <1>2 DEF LoadInv
<1> QED
  BY <1>1, <1>2

\* A worker that ends has nothing left to handle.
LEMMA LoadExit ==
    ASSUME TypeOK, LoadInv, NEW w \in Worker, NEW why \in Down, Exit(w, why)
    PROVE  LoadInv'
<1>1. /\ pc'[w] = why /\ batch'[w] = {} /\ cur'[w] = 0 /\ handled'[w] = 0
      /\ \A v \in Worker : v # w => /\ pc'[v] = pc[v] /\ batch'[v] = batch[v]
                                    /\ cur'[v] = cur[v] /\ handled'[v] = handled[v]
  BY DEF Exit, Goto, TypeOK, WorkerTypeOK
<1>2. IsFiniteSet(batch'[w]) /\ Cardinality(batch'[w]) = 0
  BY <1>1, FS_EmptySet
<1> QED
  BY <1>1, <1>2, LoadStep, WithinAssumption

\* An envelope that is done with counts as handled, and is no longer held.
LEMMA LoadForget ==
    ASSUME TypeOK, LoadInv, NEW w \in Worker, Forget(w), cur[w] # 0
    PROVE  LoadInv'
<1>1. /\ pc'[w] = "drain" /\ batch' = batch /\ cur'[w] = 0
      /\ handled'[w] = Bump(handled[w], Within)
      /\ \A v \in Worker : v # w => /\ pc'[v] = pc[v] /\ cur'[v] = cur[v]
                                    /\ handled'[v] = handled[v]
  BY DEF Forget, Goto, TypeOK, WorkerTypeOK
<1> PICK n \in Nat : n = Cardinality(batch[w])
  BY FS_CardinalityType DEF LoadInv
<1> PICK h \in Nat : h = handled[w]
  BY WithinAssumption DEF TypeOK, WorkerTypeOK
<1>2. h + n + 1 <= Within /\ IsFiniteSet(batch[w])
  BY DEF LoadInv
<1>3. Bump(h, Within) = h + 1
  BY <1>2, WithinAssumption DEF Bump
<1> QED
  BY <1>1, <1>2, <1>3, LoadStep

\* A reply starts the count again.
LEMMA LoadReceive ==
    ASSUME TypeOK, LoadInv, NEW w \in Worker, pc[w] \in {"claim", "read"},
           NEW ids, NEW next, Receive(w, ids, next),
           IsFiniteSet(ids), Cardinality(ids) <= Within
    PROVE  LoadInv'
<1>1. /\ pc'[w] = "drain" /\ batch'[w] = ids /\ cur' = cur /\ handled'[w] = 0
      /\ \A v \in Worker : v # w => /\ pc'[v] = pc[v] /\ batch'[v] = batch[v]
                                    /\ handled'[v] = handled[v]
  BY DEF Receive, Goto, TypeOK, WorkerTypeOK
<1>2. cur[w] = 0
  BY DEF LoadInv, Busy
<1>3. Cardinality(ids) \in Nat
  BY FS_CardinalityType
<1> QED
  BY <1>1, <1>2, <1>3, LoadStep

\* A step of w that leaves what it holds, and what it has handled, alone.
LEMMA LoadQuiet ==
    ASSUME TypeOK, LoadInv, NEW w \in Worker, NEW label, Goto(w, label),
           UNCHANGED <<batch, cur, handled>>,
           label \notin Busy => pc[w] \notin Busy
    PROVE  LoadInv'
BY DEF Goto, LoadInv, TypeOK, WorkerTypeOK

LEMMA LoadWork ==
    ASSUME IndInv, LoadInv, ReadCount <= Within, ClaimCount <= Within,
           NEW w \in Worker, Work(w)
    PROVE  LoadInv'
<1>0. TypeOK /\ ServerTypeOK
  BY DEF IndInv, TypeOK
<1>1. CASE Listen(w) \/ NoGroup(w) \/ Recover(w) \/ Drained(w) \/ Dispatch(w)
  BY <1>0, <1>1, LoadQuiet
  DEF Listen, NoGroup, Recover, Drained, Dispatch, Busy, Down
<1>2. CASE AutoClaim(w)
  <2>1. IsFiniteSet(Claimed) /\ Cardinality(Claimed) \in Nat
        /\ Cardinality(Claimed) <= ClaimCount
    BY <1>0, ClaimedCount, FS_CardinalityType
  <2>2. Cardinality(Claimed) <= Within
    BY <2>1, WithinAssumption
  <2> QED
    BY <1>0, <1>2, <2>1, <2>2, LoadReceive DEF AutoClaim
<1>3. CASE Read(w)
  <2>1. IsFiniteSet(Fresh) /\ Cardinality(Fresh) \in Nat
        /\ Cardinality(Fresh) <= ReadCount
    BY <1>0, FreshCount, FS_CardinalityType
  <2>2. Cardinality(Fresh) <= Within
    BY <2>1, WithinAssumption
  <2> QED
    BY <1>0, <1>3, <2>1, <2>2, LoadReceive DEF Read
<1>4. CASE Discard(w) \/ (Yield(w) /\ ~stop[w])
  <2>1. PICK i \in batch[w] : batch' = [batch EXCEPT ![w] = @ \ {i}]
    BY <1>4 DEF Discard, Yield
  <2> PICK n \in Nat : n = Cardinality(batch[w])
    BY FS_CardinalityType DEF LoadInv
  <2> PICK h \in Nat : h = handled[w]
    BY <1>0, WithinAssumption DEF TypeOK, WorkerTypeOK
  <2>2. /\ batch'[w] = batch[w] \ {i} /\ handled' = handled
        /\ \A v \in Worker : v # w => batch'[v] = batch[v]
    BY <1>0, <1>4, <2>1 DEF Discard, Yield, TypeOK, WorkerTypeOK
  <2>3. IsFiniteSet(batch'[w]) /\ Cardinality(batch'[w]) = n - 1
    <3>1. IsFiniteSet(batch[w])
      BY DEF LoadInv
    <3>2. IsFiniteSet(batch[w] \ {i}) /\ Cardinality(batch[w] \ {i}) = n - 1
      BY <2>1, <3>1, FS_RemoveElement
    <3> QED
      BY <2>2, <3>2
  <2>4. cur[w] = 0 /\ h + n <= Within
    BY <1>4 DEF LoadInv, Discard, Yield, Busy
  <2>5. /\ pc'[w] \notin Busy => cur'[w] = 0
        /\ \A v \in Worker : v # w => pc'[v] = pc[v] /\ cur'[v] = cur[v]
    BY <1>0, <1>4, <2>4 DEF Discard, Yield, Goto, Busy, TypeOK, WorkerTypeOK
  <2>6. h + (n - 1) + (IF cur'[w] = 0 THEN 0 ELSE 1) <= Within
    BY <2>4, WithinAssumption
  <2> QED
    BY <2>2, <2>3, <2>5, <2>6, LoadStep
<1>5. CASE Yield(w) /\ stop[w]
  BY <1>0, <1>5, LoadExit DEF Yield, Down
<1>6. CASE Ack(w) \/ Fail(w) \/ Bury(w)
  <2>1. cur[w] # 0
    BY <1>0, <1>6 DEF Ack, Fail, Bury, IndInv, BusyInv, Busy
  <2>2. CASE Forget(w)
    BY <1>0, <2>1, <2>2, LoadForget
  <2>3. CASE ~Forget(w)
    BY <1>0, <1>6, <2>3, LoadQuiet DEF Ack, Fail, Bury, Busy
  <2> QED
    BY <2>2, <2>3
<1>7. CASE FailNoGroup(w)
  BY <1>0, <1>7, LoadExit DEF FailNoGroup, Down
<1> QED
  BY <1>1, <1>2, <1>3, <1>4, <1>5, <1>6, <1>7 DEF Work

LEMMA LoadNext ==
    ASSUME IndInv, LoadInv, ReadCount <= Within, ClaimCount <= Within, [Next]_vars
    PROVE  LoadInv'
<1>0. TypeOK
  BY DEF IndInv
<1>1. ASSUME NEW w \in Worker, ConsumeInterrupted(w)
      PROVE  LoadInv'
  BY <1>0, <1>1, LoadQuiet DEF ConsumeInterrupted, Busy
<1>2. ASSUME NEW w \in Worker, CallRaises(w) \/ Kill(w)
      PROVE  LoadInv'
  BY <1>0, <1>2, LoadExit DEF CallRaises, Kill, Down
<1>3. CASE UNCHANGED <<pc, batch, cur, handled>>
  BY <1>3 DEF LoadInv
<1>4. ASSUME NEW w \in Worker, RequestStop(w)
      PROVE  UNCHANGED <<pc, batch, cur, handled>>
  BY <1>4 DEF RequestStop
<1>5. ASSUME \/ \E e \in Event : Publish(e) \/ PublishInterrupted(e)
             \/ DestroyGroup \/ \E i \in Id : BecomeIdle(i)
             \/ UNCHANGED vars
      PROVE  UNCHANGED <<pc, batch, cur, handled>>
  BY <1>5 DEF Publish, PublishInterrupted, DestroyGroup, BecomeIdle, vars, worker
<1> QED
  BY <1>1, <1>2, <1>3, <1>4, <1>5, LoadWork DEF Next

LEMMA LoadInit == ASSUME Init PROVE LoadInv
<1>1. \A w \in Worker : batch[w] = {} /\ cur[w] = 0 /\ handled[w] = 0
  BY DEF Init
<1> QED
  BY <1>1, FS_EmptySet, WithinAssumption DEF LoadInv

LEMMA EnvironmentHolds ==
    ASSUME IndInv, DeliveryInv, DestroyGroup \/ \E i \in Id : BecomeIdle(i)
    PROVE  DeliveryInv' /\ (HolderInv /\ LoadInv => HolderInv')
<1>1. CASE DestroyGroup
  <2>1. gap' # 0
    BY <1>1, IdFact DEF DestroyGroup, IndInv
  <2> QED
    BY <2>1 DEF DeliveryInv, HolderInv
<1>2. ASSUME NEW j \in Id, BecomeIdle(j)
      PROVE  DeliveryInv' /\ (HolderInv /\ LoadInv => HolderInv')
  <2>1. UNCHANGED <<stream, worker, history, cursor, pel, deliveries, dlq>>
        /\ idle' = idle \cup {j}
    BY <1>2 DEF BecomeIdle, ELAPSE
  <2>2. \A v \in Worker, i \in Id : Holds(v, i)' <=> Holds(v, i)
    BY <2>1 DEF Holds, worker
  <2>3. DeliveryInv'
    BY <2>1 DEF DeliveryInv, Delivered, Holds, worker, history
  <2>4. ASSUME HolderInv, LoadInv PROVE HolderInv'
    <3>1. \A w \in Worker : ~Holds(w, j)
      BY <1>2, <2>4, HeldInTime DEF BecomeIdle, IndInv
    <3>2. (OneHolder' /\ BuriedOnce') \/ gap # 0
      BY <2>1, <2>4 DEF HolderInv, OneHolder, BuriedOnce, Holds, worker, history
    <3> QED
      BY <2>1, <2>2, <2>4, <3>1, <3>2 DEF HolderInv, worker, history
  <2> QED
    BY <2>3, <2>4
<1> QED
  BY <1>1, <1>2

LEMMA StutterHolds ==
    ASSUME DeliveryInv, UNCHANGED vars
    PROVE  DeliveryInv' /\ (HolderInv => HolderInv')
BY DEF DeliveryInv, HolderInv, OneHolder, BuriedOnce, Delivered, Holds, vars, server,
       worker, history

LEMMA NextHolds ==
    ASSUME IndInv, DeliveryInv, [Next]_vars
    PROVE  DeliveryInv' /\ (HolderInv /\ LoadInv => HolderInv')
<1>1. TypeOK'
  BY NextInv DEF IndInv
<1> QED
  BY <1>1, PublishHolds, WorkHolds, CallRaisesHolds, FaultHolds, EnvironmentHolds,
     StutterHolds DEF Next

LEMMA NextGap ==
    ASSUME GapInv, [Next]_vars
    PROVE  GapInv'
BY DEF GapInv, Next, vars, history, Publish, PublishInterrupted, Work, Listen, AutoClaim,
       Read, Receive, NoGroup, Recover, XGROUP_RECREATE, Discard, Yield, Drained,
       Dispatch, RunReceivers, Ack, Fail, Bury, FailNoGroup, ConsumeInterrupted,
       CallRaises, UnguardedCall, RequestStop, Kill, DestroyGroup, BecomeIdle

LEMMA InitHolds == ASSUME Init PROVE GapInv /\ DeliveryInv /\ HolderInv
<1>1. /\ stream = <<>> /\ pel = {} /\ idle = {} /\ gap = 0
      /\ pc = [w \in Worker |-> "absent"] /\ batch = [w \in Worker |-> {}]
      /\ cur = [w \in Worker |-> 0] /\ dlq = [i \in Id |-> 0]
  BY DEF Init, ServerInit
<1>2. \A w \in Worker, i \in Id : ~Holds(w, i)
  BY <1>1 DEF Holds, Id
<1>3. OneHolder /\ BuriedOnce
  <2>1. Len(stream) = 0
    BY <1>1
  <2> QED
    BY <2>1 DEF OneHolder, BuriedOnce
<1> QED
  BY <1>1, <1>2, <1>3 DEF GapInv, DeliveryInv, HolderInv

\* While the group is never destroyed, an entry goes to the dead-letter only
\* after MAX_RETRIES deliveries, for any number of workers, with handlers slow or
\* not and entries trimmed or not (the test of fail() in redis_streams.py).
THEOREM BuriedLate ==
    ASSUME ~GroupLoss
    PROVE  Spec => []BuriedAfterMaxDeliveries
<1>1. Init => IndInv /\ GapInv /\ DeliveryInv
  BY InitInv, InitHolds
<1>2. IndInv /\ GapInv /\ DeliveryInv /\ [Next]_vars
      => IndInv' /\ GapInv' /\ DeliveryInv'
  BY NextInv, NextGap, NextHolds
<1>3. IndInv /\ GapInv /\ DeliveryInv => BuriedAfterMaxDeliveries
  BY IdFact DEF GapInv, DeliveryInv, BuriedAfterMaxDeliveries, IndInv
<1> QED
  BY <1>1, <1>2, <1>3, PTL DEF Spec

\* Until the group is lost, and as long as all the entries of a reply are handled
\* within RETRY_IDLE_MS of it, an entry is in the hands of one worker at a time,
\* however many share the group.  Handlers that are each fast are not enough.
THEOREM OneWorkerEach ==
    ASSUME ReadCount <= Within, ClaimCount <= Within
    PROVE  Spec => []OneHolder
<1>1. Init => IndInv /\ LoadInv /\ DeliveryInv /\ HolderInv
  BY InitInv, LoadInit, InitHolds
<1>2. IndInv /\ LoadInv /\ DeliveryInv /\ HolderInv /\ [Next]_vars
      => IndInv' /\ LoadInv' /\ DeliveryInv' /\ HolderInv'
  BY NextInv, LoadNext, NextHolds
<1>3. HolderInv => OneHolder
  BY DEF HolderInv, OneHolder
<1> QED
  BY <1>1, <1>2, <1>3, PTL DEF Spec

\* Under the same conditions fail() leaves at most one dead-letter copy of an
\* entry, and no worker takes a buried entry up again.
THEOREM BuriedForGood ==
    ASSUME ReadCount <= Within, ClaimCount <= Within
    PROVE  Spec => []BuriedOnce
<1>1. Init => IndInv /\ LoadInv /\ DeliveryInv /\ HolderInv
  BY InitInv, LoadInit, InitHolds
<1>2. IndInv /\ LoadInv /\ DeliveryInv /\ HolderInv /\ [Next]_vars
      => IndInv' /\ LoadInv' /\ DeliveryInv' /\ HolderInv'
  BY NextInv, LoadNext, NextHolds
<1>3. HolderInv => BuriedOnce
  BY DEF HolderInv, BuriedOnce
<1> QED
  BY <1>1, <1>2, <1>3, PTL DEF Spec

-------------------------------------------------------------------------------
(* The refinement: what is accepted stays owed until it may be forgotten.  *)

USE DEF Bus!vars

(* KeptInv: no trimming and no lost group. *)

LEMMA KeptNext ==
    ASSUME ~GroupLoss, MaxLen = 0, IndInv, KeptInv, [Next]_vars
    PROVE  KeptInv'
<1> USE DEF Down, Busy
<1>1. ASSUME NEW e \in Event, Publish(e) \/ PublishInterrupted(e)
      PROVE  KeptInv'
  <2>1. UNCHANGED <<pc, group, dlq>> /\ first' = first
    BY <1>1 DEF Publish, PublishInterrupted, XADD, server, worker
  <2>2. Len(stream') = Len(stream) \/ Len(stream') = Len(stream) + 1
    BY <1>1 DEF Publish, PublishInterrupted, XADD, server, IndInv, TypeOK, ServerTypeOK
  <2> QED
    BY <2>1, <2>2 DEF KeptInv, IndInv, TypeOK, ServerTypeOK, Id
<1>2. ASSUME NEW w \in Worker, Work(w)
      PROVE  KeptInv'
  <2>1. /\ stream' = stream /\ first' = first
        /\ (group => group')
        /\ \A i \in Id : dlq'[i] > 0 => i <= Len(stream)
    <3>1. CASE Bury(w)
      <4>1. cur[w] \in 1 .. Len(stream)
        BY <3>1 DEF Bury, IndInv, BusyInv
      <4> QED
        BY <3>1, <4>1
        DEF Bury, XADD_DLQ_XACK, KeptInv, IndInv, TypeOK, ServerTypeOK, Id
    <3>2. CASE ~Bury(w)
      <4>1. UNCHANGED <<stream, first, dlq>> /\ (group => group')
        BY <1>2, <3>2
        DEF Work, Listen, AutoClaim, Read, NoGroup, Recover, Discard, Yield, Drained,
            Dispatch, Ack, Fail, FailNoGroup, XGROUP_CREATE, XGROUP_RECREATE,
            XAUTOCLAIM, XREADGROUP, XACK, server
      <4> QED
        BY <4>1 DEF KeptInv
    <3> QED
      BY <3>1, <3>2
  <2>2. pc[w] # "recover" /\ (pc[w] \notin Down => group)
    BY DEF KeptInv
  <2>3. \E label : /\ Goto(w, label)
                   /\ label # "recover"
                   /\ label \notin Down => group'
    <3> USE <2>2 DEF Goto
    <3>1. CASE Listen(w)
      BY <3>1 DEF Listen, XGROUP_CREATE
    <3>2. CASE AutoClaim(w) \/ Read(w)
      BY <3>2 DEF AutoClaim, Read, Receive, XAUTOCLAIM, XREADGROUP
    <3>3. CASE NoGroup(w)
      BY <3>3 DEF NoGroup
    <3>4. CASE Recover(w)
      BY <3>4 DEF Recover
    <3>5. CASE Discard(w)
      BY <3>5, <2>1 DEF Discard, IndInv, TypeOK, WorkerTypeOK
    <3>6. CASE Yield(w)
      BY <3>6, <2>1 DEF Yield, Exit
    <3>7. CASE Drained(w)
      BY <3>7, <2>1 DEF Drained, IndInv, TypeOK, WorkerTypeOK
    <3>8. CASE Dispatch(w)
      BY <3>8, <2>1 DEF Dispatch
    <3>9. CASE Ack(w) \/ Fail(w) \/ Bury(w) \/ FailNoGroup(w)
      BY <3>9, <2>1 DEF Ack, Fail, Bury, FailNoGroup, Forget, Exit
    <3> QED
      BY <1>2, <3>1, <3>2, <3>3, <3>4, <3>5, <3>6, <3>7, <3>8, <3>9 DEF Work
  <2> QED
    BY <2>1, <2>3 DEF KeptInv, Goto, IndInv, TypeOK, WorkerTypeOK
<1>3. ASSUME NEW w \in Worker, CallRaises(w)
      PROVE  KeptInv'
  <2>1. UnguardedCall(w) /\ Exit(w, "raised")
    BY <1>3 DEF CallRaises
  <2>2. /\ stream' = stream /\ first' = first
        /\ (group => group')
        /\ \A i \in Id : dlq'[i] > 0 => i <= Len(stream)
    <3>1. CASE pc[w] = "bury" /\ XADD_DLQ_XACK(cur[w])
      <4>1. cur[w] \in 1 .. Len(stream)
        BY <3>1 DEF IndInv, BusyInv
      <4> QED
        BY <3>1, <4>1 DEF XADD_DLQ_XACK, KeptInv, IndInv, TypeOK, ServerTypeOK, Id
    <3>2. CASE ~(pc[w] = "bury" /\ XADD_DLQ_XACK(cur[w]))
      <4>1. UNCHANGED <<stream, first, dlq>> /\ (group => group')
        BY <2>1, <3>2
        DEF UnguardedCall, XGROUP_CREATE, XGROUP_RECREATE, XACK, server
      <4> QED
        BY <4>1 DEF KeptInv
    <3> QED
      BY <3>1, <3>2
  <2> QED
    BY <2>1, <2>2 DEF Exit, Goto, KeptInv, IndInv, TypeOK, WorkerTypeOK
<1>4. ASSUME NEW w \in Worker, ConsumeInterrupted(w) \/ RequestStop(w) \/ Kill(w)
      PROVE  KeptInv'
  <2>1. UNCHANGED <<stream, first, dlq, group>>
    BY <1>4 DEF ConsumeInterrupted, RequestStop, Kill, XAUTOCLAIM, XREADGROUP, server
  <2>2. \E label : /\ Goto(w, label)
                   /\ label # "recover"
                   /\ label \notin Down => group
    BY <1>4
    DEF ConsumeInterrupted, RequestStop, Kill, Exit, Goto, KeptInv, IndInv, TypeOK,
        WorkerTypeOK
  <2> QED
    BY <2>1, <2>2 DEF KeptInv, Goto, IndInv, TypeOK, WorkerTypeOK
<1>5. CASE DestroyGroup
  BY <1>5 DEF DestroyGroup
<1>6. ASSUME NEW i \in Id, BecomeIdle(i)
      PROVE  KeptInv'
  BY <1>6 DEF BecomeIdle, ELAPSE, worker, KeptInv
<1>7. CASE UNCHANGED vars
  BY <1>7 DEF vars, server, worker, KeptInv
<1> QED
  BY <1>1, <1>2, <1>3, <1>4, <1>5, <1>6, <1>7 DEF Next

-------------------------------------------------------------------------------
(* Each step is a step of the bus, or a stutter. *)

\* Nothing the bus speaks of changes.
LEMMA BusStutter ==
    ASSUME UNCHANGED <<stream, dlq, served>>,
           \A i \in 1 .. Len(stream) : Outstanding(i)' <=> Outstanding(i)
    PROVE  UNCHANGED Bus!vars
BY DEF Accepted, Owed, Dead

\* A stored entry makes its event accepted and owed.
LEMMA BusAccept ==
    ASSUME IndInv, KeptInv, NEW e \in Event, XADD(e), UNCHANGED served
    PROVE  Bus!Accept(e)
<1>1. PICK n \in Nat : n = Len(stream) + 1
  BY DEF IndInv, TypeOK, ServerTypeOK
<1>2. /\ Len(stream') = n
      /\ stream'[n] = e
      /\ \A i \in 1 .. Len(stream) : stream'[i] = stream[i]
  BY <1>1, XaddFact DEF IndInv, TypeOK
<1>3. Len(stream) \in Nat /\ cursor \in Nat /\ n > cursor /\ n \in Id
  BY <1>1 DEF IndInv, TypeOK, ServerTypeOK, XADD, Id
<1>4. 1 .. Len(stream') = (1 .. Len(stream)) \cup {n}
  BY <1>1, <1>2, <1>3
<1>5. UNCHANGED <<cursor, pel, dlq>>
  BY DEF XADD
<1>6. Accepted' = Accepted \cup {e}
  BY <1>2, <1>4 DEF Accepted
<1>7. Owed' = Owed \cup {e}
  <2>1. \A i \in 1 .. Len(stream) : Outstanding(i)' <=> Outstanding(i)
    BY <1>5 DEF Outstanding
  <2>2. Outstanding(n)'
    BY <1>3, <1>5 DEF Outstanding
  <2> QED
    BY <1>2, <1>4, <2>1, <2>2 DEF Owed
<1>8. Dead' = Dead
  <2>1. ~(dlq[n] > 0)
    BY <1>1, <1>3 DEF KeptInv
  <2> QED
    BY <1>2, <1>4, <1>5, <2>1 DEF Dead
<1> QED
  BY <1>6, <1>7, <1>8 DEF Bus!Accept

\* An acknowledged entry settles its event, or leaves another entry of it owed.
LEMMA BusSettle ==
    ASSUME IndInv, NEW i \in 1 .. Len(stream), XACK(i), UNCHANGED served,
           served[stream[i]] = Receiver \/ stream[i] \in Unreadable
    PROVE  Bus!Settle({stream[i]}) \/ UNCHANGED Bus!vars
<1>1. UNCHANGED <<stream, cursor, dlq>> /\ pel' = pel \ {i}
  BY DEF XACK
<1>2. Accepted' = Accepted /\ Dead' = Dead
  BY <1>1 DEF Accepted, Dead
<1>3. \A j \in 1 .. Len(stream) :
        /\ Outstanding(j)' => Outstanding(j)
        /\ j # i => (Outstanding(j)' <=> Outstanding(j))
  BY <1>1 DEF Outstanding
<1>4. Owed' = Owed \/ (stream[i] \in Owed /\ Owed' = Owed \ {stream[i]})
  BY <1>1, <1>3 DEF Owed
<1> QED
  BY <1>2, <1>4 DEF Bus!Settle

LEMMA BusBury ==
    ASSUME IndInv, NEW i \in 1 .. Len(stream), XADD_DLQ_XACK(i), UNCHANGED served,
           stream[i] \notin Unreadable
    PROVE  Bus!Bury(stream[i])
<1>1. UNCHANGED <<stream, cursor>> /\ pel' = pel \ {i} /\ i \in Id
  BY DEF XADD_DLQ_XACK, IndInv, TypeOK, ServerTypeOK, Id
<1>2. dlq'[i] > 0 /\ \A j \in Id : j # i => dlq'[j] = dlq[j]
  BY <1>1 DEF XADD_DLQ_XACK, IndInv, TypeOK, ServerTypeOK, Bump
<1>3. 1 .. Len(stream) \subseteq Id
  BY DEF IndInv, TypeOK, ServerTypeOK, Id
<1>4. Accepted' = Accepted /\ stream[i] \in Accepted
  BY <1>1 DEF Accepted
<1>5. Dead' = Dead \cup {stream[i]}
  BY <1>1, <1>2, <1>3 DEF Dead
<1>6. \A j \in 1 .. Len(stream) :
        /\ Outstanding(j)' => Outstanding(j)
        /\ j # i => (Outstanding(j)' <=> Outstanding(j))
  BY <1>1 DEF Outstanding
<1>7. Owed' \in {Owed, Owed \ {stream[i]}}
  BY <1>1, <1>6 DEF Owed
<1> QED
  BY <1>4, <1>5, <1>7 DEF Bus!Bury

LEMMA BusServe ==
    ASSUME IndInv, NEW w \in Worker, pc[w] \in Busy, NEW ok \in SUBSET Receiver,
           RunReceivers(cur[w], ok), UNCHANGED server
    PROVE  Bus!Serve(stream[cur[w]], ok)
<1>1. cur[w] \in 1 .. Len(stream) /\ stream[cur[w]] \notin Unreadable
  BY DEF IndInv, BusyInv
<1>2. stream[cur[w]] \in Accepted
  BY <1>1 DEF Accepted
<1>3. UNCHANGED <<Accepted, Owed, Dead>>
  BY DEF Accepted, Owed, Dead, Outstanding, server
<1> QED
  BY <1>1, <1>2, <1>3 DEF Bus!Serve, RunReceivers

\* Without trimming, the commands that only hand entries out owe them still.
LEMMA BusRead ==
    ASSUME IndInv, KeptInv, XREADGROUP, UNCHANGED served
    PROVE  UNCHANGED Bus!vars
<1>1. /\ ServerTypeOK'
      /\ Fresh \subseteq 1 .. Len(stream)
      /\ \A i \in 1 .. Len(stream) :
            i > cursor => i > cursor' \/ i \in pel' \/ i < first
  BY ReadFact DEF IndInv, TypeOK
<1>2. \A i \in Fresh : i > cursor
  BY FreshFact DEF IndInv, TypeOK
<1>3. cursor' >= cursor /\ cursor' \in Nat /\ cursor \in Nat
  BY <1>1, FreshFact DEF XREADGROUP, IndInv, TypeOK, ServerTypeOK
<1>4. \A i \in 1 .. Len(stream) : Outstanding(i)' <=> Outstanding(i)
  <2> SUFFICES ASSUME NEW i \in 1 .. Len(stream)
               PROVE  Outstanding(i)' <=> Outstanding(i)
    OBVIOUS
  <2>1. ASSUME Outstanding(i)'
        PROVE  Outstanding(i)
    BY <1>2, <1>3, <2>1 DEF Outstanding, XREADGROUP, IndInv, TypeOK, ServerTypeOK
  <2>2. ASSUME Outstanding(i)
        PROVE  Outstanding(i)'
    BY <1>1, <2>2 DEF Outstanding, XREADGROUP, KeptInv
  <2> QED
    BY <2>1, <2>2
<1> QED
  BY <1>4, BusStutter DEF XREADGROUP

LEMMA BusClaim ==
    ASSUME IndInv, KeptInv, XAUTOCLAIM, UNCHANGED served
    PROVE  UNCHANGED Bus!vars
<1>1. Claimed = Claimable
  <2>1. \A i \in Claimable : i \in 1 .. cursor
    BY DEF Claimable, IndInv, TypeOK, ServerTypeOK
  <2>2. \A i \in Claimable : i >= first
    BY <2>1 DEF KeptInv, IndInv, TypeOK, ServerTypeOK
  <2> QED
    BY <2>2 DEF Claimed
<1>2. UNCHANGED <<stream, cursor, pel, dlq>>
  BY <1>1 DEF XAUTOCLAIM
<1> QED
  BY <1>2, BusStutter DEF Outstanding

LEMMA BusListen ==
    ASSUME IndInv, XGROUP_CREATE(0), UNCHANGED served
    PROVE  UNCHANGED Bus!vars
<1>1. UNCHANGED <<stream, cursor, pel, dlq>>
  BY DEF XGROUP_CREATE, IndInv, GroupInv
<1> QED
  BY <1>1, BusStutter DEF Outstanding

LEMMA BusQuiet ==
    ASSUME UNCHANGED <<server, served>>
    PROVE  UNCHANGED Bus!vars
BY BusStutter DEF Outstanding, server

\* The mapping of the steps: publish() accepts, dispatch() serves, ack() and the
\* discard of an unreadable entry settle, fail() buries, a killed dispatch()
\* serves some receivers; all the rest stutters.
LEMMA BusStep ==
    ASSUME ~GroupLoss, IndInv, KeptInv, [Next]_vars
    PROVE  [Bus!Next]_(Bus!vars)
<1> USE DEF Busy, Down
<1>1. ASSUME NEW e \in Event, Publish(e) \/ PublishInterrupted(e)
      PROVE  Bus!Accept(e) \/ UNCHANGED Bus!vars
  BY <1>1, BusAccept, BusQuiet DEF Publish, PublishInterrupted, history
<1>2. ASSUME NEW w \in Worker, Work(w)
      PROVE  \/ \E e \in Event : \/ Bus!Settle({e}) \/ Bus!Bury(e)
                                 \/ \E rs \in SUBSET Receiver : Bus!Serve(e, rs)
             \/ UNCHANGED Bus!vars
  <2>1. \A i \in 1 .. Len(stream) : stream[i] \in Event
    BY DEF IndInv, TypeOK, ServerTypeOK
  <2>2. CASE Listen(w)
    BY <2>2, BusListen DEF Listen, history
  <2>3. CASE AutoClaim(w)
    BY <2>3, BusClaim DEF AutoClaim, Receive, history
  <2>4. CASE Read(w)
    BY <2>4, BusRead DEF Read, Receive, history
  <2>5. CASE Recover(w)
    BY <2>5 DEF Recover, KeptInv
  <2>6. CASE Discard(w)
    BY <2>6, <2>1, BusSettle DEF Discard, IndInv, TypeOK, WorkerTypeOK, history
  <2>7. CASE Dispatch(w)
    <3>1. PICK ok \in SUBSET Receiver : RunReceivers(cur[w], ok)
      BY <2>7 DEF Dispatch
    <3>2. Bus!Serve(stream[cur[w]], ok)
      BY <2>7, <3>1, BusServe DEF Dispatch
    <3>3. stream[cur[w]] \in Event
      BY <2>7, <2>1 DEF Dispatch, IndInv, BusyInv
    <3> QED
      BY <3>2, <3>3
  <2>8. CASE Ack(w)
    <3>1. cur[w] \in 1 .. Len(stream) /\ served[stream[cur[w]]] = Receiver
      BY <2>8 DEF Ack, IndInv, BusyInv, AckInv
    <3> QED
      BY <2>8, <2>1, <3>1, BusSettle DEF Ack, history
  <2>9. CASE Bury(w)
    <3>1. cur[w] \in 1 .. Len(stream) /\ stream[cur[w]] \notin Unreadable
      BY <2>9 DEF Bury, IndInv, BusyInv
    <3> QED
      BY <2>9, <2>1, <3>1, BusBury DEF Bury, history
  <2>10. CASE NoGroup(w) \/ Yield(w) \/ Drained(w) \/ Fail(w) \/ FailNoGroup(w)
    BY <2>10, BusQuiet DEF NoGroup, Yield, Drained, Fail, FailNoGroup, history
  <2> QED
    BY <1>2, <2>2, <2>3, <2>4, <2>5, <2>6, <2>7, <2>8, <2>9, <2>10 DEF Work
<1>3. ASSUME NEW w \in Worker, CallRaises(w)
      PROVE  \/ \E e \in Event : Bus!Settle({e}) \/ Bus!Bury(e)
             \/ UNCHANGED Bus!vars
  <2>1. UnguardedCall(w) /\ \A i \in 1 .. Len(stream) : stream[i] \in Event
    BY <1>3 DEF CallRaises, IndInv, TypeOK, ServerTypeOK
  <2>2. CASE XGROUP_CREATE(0) /\ UNCHANGED history
    BY <2>2, BusListen DEF history
  <2>3. CASE pc[w] = "recover"
    BY <2>3 DEF KeptInv
  <2>4. CASE /\ \E i \in batch[w] : stream[i] \in Unreadable /\ XACK(i)
             /\ UNCHANGED history
    BY <2>1, <2>4, BusSettle DEF IndInv, TypeOK, WorkerTypeOK, history
  <2>5. CASE pc[w] = "ack" /\ XACK(cur[w]) /\ UNCHANGED history
    <3>1. cur[w] \in 1 .. Len(stream) /\ served[stream[cur[w]]] = Receiver
      BY <2>5 DEF IndInv, BusyInv, AckInv
    <3> QED
      BY <2>1, <2>5, <3>1, BusSettle DEF history
  <2>6. CASE pc[w] = "bury" /\ XADD_DLQ_XACK(cur[w]) /\ UNCHANGED history
    <3>1. cur[w] \in 1 .. Len(stream) /\ stream[cur[w]] \notin Unreadable
      BY <2>6 DEF IndInv, BusyInv
    <3> QED
      BY <2>1, <2>6, <3>1, BusBury DEF history
  <2>7. CASE UNCHANGED <<server, history>>
    BY <2>7, BusQuiet DEF history
  <2> QED
    BY <2>1, <2>2, <2>3, <2>4, <2>5, <2>6, <2>7 DEF UnguardedCall
<1>4. ASSUME NEW w \in Worker, ConsumeInterrupted(w) \/ RequestStop(w)
      PROVE  UNCHANGED Bus!vars
  BY <1>4, BusClaim, BusRead, BusQuiet DEF ConsumeInterrupted, RequestStop, history
<1>5. ASSUME NEW w \in Worker, Kill(w)
      PROVE  \/ \E e \in Event : \E rs \in SUBSET Receiver : Bus!Serve(e, rs)
             \/ UNCHANGED Bus!vars
  <2>1. UNCHANGED server
    BY <1>5 DEF Kill
  <2>2. CASE pc[w] = "handle"
    <3>1. PICK ok \in SUBSET Receiver : RunReceivers(cur[w], ok)
      BY <1>5, <2>2 DEF Kill
    <3>2. Bus!Serve(stream[cur[w]], ok)
      BY <2>1, <2>2, <3>1, BusServe
    <3>3. stream[cur[w]] \in Event
      BY <2>2 DEF IndInv, BusyInv, TypeOK, ServerTypeOK
    <3> QED
      BY <3>2, <3>3
  <2>3. CASE pc[w] # "handle"
    BY <1>5, <2>1, <2>3, BusQuiet DEF Kill, history
  <2> QED
    BY <2>2, <2>3
<1>6. CASE DestroyGroup
  BY <1>6 DEF DestroyGroup
<1>7. ASSUME NEW i \in Id, BecomeIdle(i)
      PROVE  UNCHANGED Bus!vars
  <2>1. UNCHANGED <<stream, cursor, pel, dlq, served>>
    BY <1>7 DEF BecomeIdle, ELAPSE, history
  <2> QED
    BY <2>1, BusStutter DEF Outstanding
<1>8. CASE UNCHANGED vars
  BY <1>8, BusQuiet DEF vars, history
<1> HIDE DEF Bus!vars
<1>9. \A e \in Event : {e} \in SUBSET Event
  OBVIOUS
<1> QED
  BY <1>1, <1>2, <1>3, <1>4, <1>5, <1>6, <1>7, <1>8, <1>9 DEF Next, Bus!Next

\* Before anything is published the bus is empty.
LEMMA BusInit == ASSUME Init PROVE Bus!Init /\ KeptInv
<1>1. /\ stream = <<>> /\ served = [e \in Event |-> {}] /\ first = 1
      /\ pc = [w \in Worker |-> "absent"] /\ dlq = [i \in Id |-> 0]
  BY DEF Init, ServerInit
<1>2. 1 .. Len(stream) = {}
  BY <1>1
<1>3. Accepted = {} /\ Owed = {} /\ Dead = {}
  BY <1>2 DEF Accepted, Owed, Dead
<1>4. KeptInv
  BY <1>1 DEF KeptInv, Down
<1> QED
  BY <1>1, <1>3, <1>4 DEF Bus!Init

-------------------------------------------------------------------------------
\* RedisStreamsBroker implements the bus: whatever crashes, lost replies, slow
\* handlers and retries do, an event published on the stream is forgotten only
\* after every receiver of the service processed it, or it was dead-lettered,
\* or it does not load.
THEOREM Implementation ==
    ASSUME ~GroupLoss, MaxLen = 0
    PROVE  Spec => BusSpec
<1>1. Init => Bus!Init /\ KeptInv /\ IndInv
  BY BusInit, InitInv
<1>2. IndInv /\ KeptInv /\ [Next]_vars => IndInv' /\ KeptInv'
  BY NextInv, KeptNext
<1>3. IndInv /\ KeptInv /\ [Next]_vars => [Bus!Next]_(Bus!vars)
  BY BusStep
<1> HIDE DEF Bus!vars
<1> QED
  BY <1>1, <1>2, <1>3, PTL DEF Spec, BusSpec, Bus!Spec
===============================================================================
