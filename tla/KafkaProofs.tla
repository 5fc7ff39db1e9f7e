------------------------------ MODULE KafkaProofs ------------------------------
(***************************************************************************)
(* The Kafka broker implements EventBus for each service, and dead-letters *)
(* an event only after MAX_RETRIES failures.  A commit of one worker may   *)
(* move the offset of the group over records that others have polled, in   *)
(* either direction: what makes it safe is that all a worker has polled    *)
(* past is settled, or stored again further on, or left in a local queue.  *)
(***************************************************************************)
EXTENDS Kafka, TLAPS

USE BoundsAssumption, WorkersAssumption, NamesAssumption

-------------------------------------------------------------------------------
(* The inductive invariant *)

Busy == {"discard", "handle", "ack", "fail", "commit"}
Finished == {"discard", "ack", "commit"}

\* What service s still has of the events if its group goes on after record k.
Remains(s, k) == EventsOf(k + 1, Len(topic)) \cup LeftBy(s, queue) \cup lost[s]

\* Record i is settled for service s, or its event will be seen again after it.
Handled(s, i) == Settled(s, topic[i].event) \/ topic[i].event \in Remains(s, i)

\* Service s can go on after record k.
Through(s, k) ==
    \A i \in 1 .. k : Settled(s, topic[i].event) \/ topic[i].event \in Remains(s, k)

\* What a worker has polled past is through, but for the record it holds.
WorkerInv(w) ==
    LET s == ServiceOf[w] IN
    /\ pc[w] \in Busy <=> cur[w] # 0
    /\ pc[w] \in {"handle", "fail"} => topic[cur[w]].event \notin Unreadable
    /\ pc[w] \in Finished => Handled(s, cur[w])
    /\ cur[w] = 0 => Through(s, position[w])
    /\ cur[w] # 0 => Through(s, cur[w] - 1) /\ (position[w] = cur[w] \/ Through(s, position[w]))

\* Messages in a local queue: a worker's are of an event it could read, and go to
\* its own dead-letter after the last attempt only.
QueueInv ==
    \A m \in queue :
        /\ m.to = "topic" <=> m.rec.count < MaxRetries
        /\ m.from \in Worker => m.to \in {"topic", ServiceOf[m.from]}
                                /\ m.rec.event \in Accepted \ Unreadable
        /\ m.from \notin Worker => m.to = "topic"

IndInv ==
    /\ TypeOK /\ QueueInv
    /\ \A s \in Service : Through(s, committed[s])
    /\ \A w \in Worker : WorkerInv(w)

-------------------------------------------------------------------------------
(* What every step leaves to a service *)

\* Nothing of service s goes away that is not settled or stored again.
Grows(s) ==
    /\ Len(topic) <= Len(topic')
    /\ \A i \in 1 .. Len(topic) : topic'[i] = topic[i]
    /\ \A e \in Event : Settled(s, e) => Settled(s, e)'
    /\ \A e \in LeftBy(s, queue) \cup lost[s] :
          \/ e \in (LeftBy(s, queue) \cup lost[s])' \/ Settled(s, e)'
          \/ \E i \in Len(topic) + 1 .. Len(topic') : topic'[i].event = e

LEMMA RecordsOf ==
    ASSUME TypeOK, NEW i \in 1 .. Len(topic)
    PROVE  topic[i] \in Record /\ topic[i].event \in Event /\ topic[i].count \in 0 .. MaxRetries - 1
  <1>1. topic[i] \in Record
    BY DEF TypeOK
  <1> QED
    BY <1>1 DEF Record

LEMMA RemainsKept ==
    ASSUME TypeOK, TypeOK', NEW s \in Service, Grows(s), NEW k \in 0 .. Len(topic),
           NEW e \in Event, e \in Remains(s, k) \/ Settled(s, e)
    PROVE  e \in Remains(s, k)' \/ Settled(s, e)'
  <1>1. CASE Settled(s, e)
    BY <1>1 DEF Grows
  <1>2. CASE e \in EventsOf(k + 1, Len(topic))
    <2>1. PICK i \in k + 1 .. Len(topic) : topic[i].event = e
      BY <1>2 DEF EventsOf
    <2>2. i \in k + 1 .. Len(topic') /\ topic'[i].event = e
      BY <2>1 DEF Grows, TypeOK
    <2> QED
      BY <2>2 DEF Remains, EventsOf
  <1>3. CASE e \in LeftBy(s, queue) \cup lost[s]
    <2>1. CASE \E i \in Len(topic) + 1 .. Len(topic') : topic'[i].event = e
      <3>1. PICK i \in Len(topic) + 1 .. Len(topic') : topic'[i].event = e
        BY <2>1
      <3>2. i \in k + 1 .. Len(topic')
        BY <3>1 DEF TypeOK
      <3> QED
        BY <3>1, <3>2 DEF Remains, EventsOf
    <2> QED
      BY <1>3, <2>1 DEF Grows, Remains
  <1> QED
    BY <1>1, <1>2, <1>3 DEF Remains

LEMMA ThroughKept ==
    ASSUME TypeOK, TypeOK', NEW s \in Service, Grows(s), NEW k \in 0 .. Len(topic), Through(s, k)
    PROVE  Through(s, k)'
  <1> SUFFICES ASSUME NEW i \in 1 .. k
               PROVE  (Settled(s, topic[i].event) \/ topic[i].event \in Remains(s, k))'
    BY DEF Through
  <1>1. topic'[i] = topic[i] /\ topic[i].event \in Event
    <2>1. i \in 1 .. Len(topic)
      BY DEF TypeOK
    <2> QED
      BY <2>1, RecordsOf DEF Grows
  <1> QED
    BY <1>1, RemainsKept DEF Through

LEMMA WorkerKept ==
    ASSUME TypeOK, TypeOK', NEW w \in Worker, Grows(ServiceOf[w]), WorkerInv(w),
           UNCHANGED <<pc[w], cur[w], position[w]>>
    PROVE  WorkerInv(w)'
  <1> DEFINE s == ServiceOf[w]
  <1>1. s \in Service /\ cur[w] \in 0 .. Len(topic) /\ position[w] \in 0 .. Len(topic)
    BY DEF TypeOK
  <1>2. cur[w] # 0 => topic'[cur[w]] = topic[cur[w]] /\ topic[cur[w]].event \in Event
    <2>1. cur[w] # 0 => cur[w] \in 1 .. Len(topic)
      BY <1>1 DEF TypeOK
    <2> QED
      BY <2>1, RecordsOf DEF Grows
  <1>3. cur[w] # 0 /\ Handled(s, cur[w]) => Handled(s, cur[w])'
    BY <1>1, <1>2, RemainsKept DEF Handled
  <1>4. /\ Through(s, position[w]) => Through(s, position[w])'
        /\ cur[w] # 0 /\ Through(s, cur[w] - 1) => Through(s, cur[w] - 1)'
    <2>1. cur[w] # 0 => cur[w] - 1 \in 0 .. Len(topic)
      BY <1>1 DEF TypeOK
    <2> QED
      BY <1>1, <2>1, ThroughKept
  <1> QED
    BY <1>2, <1>3, <1>4 DEF WorkerInv, Busy, Finished

\* A record that is handled is through, if those before it are.
LEMMA HandledThrough ==
    ASSUME TypeOK, NEW s \in Service, NEW k \in 1 .. Len(topic), Through(s, k - 1), Handled(s, k)
    PROVE  Through(s, k)
  <1> SUFFICES ASSUME NEW i \in 1 .. k
               PROVE  Settled(s, topic[i].event) \/ topic[i].event \in Remains(s, k)
    BY DEF Through
  <1>1. CASE i = k
    BY <1>1 DEF Handled
  <1>2. CASE i # k
    <2>1. i \in 1 .. k - 1
      BY <1>2
    <2>2. CASE topic[i].event \in EventsOf(k - 1 + 1, Len(topic))
      <3>1. PICK j \in k .. Len(topic) : topic[j].event = topic[i].event
        BY <2>2 DEF EventsOf
      <3>2. CASE j = k
        BY <3>1, <3>2 DEF Handled
      <3>3. CASE j # k
        <4>1. j \in k + 1 .. Len(topic)
          BY <3>3
        <4> QED
          BY <3>1, <4>1 DEF Remains, EventsOf
      <3> QED
        BY <3>2, <3>3
    <2> QED
      BY <2>1, <2>2 DEF Through, Remains
  <1> QED
    BY <1>1, <1>2

LEMMA FinishedThrough ==
    ASSUME IndInv, NEW w \in Worker, pc[w] \in Finished
    PROVE  cur[w] \in 1 .. Len(topic) /\ Through(ServiceOf[w], cur[w])
  <1>1. cur[w] \in 1 .. Len(topic) /\ ServiceOf[w] \in Service
    BY DEF IndInv, TypeOK, WorkerInv, Busy, Finished
  <1> QED
    BY <1>1, HandledThrough DEF IndInv, WorkerInv

-------------------------------------------------------------------------------
(* Initial states and effects *)

LEMMA InitIndInv == Init => IndInv
  <1> SUFFICES ASSUME Init PROVE IndInv
    OBVIOUS
  <1>1. TypeOK
    BY DEF Init, TypeOK, Down, NoWorker, Record
  <1>2. QueueInv
    BY DEF Init, QueueInv
  <1>3. \A s \in Service : Through(s, committed[s])
    BY DEF Init, Through
  <1>4. \A w \in Worker : WorkerInv(w)
    BY DEF Init, WorkerInv, Busy, Finished, Through
  <1> QED
    BY <1>1, <1>2, <1>3, <1>4 DEF IndInv

\* What a step keeps follows from what it does to the worker that takes it.
LEMMA Assemble ==
    ASSUME IndInv, TypeOK', QueueInv', \A s \in Service : Grows(s),
           \A s \in Service : committed'[s] = committed[s] \/ Through(s, committed[s])',
           \A w \in Worker : UNCHANGED <<pc[w], cur[w], position[w]>> \/ WorkerInv(w)'
    PROVE  IndInv'
  <1>1. ASSUME NEW s \in Service PROVE Through(s, committed[s])'
    <2>1. CASE committed'[s] = committed[s]
      <3>1. committed[s] \in 0 .. Len(topic) /\ Through(s, committed[s])
        BY DEF IndInv, TypeOK
      <3>2. Through(s, committed[s])' <=> \A i \in 1 .. committed[s] :
                (Settled(s, topic[i].event) \/ topic[i].event \in Remains(s, committed[s]))'
        BY <2>1 DEF Through
      <3> QED
        BY <2>1, <3>1, ThroughKept DEF IndInv, Through, Remains
    <2> QED
      BY <2>1
  <1>2. ASSUME NEW w \in Worker PROVE WorkerInv(w)'
    BY WorkerKept DEF IndInv, TypeOK
  <1> QED
    BY <1>1, <1>2 DEF IndInv

\* The types of what is stored, and of the histories of the services.
StoreOK ==
    /\ topic \in Seq(Record) /\ Len(topic) <= MaxRecords
    /\ dead \in [Service -> SUBSET Event]
    /\ queue \subseteq [from : Event \cup Worker, rec : Message, to : Service \cup {"topic"}]

HistoryOK ==
    /\ served \in [Service -> [Event -> SUBSET Receiver]]
    /\ tried \in [Service -> [Event -> 0 .. MaxRetries + 1]]
    /\ failed \in [Service -> [Event -> 0 .. MaxRetries]]

LEMMA Lengthens ==
    ASSUME TypeOK, StoreOK', HistoryOK', Len(topic) <= Len(topic'),
           committed' \in [Service -> 0 .. Len(topic)],
           owner' \in [Service -> Worker \cup {NoWorker}],
           lost' \in [Service -> SUBSET Event],
           pub' \in [Event -> {"pending", "returned", "raised"}],
           pc' \in [Worker -> Down \cup Busy \cup {"poll"}],
           position' \in [Worker -> 0 .. Len(topic)], cur' \in [Worker -> 0 .. Len(topic)],
           faults' \in 0 .. MaxFaults
    PROVE  TypeOK'
  <1>1. Len(topic) \in Nat /\ Len(topic') \in Nat
    BY DEF TypeOK, StoreOK
  <1>2. \A i \in 0 .. Len(topic) : i \in 0 .. Len(topic')
    BY <1>1
  <1> QED
    BY <1>2 DEF TypeOK, StoreOK, HistoryOK, Busy

LEMMA SameHistory == ASSUME TypeOK, UNCHANGED history PROVE HistoryOK'
  BY DEF TypeOK, HistoryOK, history

\* A message may be sent to a topic with this count of attempts.
Sendable(rec, to) ==
    /\ rec \in Message
    /\ \/ to = "topic" /\ rec.count < MaxRetries
       \/ to \in Service /\ rec.count = MaxRetries

\* A message is stored, and may have been taken from a local queue.
LEMMA StoreEffect ==
    ASSUME IndInv, NEW rec, NEW to, Sendable(rec, to), Store(rec, to), UNCHANGED served,
           \A s \in Service : \A e \in LeftBy(s, queue) \cup lost[s] :
               e \in (LeftBy(s, queue) \cup lost[s])' \/ (e = rec.event /\ to \in {"topic", s})
    PROVE  /\ topic' \in Seq(Record) /\ Len(topic') \in Len(topic) .. MaxRecords
           /\ dead' \in [Service -> SUBSET Event]
           /\ Accepted \subseteq Accepted'
           /\ \A s \in Service : Grows(s)
  <1>1. CASE to = "topic"
    <2>1. rec \in Record
      BY <1>1 DEF Sendable, Message, Record
    <2>2. /\ topic' \in Seq(Record) /\ Len(topic') = Len(topic) + 1 /\ Len(topic') <= MaxRecords
          /\ \A i \in 1 .. Len(topic) : topic'[i] = topic[i]
          /\ topic'[Len(topic) + 1] = rec
          /\ dead' = dead
      <3>1. topic' = Append(topic, rec) /\ Len(topic) < MaxRecords /\ dead' = dead
        BY <1>1 DEF Store
      <3>2. topic \in Seq(Record)
        BY DEF IndInv, TypeOK
      <3> QED
        BY <2>1, <3>1, <3>2
    <2>3. Len(topic) \in Nat
      BY DEF IndInv, TypeOK
    <2>4. Accepted \subseteq Accepted'
      BY <2>2, <2>3 DEF Accepted, EventsOf
    <2>5. ASSUME NEW s \in Service PROVE Grows(s)
      <3>1. \A e \in Event : Settled(s, e) => Settled(s, e)'
        BY <2>2 DEF Settled
      <3>2. Len(topic) + 1 \in Len(topic) + 1 .. Len(topic')
        BY <2>2, <2>3
      <3> QED
        BY <2>2, <2>3, <3>1, <3>2 DEF Grows
    <2> QED
      BY <2>2, <2>4, <2>5 DEF IndInv, TypeOK
  <1>2. CASE to # "topic"
    <2>1. to \in Service /\ rec.event \in Event
      BY <1>2 DEF Sendable, Message
    <2>2. topic' = topic /\ dead' = [dead EXCEPT ![to] = @ \cup {rec.event}]
      BY <1>2 DEF Store
    <2>3. dead' \in [Service -> SUBSET Event] /\ rec.event \in dead'[to]
          /\ \A s \in Service : dead[s] \subseteq dead'[s]
      BY <2>1, <2>2 DEF IndInv, TypeOK
    <2>4. ASSUME NEW s \in Service PROVE Grows(s)
      <3>1. \A e \in Event : Settled(s, e) => Settled(s, e)'
        BY <2>3 DEF Settled
      <3>2. to = s => Settled(s, rec.event)'
        BY <2>3 DEF Settled
      <3> QED
        BY <1>2, <2>2, <3>1, <3>2 DEF Grows, IndInv, TypeOK
    <2> QED
      BY <2>2, <2>3, <2>4 DEF Accepted, EventsOf, IndInv, TypeOK
  <1> QED
    BY <1>1, <1>2

\* Nothing is stored or taken away, but receivers may succeed.
LEMMA QuietEffect ==
    ASSUME IndInv, UNCHANGED <<cluster>>,
           \A s \in Service : LeftBy(s, queue) \cup lost[s] \subseteq (LeftBy(s, queue) \cup lost[s])',
           \A s \in Service : \A e \in Event : served[s][e] \subseteq served'[s][e] /\ served'[s][e] \subseteq Receiver
    PROVE  \A s \in Service : Grows(s)
  <1> SUFFICES ASSUME NEW s \in Service PROVE Grows(s)
    OBVIOUS
  <1>1. \A e \in Event : Settled(s, e) => Settled(s, e)'
    BY DEF Settled, cluster
  <1> QED
    BY <1>1 DEF Grows, cluster, IndInv, TypeOK

\* A producer sends a message, and returns or raises.
LEMMA Sends ==
    ASSUME IndInv, NEW from \in Event \cup Worker, NEW rec, NEW to, Sendable(rec, to),
           Produced(from, rec, to) \/ ProduceRaises(rec, to), UNCHANGED served,
           from \in Worker => to \in {"topic", ServiceOf[from]} /\ rec.event \in Accepted \ Unreadable,
           from \notin Worker => to = "topic"
    PROVE  /\ StoreOK' /\ Len(topic) <= Len(topic')
           /\ lost' = lost /\ faults' \in 0 .. MaxFaults
           /\ QueueInv'
           /\ \A s \in Service : Grows(s)
  <1>1. faults' \in 0 .. MaxFaults /\ lost' = lost
    BY DEF Produced, ProduceRaises, Fault, locals, IndInv, TypeOK
  <1>2. CASE Store(rec, to) /\ UNCHANGED queue
    <2>1. \A s \in Service : (LeftBy(s, queue) \cup lost[s])' = LeftBy(s, queue) \cup lost[s]
      BY <1>1, <1>2 DEF LeftBy
    <2>2. /\ topic' \in Seq(Record) /\ Len(topic') \in Len(topic) .. MaxRecords
          /\ dead' \in [Service -> SUBSET Event]
          /\ Accepted \subseteq Accepted' /\ \A s \in Service : Grows(s)
      BY <1>2, <2>1, StoreEffect
    <2> QED
      BY <1>1, <1>2, <2>2 DEF QueueInv, StoreOK, IndInv, TypeOK
  <1>3. CASE UNCHANGED cluster /\ UNCHANGED queue
    <2>1. \A s \in Service : (LeftBy(s, queue) \cup lost[s])' = LeftBy(s, queue) \cup lost[s]
      BY <1>1, <1>3 DEF LeftBy
    <2>2. \A s \in Service : \A e \in Event : served[s][e] \subseteq served'[s][e] /\ served'[s][e] \subseteq Receiver
      BY DEF IndInv, TypeOK
    <2>3. \A s \in Service : Grows(s)
      BY <1>3, <2>1, <2>2, QuietEffect DEF cluster
    <2> QED
      BY <1>1, <1>3, <2>3 DEF QueueInv, StoreOK, IndInv, TypeOK, cluster, Accepted, EventsOf
  <1>4. CASE queue' = queue \cup {[from |-> from, rec |-> rec, to |-> to]} /\ UNCHANGED cluster
    <2>1. \A s \in Service : LeftBy(s, queue) \cup lost[s] \subseteq (LeftBy(s, queue) \cup lost[s])'
      BY <1>1, <1>4 DEF LeftBy
    <2>2. \A s \in Service : \A e \in Event : served[s][e] \subseteq served'[s][e] /\ served'[s][e] \subseteq Receiver
      BY DEF IndInv, TypeOK
    <2>3. \A s \in Service : Grows(s)
      BY <1>4, <2>1, <2>2, QuietEffect DEF cluster
    <2>4. Accepted' = Accepted
      BY <1>4 DEF cluster, Accepted, EventsOf
    <2>5. QueueInv'
      BY <1>4, <2>4 DEF QueueInv, Sendable, IndInv
    <2>6. queue' \subseteq [from : Event \cup Worker, rec : Message, to : Service \cup {"topic"}]
      BY <1>4 DEF Sendable, IndInv, TypeOK
    <2> QED
      BY <1>1, <1>4, <2>3, <2>5, <2>6 DEF StoreOK, IndInv, TypeOK, cluster
  <1> QED
    BY <1>2, <1>3, <1>4 DEF Produced, ProduceRaises, locals, cluster

\* What fail() publishes.
LEMMA ResendIsSendable ==
    ASSUME IndInv, NEW w \in Worker, pc[w] = "fail"
    PROVE  LET r == Resend(topic[cur[w]], ServiceOf[w]) IN
           /\ cur[w] \in 1 .. Len(topic)
           /\ Sendable(r.rec, r.to) /\ r.to \in {"topic", ServiceOf[w]}
           /\ r.rec.event = topic[cur[w]].event /\ r.rec.count = topic[cur[w]].count + 1
           /\ r.rec.event \in Accepted \ Unreadable
  <1>1. cur[w] \in 1 .. Len(topic)
    BY DEF IndInv, TypeOK, WorkerInv, Busy
  <1>2. topic[cur[w]] \in Record /\ topic[cur[w]].count \in 0 .. MaxRetries - 1
    BY <1>1, RecordsOf DEF IndInv
  <1>3. topic[cur[w]].event \in Accepted \ Unreadable
    BY <1>1 DEF IndInv, WorkerInv, Accepted, EventsOf
  <1>4. [topic[cur[w]] EXCEPT !.count = topic[cur[w]].count + 1] \in Message
    BY <1>2 DEF Record, Message
  <1>5. ServiceOf[w] \in Service
    OBVIOUS
  <1> QED
    BY <1>1, <1>2, <1>3, <1>4, <1>5 DEF Resend, Attempt, Sendable, Record

\* After fail() has published it, the event is handled.
LEMMA ResendHandles ==
    ASSUME IndInv, NEW w \in Worker, NEW rec, NEW to, Produced(w, rec, to), UNCHANGED cur,
           cur[w] \in 1 .. Len(topic), rec.event = topic[cur[w]].event,
           to \in {"topic", ServiceOf[w]}, topic' \in Seq(Record), dead' \in [Service -> SUBSET Event]
    PROVE  Settled(ServiceOf[w], rec.event)' \/ rec.event \in Remains(ServiceOf[w], cur[w])'
  <1> DEFINE s == ServiceOf[w]
  <1>1. CASE Store(rec, to) /\ to = "topic"
    <2>1. topic \in Seq(Record) /\ topic' = Append(topic, rec)
      BY <1>1 DEF Store, IndInv, TypeOK
    <2>2. Len(topic') = Len(topic) + 1 /\ topic'[Len(topic) + 1] = rec /\ Len(topic) \in Nat
      BY <2>1
    <2>3. Len(topic) + 1 \in cur[w] + 1 .. Len(topic')
      BY <2>2
    <2>4. topic'[Len(topic) + 1].event = rec.event
      BY <2>2
    <2>5. rec.event \in {topic'[i].event : i \in cur[w] + 1 .. Len(topic')}
      BY <2>3, <2>4
    <2> QED
      BY <2>5 DEF Remains, EventsOf
  <1>2. CASE Store(rec, to) /\ to = s /\ s # "topic"
    BY <1>2 DEF Store, Settled, IndInv, TypeOK
  <1>3. CASE queue' = queue \cup {[from |-> w, rec |-> rec, to |-> to]}
    <2> DEFINE m == [from |-> w, rec |-> rec, to |-> to]
    <2>1. m \in queue' /\ m.from = w /\ m.rec = rec
      BY <1>3
    <2>2. m.rec.event \in LeftBy(s, queue)'
      BY <2>1 DEF LeftBy
    <2> QED
      BY <2>1, <2>2 DEF Remains
  <1>4. s \in Service
    OBVIOUS
  <1> QED
    BY <1>1, <1>2, <1>3, <1>4 DEF Produced
-------------------------------------------------------------------------------
(* The inductive step *)

\* A worker that ends has polled nothing.
LEMMA Exits ==
    ASSUME IndInv, NEW w \in Worker, NEW why \in Down, Exit(w, why)
    PROVE  /\ pc' \in [Worker -> Down \cup Busy \cup {"poll"}]
           /\ cur' = [cur EXCEPT ![w] = 0] /\ position' = [position EXCEPT ![w] = 0]
           /\ owner' \in [Service -> Worker \cup {NoWorker}]
           /\ WorkerInv(w)'
           /\ \A v \in Worker \ {w} : UNCHANGED <<pc[v], cur[v], position[v]>>
  <1>1. /\ pc' = [pc EXCEPT ![w] = why]
        /\ cur' = [cur EXCEPT ![w] = 0] /\ position' = [position EXCEPT ![w] = 0]
    BY DEF Exit, Goto
  <1>2. owner' \in [Service -> Worker \cup {NoWorker}]
    BY DEF Exit, IndInv, TypeOK
  <1>3. pc'[w] = why /\ cur'[w] = 0 /\ position'[w] = 0
    BY <1>1 DEF IndInv, TypeOK
  <1>4. WorkerInv(w)'
    BY <1>3 DEF WorkerInv, Through, Busy, Finished, Down
  <1> QED
    BY <1>1, <1>2, <1>4 DEF IndInv, TypeOK, Busy

\* A worker goes on with the same message, or from where it is.
LEMMA Moves ==
    ASSUME IndInv, NEW w \in Worker, NEW label \in Busy \cup {"poll"}, Goto(w, label)
    PROVE  /\ pc' \in [Worker -> Down \cup Busy \cup {"poll"}]
           /\ pc'[w] = label
           /\ \A v \in Worker \ {w} : UNCHANGED pc[v]
  BY DEF Goto, IndInv, TypeOK, Busy

LEMMA PublishStep == ASSUME IndInv, NEW e \in Event, Publish(e) PROVE IndInv'
  <1> DEFINE rec == [event |-> e, count |-> 0]
  <1>1. Sendable(rec, "topic")
    BY DEF Sendable, Message
  <1>2. Produced(e, rec, "topic") \/ ProduceRaises(rec, "topic")
    BY DEF Publish
  <1>3. UNCHANGED <<committed, owner, worker, history>>
    BY DEF Publish
  <1>4. pub' \in [Event -> {"pending", "returned", "raised"}]
    BY DEF Publish, IndInv, TypeOK
  <1>5. /\ StoreOK' /\ Len(topic) <= Len(topic')
        /\ lost' = lost /\ faults' \in 0 .. MaxFaults
        /\ QueueInv' /\ \A s \in Service : Grows(s)
    BY <1>1, <1>2, <1>3, Sends DEF history
  <1>6. TypeOK'
    BY <1>3, <1>4, <1>5, SameHistory, Lengthens DEF IndInv, TypeOK, worker, Busy
  <1> QED
    BY <1>3, <1>5, <1>6, Assemble DEF worker

LEMMA FailStep == ASSUME IndInv, NEW w \in Worker, Fail(w) PROVE IndInv'
  <1> PICK r : r = Resend(topic[cur[w]], ServiceOf[w])
    OBVIOUS
  <1>1. /\ pc[w] = "fail" /\ UNCHANGED <<committed, pub, history>>
        /\ \/ Produced(w, r.rec, r.to) /\ Goto(w, "commit") /\ UNCHANGED <<position, cur, owner>>
           \/ ProduceRaises(r.rec, r.to) /\ Exit(w, "raised")
    BY DEF Fail
  <1>2. /\ cur[w] \in 1 .. Len(topic)
        /\ Sendable(r.rec, r.to) /\ r.to \in {"topic", ServiceOf[w]}
        /\ r.rec.event = topic[cur[w]].event /\ r.rec.event \in Accepted \ Unreadable
    BY <1>1, ResendIsSendable
  <1>3. /\ StoreOK' /\ Len(topic) <= Len(topic')
        /\ lost' = lost /\ faults' \in 0 .. MaxFaults
        /\ QueueInv' /\ \A s \in Service : Grows(s)
    BY <1>1, <1>2, Sends DEF history
  <1>4. CASE Produced(w, r.rec, r.to) /\ Goto(w, "commit") /\ UNCHANGED <<position, cur, owner>>
    <2>1. /\ pc' \in [Worker -> Down \cup Busy \cup {"poll"}] /\ pc'[w] = "commit"
          /\ \A v \in Worker \ {w} : UNCHANGED pc[v]
      BY <1>4, Moves DEF Busy
    <2>2. TypeOK'
      BY <1>1, <1>3, <1>4, <2>1, SameHistory, Lengthens DEF IndInv, TypeOK
    <2>3. Settled(ServiceOf[w], r.rec.event)' \/ r.rec.event \in Remains(ServiceOf[w], cur[w])'
      BY <1>2, <1>3, <1>4, ResendHandles DEF StoreOK
    <2>4. topic'[cur[w]] = topic[cur[w]]
      BY <1>2, <1>3 DEF Grows
    <2>5. WorkerInv(w)'
      <3> DEFINE s == ServiceOf[w]
      <3>1. /\ cur'[w] = cur[w] /\ position'[w] = position[w] /\ cur[w] # 0
            /\ cur[w] - 1 \in 0 .. Len(topic) /\ position[w] \in 0 .. Len(topic)
            /\ s \in Service
        BY <1>2, <1>4 DEF IndInv, TypeOK
      <3>2. Through(s, cur[w] - 1) /\ (position[w] = cur[w] \/ Through(s, position[w]))
        BY <3>1 DEF IndInv, WorkerInv
      <3>3. Through(s, cur[w] - 1)' /\ (position'[w] = cur'[w] \/ Through(s, position[w])')
        BY <1>3, <1>4, <2>2, <3>1, <3>2, ThroughKept DEF IndInv
      <3>4. Handled(s, cur[w])'
        BY <1>2, <1>4, <2>3, <2>4 DEF Handled
      <3> QED
        BY <2>1, <3>1, <3>3, <3>4 DEF WorkerInv, Busy, Finished
    <2> QED
      BY <1>1, <1>3, <1>4, <2>1, <2>2, <2>5, Assemble
  <1>5. CASE ProduceRaises(r.rec, r.to) /\ Exit(w, "raised")
    <2>1. /\ pc' \in [Worker -> Down \cup Busy \cup {"poll"}]
          /\ cur' = [cur EXCEPT ![w] = 0] /\ position' = [position EXCEPT ![w] = 0]
          /\ owner' \in [Service -> Worker \cup {NoWorker}]
          /\ WorkerInv(w)'
          /\ \A v \in Worker \ {w} : UNCHANGED <<pc[v], cur[v], position[v]>>
      BY <1>5, Exits DEF Down
    <2>2. position' \in [Worker -> 0 .. Len(topic)] /\ cur' \in [Worker -> 0 .. Len(topic)]
      BY <2>1 DEF IndInv, TypeOK
    <2>3. TypeOK'
      BY <1>1, <1>3, <2>1, <2>2, SameHistory, Lengthens DEF IndInv, TypeOK
    <2> QED
      BY <1>1, <1>3, <2>1, <2>3, Assemble
  <1> QED
    BY <1>1, <1>4, <1>5

\* Steps that store nothing: the types, and what each service keeps.
LEMMA Quiet ==
    ASSUME IndInv, UNCHANGED <<cluster, queue, lost>>, HistoryOK',
           \A s \in Service : \A e \in Event : served[s][e] \subseteq served'[s][e]
    PROVE  /\ StoreOK' /\ Len(topic) <= Len(topic') /\ lost' \in [Service -> SUBSET Event]
           /\ QueueInv' /\ \A s \in Service : Grows(s)
  <1>1. StoreOK' /\ Len(topic) <= Len(topic') /\ lost' \in [Service -> SUBSET Event]
    BY DEF IndInv, TypeOK, StoreOK, cluster
  <1>2. QueueInv'
    BY DEF IndInv, QueueInv, cluster, Accepted, EventsOf
  <1>3. \A s \in Service : (LeftBy(s, queue) \cup lost[s])' = LeftBy(s, queue) \cup lost[s]
    BY DEF LeftBy
  <1>4. \A s \in Service : Grows(s)
    BY <1>3, QuietEffect DEF HistoryOK
  <1> QED
    BY <1>1, <1>2, <1>4

\* Steps that touch neither the events nor the history.
LEMMA Still ==
    ASSUME IndInv, UNCHANGED <<cluster, queue, lost, history>>
    PROVE  /\ StoreOK' /\ HistoryOK' /\ Len(topic) <= Len(topic')
           /\ lost' \in [Service -> SUBSET Event]
           /\ QueueInv' /\ \A s \in Service : Grows(s)
  <1>1. HistoryOK'
    BY SameHistory DEF IndInv
  <1>2. \A s \in Service : \A e \in Event : served[s][e] \subseteq served'[s][e]
    BY DEF history
  <1> QED
    BY <1>1, <1>2, Quiet

LEMMA ListenStep == ASSUME IndInv, NEW w \in Worker, Listen(w) PROVE IndInv'
  <1>1. /\ pc[w] \in Down /\ Goto(w, "poll")
        /\ UNCHANGED <<cluster, committed, owner, queue, lost, pub, position, cur, history, faults>>
    BY DEF Listen, locals
  <1>2. /\ StoreOK' /\ HistoryOK' /\ Len(topic) <= Len(topic')
        /\ lost' \in [Service -> SUBSET Event] /\ QueueInv' /\ \A s \in Service : Grows(s)
    BY <1>1, Still
  <1>3. /\ pc' \in [Worker -> Down \cup Busy \cup {"poll"}] /\ pc'[w] = "poll"
        /\ \A v \in Worker \ {w} : UNCHANGED pc[v]
    BY <1>1, Moves
  <1>4. TypeOK'
    BY <1>1, <1>2, <1>3, Lengthens DEF IndInv, TypeOK
  <1>5. WorkerInv(w)'
    <2>1. cur[w] = 0 /\ Through(ServiceOf[w], position[w]) /\ position[w] \in 0 .. Len(topic)
      BY <1>1 DEF IndInv, WorkerInv, Busy, Down, TypeOK
    <2>2. Through(ServiceOf[w], position[w])'
      BY <1>1, <1>2, <1>4, <2>1, ThroughKept DEF IndInv
    <2> QED
      BY <1>1, <1>3, <2>1, <2>2 DEF WorkerInv, Busy, Finished
  <1> QED
    BY <1>1, <1>2, <1>3, <1>4, <1>5, Assemble

LEMMA AssignStep == ASSUME IndInv, NEW w \in Worker, Assign(w) PROVE IndInv'
  <1> DEFINE s == ServiceOf[w]
  <1>1. /\ UNCHANGED <<cluster, committed, queue, lost, pub, pc, cur, history>>
        /\ owner' = [owner EXCEPT ![s] = w]
        /\ position' = [position EXCEPT ![w] = committed[s]]
        /\ faults' \in 0 .. MaxFaults
    BY DEF Assign, locals, Fault, IndInv, TypeOK
  <1>2. /\ StoreOK' /\ HistoryOK' /\ Len(topic) <= Len(topic')
        /\ lost' \in [Service -> SUBSET Event] /\ QueueInv' /\ \A t \in Service : Grows(t)
    BY <1>1, Still
  <1>3. committed[s] \in 0 .. Len(topic) /\ s \in Service
    BY DEF IndInv, TypeOK
  <1>4. TypeOK'
    BY <1>1, <1>2, <1>3, Lengthens DEF IndInv, TypeOK, Busy
  <1>5. /\ position'[w] = committed[s]
        /\ \A v \in Worker \ {w} : UNCHANGED <<pc[v], cur[v], position[v]>>
    BY <1>1 DEF IndInv, TypeOK
  <1>6. WorkerInv(w)'
    <2>1. Through(s, position[w])'
      BY <1>1, <1>5, <1>2, <1>3, <1>4, ThroughKept DEF IndInv
    <2>2. cur[w] # 0 => /\ cur[w] - 1 \in 0 .. Len(topic) /\ Through(s, cur[w] - 1)
                        /\ topic'[cur[w]] = topic[cur[w]]
      BY <1>1 DEF IndInv, WorkerInv, TypeOK, cluster
    <2>3. cur[w] # 0 => Through(s, cur[w] - 1)'
      BY <1>1, <1>2, <1>3, <1>4, <2>2, ThroughKept DEF IndInv
    <2>4. pc[w] \in Finished => Handled(s, cur[w])'
      <3>1. pc[w] \in Finished => Handled(s, cur[w])
        BY DEF IndInv, WorkerInv
      <3> QED
        BY <1>1, <3>1 DEF Handled, Remains, Settled, EventsOf, LeftBy, cluster, history
    <2> QED
      <3>1. pc'[w] = pc[w] /\ cur'[w] = cur[w]
        BY <1>1
      <3> QED
        <4>1. /\ pc[w] \in Busy <=> cur[w] # 0
              /\ pc[w] \in {"handle", "fail"} => topic[cur[w]].event \notin Unreadable
          BY DEF IndInv, WorkerInv
        <4>2. pc[w] \in {"handle", "fail"} => cur[w] # 0
          BY <4>1 DEF Busy
        <4> QED
          BY <3>1, <4>1, <4>2, <2>1, <2>2, <2>3, <2>4 DEF WorkerInv
  <1> QED
    BY <1>1, <1>2, <1>4, <1>5, <1>6, Assemble

LEMMA PollStep == ASSUME IndInv, NEW w \in Worker, Poll(w) PROVE IndInv'
  <1> DEFINE s == ServiceOf[w]
  <1> PICK label \in {"discard", "handle"} :
           label = IF topic[position[w] + 1].event \in Unreadable THEN "discard" ELSE "handle"
    OBVIOUS
  <1>1. /\ pc[w] = "poll" /\ Goto(w, label)
        /\ position' = [position EXCEPT ![w] = @ + 1]
        /\ cur' = [cur EXCEPT ![w] = position[w] + 1]
        /\ position[w] < Len(topic)
        /\ UNCHANGED <<cluster, committed, owner, queue, lost, pub, history, faults>>
    BY DEF Poll, locals
  <1>2. /\ StoreOK' /\ HistoryOK' /\ Len(topic) <= Len(topic')
        /\ lost' \in [Service -> SUBSET Event] /\ QueueInv' /\ \A t \in Service : Grows(t)
    BY <1>1, Still
  <1>3. /\ pc' \in [Worker -> Down \cup Busy \cup {"poll"}] /\ pc'[w] = label
        /\ \A v \in Worker \ {w} : UNCHANGED pc[v]
    BY <1>1, Moves DEF Busy
  <1>4. position[w] + 1 \in 1 .. Len(topic) /\ s \in Service /\ position[w] \in 0 .. Len(topic)
    BY <1>1 DEF IndInv, TypeOK
  <1>5. /\ position'[w] = position[w] + 1 /\ cur'[w] = position[w] + 1
        /\ position' \in [Worker -> 0 .. Len(topic)] /\ cur' \in [Worker -> 0 .. Len(topic)]
        /\ \A v \in Worker \ {w} : UNCHANGED <<pc[v], cur[v], position[v]>>
    BY <1>1, <1>3, <1>4 DEF IndInv, TypeOK
  <1>6. TypeOK'
    BY <1>1, <1>2, <1>3, <1>5, Lengthens DEF IndInv, TypeOK
  <1>7. WorkerInv(w)'
    <2>1. Through(s, position[w])
      BY <1>1 DEF IndInv, WorkerInv, Busy
    <2>2. cur'[w] - 1 = position[w]
      BY <1>4, <1>5
    <2>3. Through(s, cur[w] - 1)'
      BY <1>2, <1>4, <1>6, <2>1, <2>2, ThroughKept DEF IndInv
    <2>4. topic'[cur'[w]] = topic[position[w] + 1]
      BY <1>1, <1>5 DEF cluster
    <2>5. label = "handle" => topic'[cur'[w]].event \notin Unreadable
      BY <2>4
    <2>6. label = "discard" => Handled(s, cur[w])'
      BY <2>4 DEF Handled, Settled
    <2> QED
      BY <1>3, <1>4, <1>5, <2>3, <2>5, <2>6 DEF WorkerInv, Busy, Finished
  <1> QED
    BY <1>1, <1>2, <1>5, <1>6, <1>7, Assemble

\* The receivers run, to the end or until the process is killed.
LEMMA Receives ==
    ASSUME IndInv, NEW w \in Worker, pc[w] = "handle", NEW ok \in SUBSET Receiver,
           NEW isFailed \in BOOLEAN, RunReceivers(w, ok, isFailed)
    PROVE  /\ cur[w] \in 1 .. Len(topic) /\ topic[cur[w]].event \in Event
           /\ HistoryOK'
           /\ \A s \in Service : \A e \in Event : served[s][e] \subseteq served'[s][e]
           /\ ok \subseteq served'[ServiceOf[w]][topic[cur[w]].event]
  <1> PICK e : e = topic[cur[w]].event
    OBVIOUS
  <1>1. cur[w] \in 1 .. Len(topic) /\ ServiceOf[w] \in Service
    BY DEF IndInv, TypeOK, WorkerInv, Busy
  <1>2. e \in Event
    BY <1>1, RecordsOf DEF IndInv
  <1>3. /\ served' = [served EXCEPT ![ServiceOf[w]][e] = @ \cup ok]
        /\ tried' = [tried EXCEPT ![ServiceOf[w]][e] = Bump(@, MaxRetries + 1)]
        /\ failed' = [failed EXCEPT ![ServiceOf[w]][e] = IF isFailed THEN Bump(@, MaxRetries) ELSE @]
    BY DEF RunReceivers
  <1>4. served' \in [Service -> [Event -> SUBSET Receiver]]
        /\ \A s \in Service : \A d \in Event : served[s][d] \subseteq served'[s][d]
        /\ ok \subseteq served'[ServiceOf[w]][e]
    BY <1>1, <1>2, <1>3 DEF IndInv, TypeOK
  <1>5. PICK n \in 0 .. MaxRetries + 1 : n = Bump(tried[ServiceOf[w]][e], MaxRetries + 1)
    BY <1>1, <1>2 DEF Bump, IndInv, TypeOK
  <1>6. PICK m \in 0 .. MaxRetries :
            m = IF isFailed THEN Bump(failed[ServiceOf[w]][e], MaxRetries) ELSE failed[ServiceOf[w]][e]
    <2>1. failed[ServiceOf[w]][e] \in 0 .. MaxRetries
      BY <1>1, <1>2 DEF IndInv, TypeOK
    <2>2. Bump(failed[ServiceOf[w]][e], MaxRetries) \in 0 .. MaxRetries
      BY <2>1 DEF Bump
    <2> QED
      BY <2>1, <2>2, Zenon
  <1>7. tried' = [tried EXCEPT ![ServiceOf[w]][e] = n] /\ failed' = [failed EXCEPT ![ServiceOf[w]][e] = m]
    BY <1>1, <1>2, <1>3, <1>5, <1>6 DEF IndInv, TypeOK
  <1>8. /\ tried' \in [Service -> [Event -> 0 .. MaxRetries + 1]]
        /\ failed' \in [Service -> [Event -> 0 .. MaxRetries]]
    BY <1>1, <1>2, <1>7 DEF IndInv, TypeOK
  <1> QED
    BY <1>1, <1>2, <1>4, <1>8 DEF HistoryOK

LEMMA DispatchStep == ASSUME IndInv, NEW w \in Worker, Dispatch(w) PROVE IndInv'
  <1> DEFINE s == ServiceOf[w]
  <1>1. PICK bad \in SUBSET Receiver :
            /\ RunReceivers(w, Receiver \ bad, bad # {})
            /\ Goto(w, IF bad = {} THEN "ack" ELSE "fail")
    BY DEF Dispatch
  <1> PICK label \in {"ack", "fail"} : label = IF bad = {} THEN "ack" ELSE "fail"
    OBVIOUS
  <1>2. /\ pc[w] = "handle"
        /\ UNCHANGED <<cluster, committed, owner, queue, lost, pub, position, cur, faults>>
    BY DEF Dispatch, locals
  <1>3. /\ cur[w] \in 1 .. Len(topic) /\ topic[cur[w]].event \in Event
        /\ HistoryOK'
        /\ \A t \in Service : \A e \in Event : served[t][e] \subseteq served'[t][e]
        /\ Receiver \ bad \subseteq served'[s][topic[cur[w]].event]
    BY <1>1, <1>2, Receives
  <1>4. /\ StoreOK' /\ Len(topic) <= Len(topic') /\ lost' \in [Service -> SUBSET Event]
        /\ QueueInv' /\ \A t \in Service : Grows(t)
    BY <1>2, <1>3, Quiet
  <1>5. /\ pc' \in [Worker -> Down \cup Busy \cup {"poll"}] /\ pc'[w] = label
        /\ \A v \in Worker \ {w} : UNCHANGED pc[v]
    BY <1>1, Moves DEF Busy
  <1>6. TypeOK'
    BY <1>2, <1>3, <1>4, <1>5, Lengthens DEF IndInv, TypeOK
  <1>7. WorkerInv(w)'
    <2>1. /\ cur[w] # 0 /\ cur[w] - 1 \in 0 .. Len(topic) /\ position[w] \in 0 .. Len(topic)
          /\ s \in Service /\ topic'[cur[w]] = topic[cur[w]]
      BY <1>2, <1>3 DEF IndInv, TypeOK, cluster
    <2>2. /\ Through(s, cur[w] - 1) /\ (position[w] = cur[w] \/ Through(s, position[w]))
          /\ topic[cur[w]].event \notin Unreadable
      BY <1>2, <2>1 DEF IndInv, WorkerInv
    <2>3. Through(s, cur[w] - 1)' /\ (position'[w] = cur'[w] \/ Through(s, position[w])')
      BY <1>2, <1>4, <1>6, <2>1, <2>2, ThroughKept DEF IndInv
    <2>4. label = "ack" => Handled(s, cur[w])'
      <3>1. label = "ack" => served'[s][topic[cur[w]].event] = Receiver
        <4>1. label = "ack" => Receiver \subseteq served'[s][topic[cur[w]].event]
          BY <1>3
        <4>2. served'[s][topic[cur[w]].event] \subseteq Receiver
          BY <1>3, <2>1 DEF HistoryOK
        <4> QED
          BY <4>1, <4>2
      <3> QED
        BY <1>2, <2>1, <3>1 DEF Handled, Settled
    <2> QED
      BY <1>2, <1>5, <2>1, <2>2, <2>3, <2>4 DEF WorkerInv, Busy, Finished
  <1> QED
    BY <1>2, <1>4, <1>5, <1>6, <1>7, Assemble

\* The group goes on after the record a worker is through with.
LEMMA CommitKeeps ==
    ASSUME IndInv, NEW w \in Worker, pc[w] \in Finished, TypeOK', \A s \in Service : Grows(s),
           committed' = [committed EXCEPT ![ServiceOf[w]] = cur[w]] \/ UNCHANGED committed
    PROVE  /\ \A s \in Service : committed'[s] = committed[s] \/ Through(s, committed[s])'
           /\ \A k \in {cur[w]} : Through(ServiceOf[w], k)'
  <1>1. cur[w] \in 0 .. Len(topic) /\ Through(ServiceOf[w], cur[w]) /\ ServiceOf[w] \in Service
    BY FinishedThrough DEF IndInv, TypeOK
  <1>2. \A k \in {cur[w]} : Through(ServiceOf[w], k)'
    BY <1>1, ThroughKept DEF IndInv
  <1>3. ASSUME NEW s \in Service, committed'[s] # committed[s] PROVE Through(s, committed[s])'
    <2>1. s = ServiceOf[w] /\ committed'[s] = cur[w]
      BY <1>3 DEF IndInv, TypeOK
    <2> QED
      BY <1>1, <2>1, ThroughKept DEF IndInv
  <1> QED
    BY <1>2, <1>3

LEMMA CommitStep == ASSUME IndInv, NEW w \in Worker, Commit(w) PROVE IndInv'
  <1> DEFINE s == ServiceOf[w]
  <1>1. /\ pc[w] \in Finished /\ Goto(w, "poll")
        /\ committed' = [committed EXCEPT ![s] = cur[w]]
        /\ cur' = [cur EXCEPT ![w] = 0]
        /\ UNCHANGED <<cluster, owner, queue, lost, pub, position, history, faults>>
    BY DEF Commit, locals, Finished
  <1>2. /\ StoreOK' /\ HistoryOK' /\ Len(topic) <= Len(topic')
        /\ lost' \in [Service -> SUBSET Event] /\ QueueInv' /\ \A t \in Service : Grows(t)
    BY <1>1, Still
  <1>3. /\ pc' \in [Worker -> Down \cup Busy \cup {"poll"}] /\ pc'[w] = "poll"
        /\ \A v \in Worker \ {w} : UNCHANGED pc[v]
    BY <1>1, Moves
  <1>4. /\ cur[w] \in 0 .. Len(topic) /\ position[w] \in 0 .. Len(topic) /\ s \in Service
        /\ cur' \in [Worker -> 0 .. Len(topic)] /\ committed' \in [Service -> 0 .. Len(topic)]
        /\ cur'[w] = 0 /\ \A v \in Worker \ {w} : UNCHANGED <<pc[v], cur[v], position[v]>>
    BY <1>1, <1>3 DEF IndInv, TypeOK
  <1>5. TypeOK'
    BY <1>1, <1>2, <1>3, <1>4, Lengthens DEF IndInv, TypeOK
  <1>6. WorkerInv(w)'
    <2>1. Through(s, position[w])
      <3>1. cur[w] # 0 /\ (position[w] = cur[w] \/ Through(s, position[w]))
        BY <1>1 DEF IndInv, WorkerInv, Busy, Finished
      <3> QED
        BY <1>1, <3>1, FinishedThrough
    <2>2. Through(s, position[w])'
      BY <1>1, <1>2, <1>4, <1>5, <2>1, ThroughKept DEF IndInv
    <2> QED
      BY <1>3, <1>4, <2>2 DEF WorkerInv, Busy, Finished
  <1>7. \A t \in Service : committed'[t] = committed[t] \/ Through(t, committed[t])'
    BY <1>1, <1>2, <1>5, CommitKeeps
  <1> QED
    BY <1>2, <1>4, <1>5, <1>6, <1>7, Assemble

LEMMA CommitRaisesStep == ASSUME IndInv, NEW w \in Worker, CommitRaises(w) PROVE IndInv'
  <1>1. /\ pc[w] \in Finished /\ Exit(w, "raised")
        /\ committed' = [committed EXCEPT ![ServiceOf[w]] = cur[w]] \/ UNCHANGED committed
        /\ faults' \in 0 .. MaxFaults
        /\ UNCHANGED <<cluster, queue, lost, pub, history>>
    BY DEF CommitRaises, locals, Finished, Fault, IndInv, TypeOK
  <1>2. /\ StoreOK' /\ HistoryOK' /\ Len(topic) <= Len(topic')
        /\ lost' \in [Service -> SUBSET Event] /\ QueueInv' /\ \A t \in Service : Grows(t)
    BY <1>1, Still
  <1>3. /\ pc' \in [Worker -> Down \cup Busy \cup {"poll"}]
        /\ cur' = [cur EXCEPT ![w] = 0] /\ position' = [position EXCEPT ![w] = 0]
        /\ owner' \in [Service -> Worker \cup {NoWorker}]
        /\ WorkerInv(w)'
        /\ \A v \in Worker \ {w} : UNCHANGED <<pc[v], cur[v], position[v]>>
    BY <1>1, Exits DEF Down
  <1>4. /\ position' \in [Worker -> 0 .. Len(topic)] /\ cur' \in [Worker -> 0 .. Len(topic)]
        /\ committed' \in [Service -> 0 .. Len(topic)]
    <2>1. /\ position \in [Worker -> 0 .. Len(topic)] /\ cur \in [Worker -> 0 .. Len(topic)]
          /\ committed \in [Service -> 0 .. Len(topic)] /\ Len(topic) \in Nat
      BY DEF IndInv, TypeOK
    <2>2. position' \in [Worker -> 0 .. Len(topic)] /\ cur' \in [Worker -> 0 .. Len(topic)]
      BY <1>3, <2>1
    <2> QED
      BY <1>1, <2>1, <2>2
  <1>5. TypeOK'
    BY <1>1, <1>2, <1>3, <1>4, Lengthens DEF IndInv, TypeOK
  <1>6. \A t \in Service : committed'[t] = committed[t] \/ Through(t, committed[t])'
    BY <1>1, <1>2, <1>5, CommitKeeps
  <1> QED
    BY <1>2, <1>3, <1>5, <1>6, Assemble

\* Messages that are lost in a local queue are remembered.
LEMMA LoseEffect ==
    ASSUME IndInv, NEW ms \in SUBSET queue, LoseAll(ms), UNCHANGED cluster, HistoryOK',
           \A s \in Service : \A e \in Event : served[s][e] \subseteq served'[s][e]
    PROVE  /\ StoreOK' /\ Len(topic) <= Len(topic') /\ lost' \in [Service -> SUBSET Event]
           /\ QueueInv' /\ \A s \in Service : Grows(s)
           /\ \A s \in Service : (LeftBy(s, queue) \cup lost[s])' = LeftBy(s, queue) \cup lost[s]
  <1>1. \A s \in Service : LeftBy(s, ms) \subseteq Event
    BY DEF LeftBy, IndInv, TypeOK, Message
  <1>2. queue' = queue \ ms /\ lost' = [s \in Service |-> lost[s] \cup LeftBy(s, ms)]
    BY DEF LoseAll
  <1>3. StoreOK' /\ Len(topic) <= Len(topic') /\ lost' \in [Service -> SUBSET Event]
    BY <1>1, <1>2 DEF IndInv, TypeOK, StoreOK, cluster
  <1>4. QueueInv'
    BY <1>2 DEF IndInv, QueueInv, cluster, Accepted, EventsOf
  <1>5. \A s \in Service : (LeftBy(s, queue) \cup lost[s])' = LeftBy(s, queue) \cup lost[s]
    BY <1>2 DEF LeftBy
  <1>6. \A s \in Service : Grows(s)
    BY <1>5, QuietEffect DEF HistoryOK
  <1> QED
    BY <1>3, <1>4, <1>5, <1>6

LEMMA KillStep == ASSUME IndInv, NEW w \in Worker, Kill(w) PROVE IndInv'
  <1>1. /\ Exit(w, "killed") /\ faults' \in 0 .. MaxFaults
        /\ LoseAll({m \in queue : m.from = w})
        /\ UNCHANGED <<cluster, committed, pub>>
    BY DEF Kill, Fault, IndInv, TypeOK
  <1>2. HistoryOK' /\ \A s \in Service : \A e \in Event : served[s][e] \subseteq served'[s][e]
    <2>1. CASE pc[w] = "handle"
      BY <2>1, Receives DEF Kill
    <2>2. CASE pc[w] # "handle"
      BY <2>2, SameHistory DEF Kill, history, IndInv
    <2> QED
      BY <2>1, <2>2
  <1>3. /\ StoreOK' /\ Len(topic) <= Len(topic') /\ lost' \in [Service -> SUBSET Event]
        /\ QueueInv' /\ \A s \in Service : Grows(s)
    BY <1>1, <1>2, LoseEffect
  <1>4. /\ pc' \in [Worker -> Down \cup Busy \cup {"poll"}]
        /\ cur' = [cur EXCEPT ![w] = 0] /\ position' = [position EXCEPT ![w] = 0]
        /\ owner' \in [Service -> Worker \cup {NoWorker}]
        /\ WorkerInv(w)'
        /\ \A v \in Worker \ {w} : UNCHANGED <<pc[v], cur[v], position[v]>>
    BY <1>1, Exits DEF Down
  <1>5. position' \in [Worker -> 0 .. Len(topic)] /\ cur' \in [Worker -> 0 .. Len(topic)]
    BY <1>4 DEF IndInv, TypeOK
  <1>6. TypeOK'
    BY <1>1, <1>2, <1>3, <1>4, <1>5, Lengthens DEF IndInv, TypeOK
  <1> QED
    BY <1>1, <1>3, <1>4, <1>6, Assemble

LEMMA LoseStep == ASSUME IndInv, NEW m \in queue, Lose(m) PROVE IndInv'
  <1>1. /\ LoseAll({m}) /\ faults' \in 0 .. MaxFaults
        /\ UNCHANGED <<cluster, committed, owner, pub, worker, history>>
    BY DEF Lose, IndInv, TypeOK
  <1>2. HistoryOK' /\ \A s \in Service : \A e \in Event : served[s][e] \subseteq served'[s][e]
    BY <1>1, SameHistory DEF history, IndInv
  <1>3. /\ StoreOK' /\ Len(topic) <= Len(topic') /\ lost' \in [Service -> SUBSET Event]
        /\ QueueInv' /\ \A s \in Service : Grows(s)
    BY <1>1, <1>2, LoseEffect
  <1>4. TypeOK'
    BY <1>1, <1>2, <1>3, Lengthens DEF IndInv, TypeOK, worker, Busy
  <1> QED
    BY <1>1, <1>3, <1>4, Assemble DEF worker

LEMMA DeliverStep == ASSUME IndInv, NEW m \in queue, Deliver(m) PROVE IndInv'
  <1>1. /\ Store(m.rec, m.to) /\ queue' = queue \ {m}
        /\ UNCHANGED <<committed, owner, lost, pub, worker, history, faults>>
    BY DEF Deliver
  <1>2. Sendable(m.rec, m.to)
    BY DEF Sendable, IndInv, TypeOK, QueueInv, Message
  <1>3. ASSUME NEW s \in Service, NEW e \in LeftBy(s, queue) \cup lost[s]
        PROVE  e \in (LeftBy(s, queue) \cup lost[s])' \/ (e = m.rec.event /\ m.to \in {"topic", s})
    <2>1. CASE e \in lost[s]
      BY <1>1, <2>1
    <2>2. CASE e \in LeftBy(s, queue)
      <3>1. PICK n \in queue : n.from \in Worker /\ ServiceOf[n.from] = s /\ n.rec.event = e
        BY <2>2 DEF LeftBy
      <3>2. CASE n = m
        BY <3>1, <3>2 DEF IndInv, QueueInv
      <3>3. CASE n # m
        BY <1>1, <3>1, <3>3 DEF LeftBy
      <3> QED
        BY <3>2, <3>3
    <2> QED
      BY <2>1, <2>2
  <1>4. /\ topic' \in Seq(Record) /\ Len(topic') \in Len(topic) .. MaxRecords
        /\ dead' \in [Service -> SUBSET Event]
        /\ Accepted \subseteq Accepted' /\ \A s \in Service : Grows(s)
    <2> PICK rec, to : rec = m.rec /\ to = m.to
      OBVIOUS
    <2> QED
      BY <1>1, <1>2, <1>3, StoreEffect DEF history
  <1>5. StoreOK' /\ Len(topic) <= Len(topic') /\ QueueInv'
    BY <1>1, <1>4 DEF StoreOK, QueueInv, IndInv, TypeOK
  <1>6. TypeOK'
    BY <1>1, <1>5, SameHistory, Lengthens DEF IndInv, TypeOK, worker, Busy
  <1> QED
    BY <1>1, <1>4, <1>5, <1>6, Assemble DEF worker

LEMMA StepIndInv == IndInv /\ [Next]_vars => IndInv'
  <1> SUFFICES ASSUME IndInv, [Next]_vars PROVE IndInv'
    OBVIOUS
  <1>1. ASSUME NEW w \in Worker, Work(w) \/ Assign(w) \/ CommitRaises(w) \/ Kill(w) PROVE IndInv'
    BY <1>1, ListenStep, PollStep, DispatchStep, CommitStep, FailStep, AssignStep,
       CommitRaisesStep, KillStep DEF Work
  <1>2. CASE UNCHANGED vars
    <2>1. /\ StoreOK' /\ HistoryOK' /\ Len(topic) <= Len(topic')
          /\ lost' \in [Service -> SUBSET Event] /\ QueueInv' /\ \A t \in Service : Grows(t)
      BY <1>2, Still DEF vars, locals
    <2>2. TypeOK'
      BY <1>2 DEF vars, cluster, locals, worker, history, IndInv, TypeOK
    <2> QED
      BY <1>2, <2>1, <2>2, Assemble DEF vars, worker
  <1> QED
    BY <1>1, <1>2, PublishStep, DeliverStep, LoseStep DEF Next

LEMMA Invariance == Spec => []IndInv
  BY InitIndInv, StepIndInv, PTL DEF Spec

\* TypeOK: every variable keeps its type; no message is sent to the topic again after its
\* last attempt, and the offsets stay within the topic.
THEOREM TypeCorrect == Spec => []TypeOK
  <1>1. IndInv => TypeOK
    BY DEF IndInv
  <1> QED
    BY <1>1, Invariance, PTL

-------------------------------------------------------------------------------
(* Attempts and failures *)

\* As long as one service alone fails on an event, a count never exceeds its failures.
Counted(rec) ==
    \A s \in Service : Alone(s, rec.event) => rec.count <= failed[s][rec.event]

\* A worker in fail() has failed once more than the record it holds says.
FailingInv(w) ==
    LET e == topic[cur[w]].event IN
    /\ failed[ServiceOf[w]][e] >= 1
    /\ Alone(ServiceOf[w], e) => topic[cur[w]].count + 1 <= failed[ServiceOf[w]][e]

CountInv ==
    /\ \A i \in 1 .. Len(topic) : Counted(topic[i])
    /\ \A m \in queue : Counted(m.rec)
    /\ \A w \in Worker : pc[w] = "fail" => FailingInv(w)
    /\ BuriedAfterMaxRetries

\* A message with a right count may be stored, or left in a local queue.
LEMMA CountStored ==
    ASSUME IndInv, IndInv', CountInv, NEW rec, NEW to, Sendable(rec, to), Counted(rec),
           Store(rec, to) \/ UNCHANGED cluster, UNCHANGED history,
           \A m \in queue' : m \in queue \/ m.rec = rec,
           \A w \in Worker : pc'[w] = "fail" => pc[w] = "fail" /\ cur'[w] = cur[w]
    PROVE  CountInv'
  <1>1. \A s \in Service, e \in Event : Alone(s, e)' <=> Alone(s, e)
    BY DEF Alone, history
  <1>2. ASSUME NEW r \in Message, Counted(r) PROVE Counted(r)'
    BY <1>1, <1>2 DEF Counted, Message, history
  <1>3. rec \in Message
    BY DEF Sendable
  <1>4. topic \in Seq(Record) /\ Len(topic) \in Nat
    BY DEF IndInv, TypeOK
  <1>5. ASSUME NEW i \in 1 .. Len(topic') PROVE Counted(topic[i])'
    <2>1. topic'[i] \in Message /\ Counted(topic'[i])
      <3>1. CASE i \in 1 .. Len(topic) /\ topic'[i] = topic[i]
        <4>1. topic[i] \in Message
          BY <3>1, RecordsOf DEF IndInv, Record, Message
        <4> QED
          BY <3>1, <4>1 DEF CountInv
      <3>2. CASE topic'[i] = rec
        BY <1>3, <3>2
      <3>3. topic' = topic \/ topic' = Append(topic, rec)
        BY DEF Store, cluster
      <3> QED
        BY <1>4, <3>1, <3>2, <3>3
    <2> PICK r \in Message : r = topic'[i]
      BY <2>1
    <2>2. Counted(r)'
      BY <2>1, <1>2
    <2> QED
      BY <2>2 DEF Counted
  <1>6. ASSUME NEW m \in queue' PROVE Counted(m.rec)'
    <2>1. m.rec \in Message /\ Counted(m.rec)
      BY <1>3 DEF CountInv, IndInv, TypeOK
    <2> QED
      BY <2>1, <1>2
  <1>7. ASSUME NEW w \in Worker, pc'[w] = "fail" PROVE FailingInv(w)'
    <2>1. pc[w] = "fail" /\ cur'[w] = cur[w] /\ cur[w] \in 1 .. Len(topic)
      BY <1>7 DEF IndInv, TypeOK, WorkerInv, Busy
    <2>2. topic'[cur[w]] = topic[cur[w]] /\ topic[cur[w]].event \in Event
      <3>1. topic' = topic \/ topic' = Append(topic, rec)
        BY DEF Store, cluster
      <3> QED
        BY <1>4, <2>1, <3>1, RecordsOf DEF IndInv
    <2> QED
      BY <1>1, <2>1, <2>2 DEF CountInv, FailingInv, history
  <1>8. BuriedAfterMaxRetries'
    <2> SUFFICES ASSUME NEW s \in Service, NEW e \in dead'[s], Alone(s, e)'
                 PROVE  failed'[s][e] >= MaxRetries
      BY DEF BuriedAfterMaxRetries
    <2>1. e \in Event
      BY DEF IndInv, TypeOK
    <2>2. CASE e \in dead[s]
      BY <1>1, <2>1, <2>2 DEF CountInv, BuriedAfterMaxRetries, history
    <2>3. CASE e \notin dead[s]
      <3>1. to # "topic" /\ dead' = [dead EXCEPT ![to] = @ \cup {rec.event}]
        BY <2>3 DEF Store, cluster
      <3>2. to = s /\ e = rec.event /\ rec.count = MaxRetries
        BY <2>3, <3>1 DEF Sendable, IndInv, TypeOK
      <3> QED
        BY <1>1, <1>3, <2>1, <3>2 DEF Counted, history, IndInv, TypeOK
    <2> QED
      BY <2>2, <2>3
  <1> QED
    BY <1>5, <1>6, <1>7, <1>8 DEF CountInv

\* Nothing is stored, and the history does not change.
LEMMA CountStill ==
    ASSUME IndInv, IndInv', CountInv, UNCHANGED <<topic, dead, failed>>, queue' \subseteq queue,
           \A w \in Worker : pc'[w] = "fail" => pc[w] = "fail" /\ cur'[w] = cur[w]
    PROVE  CountInv'
  BY DEF CountInv, Counted, Alone, FailingInv, BuriedAfterMaxRetries

\* The receivers run: failures are only counted up.
LEMMA CountReceived ==
    ASSUME IndInv, CountInv, NEW w \in Worker, pc[w] = "handle", NEW ok \in SUBSET Receiver,
           NEW isFailed \in BOOLEAN, RunReceivers(w, ok, isFailed),
           UNCHANGED <<topic, dead>>, queue' \subseteq queue,
           \A v \in Worker \ {w} : UNCHANGED <<pc[v], cur[v]>>,
           pc'[w] = "fail" => isFailed /\ cur'[w] = cur[w]
    PROVE  CountInv'
  <1> DEFINE s == ServiceOf[w]
  <1> PICK e : e = topic[cur[w]].event
    OBVIOUS
  <1>1. /\ cur[w] \in 1 .. Len(topic) /\ s \in Service /\ e \in Event
        /\ topic[cur[w]].count \in 0 .. MaxRetries - 1
    BY RecordsOf DEF IndInv, TypeOK, WorkerInv, Busy
  <1>2. failed[s][e] \in 0 .. MaxRetries
    BY <1>1 DEF IndInv, TypeOK
  <1>3. /\ Bump(failed[s][e], MaxRetries) \in 1 .. MaxRetries
        /\ Bump(failed[s][e], MaxRetries) >= failed[s][e]
        /\ Bump(failed[s][e], MaxRetries) \in {failed[s][e] + 1, MaxRetries}
    BY <1>2 DEF Bump
  <1> PICK m \in 0 .. MaxRetries :
            m = IF isFailed THEN Bump(failed[s][e], MaxRetries) ELSE failed[s][e]
    <2>1. Bump(failed[s][e], MaxRetries) \in 0 .. MaxRetries
      BY <1>3
    <2> QED
      BY <1>2, <2>1, Zenon
  <1>a. m >= failed[s][e] /\ (isFailed => m >= 1 /\ m \in {failed[s][e] + 1, MaxRetries})
    BY <1>2, <1>3
  <1>b. failed' = [failed EXCEPT ![s][e] = m]
    BY <1>1 DEF RunReceivers, IndInv, TypeOK
  <1>4. \A t \in Service, d \in Event :
            /\ failed[t][d] \in Nat /\ failed'[t][d] \in Nat
            /\ failed'[t][d] >= failed[t][d]
            /\ t # s \/ d # e => failed'[t][d] = failed[t][d]
    <2> TAKE t \in Service, d \in Event
    <2>1. failed \in [Service -> [Event -> 0 .. MaxRetries]] /\ failed[t][d] \in 0 .. MaxRetries
      BY DEF IndInv, TypeOK
    <2>2. CASE t = s /\ d = e
      <3>1. failed'[t][d] = m
        BY <1>1, <1>b, <2>1, <2>2
      <3> QED
        BY <1>2, <1>a, <2>1, <2>2, <3>1
    <2>3. CASE t # s \/ d # e
      <3>1. failed'[t][d] = failed[t][d]
        BY <1>1, <1>b, <2>1, <2>3
      <3> QED
        BY <2>1, <2>3, <3>1
    <2> QED
      BY <2>2, <2>3
  <1>5. failed'[s][e] = m
    BY <1>1, <1>b DEF IndInv, TypeOK
  <1>6. \A t \in Service, d \in Event : Alone(t, d)' => Alone(t, d)
    BY <1>4 DEF Alone
  <1>7. ASSUME NEW r \in Message, Counted(r) PROVE Counted(r)'
    BY <1>4, <1>6, <1>7 DEF Counted, Message
  <1>8. \A i \in 1 .. Len(topic') : Counted(topic[i])'
    <2> SUFFICES ASSUME NEW i \in 1 .. Len(topic) PROVE Counted(topic[i])'
      OBVIOUS
    <2>1. topic[i] \in Message
      BY RecordsOf DEF IndInv, Record, Message
    <2> PICK r \in Message : r = topic[i]
      BY <2>1
    <2> QED
      BY <1>7 DEF CountInv
  <1>9. \A q \in queue' : Counted(q.rec)'
    BY <1>7 DEF CountInv, IndInv, TypeOK
  <1>10. ASSUME NEW v \in Worker, pc'[v] = "fail" PROVE FailingInv(v)'
    <2>1. CASE v = w
      <3>1. isFailed /\ cur'[w] = cur[w]
        BY <1>10, <2>1
      <3>2. Alone(s, e)' => topic[cur[w]].count <= failed[s][e]
        BY <1>1, <1>6 DEF CountInv, Counted
      <3> QED
        BY <1>1, <1>2, <1>a, <1>5, <2>1, <3>1, <3>2 DEF FailingInv
    <2>2. CASE v # w
      <3>1. pc[v] = "fail" /\ cur'[v] = cur[v] /\ cur[v] \in 1 .. Len(topic)
        BY <1>10, <2>2 DEF IndInv, TypeOK, WorkerInv, Busy
      <3>2. topic[cur[v]].event \in Event /\ topic[cur[v]].count \in Nat /\ ServiceOf[v] \in Service
        BY <3>1, RecordsOf DEF IndInv
      <3>3. FailingInv(v)
        BY <3>1 DEF CountInv
      <3> PICK d \in Event, n \in Nat : d = topic[cur[v]].event /\ n = topic[cur[v]].count
        BY <3>2
      <3>4. /\ failed[ServiceOf[v]][d] >= 1
            /\ Alone(ServiceOf[v], d) => n + 1 <= failed[ServiceOf[v]][d]
        BY <3>3 DEF FailingInv
      <3>5. /\ failed'[ServiceOf[v]][d] >= 1
            /\ Alone(ServiceOf[v], d)' => n + 1 <= failed'[ServiceOf[v]][d]
        BY <1>4, <1>6, <3>2, <3>4
      <3> QED
        BY <3>1, <3>5 DEF FailingInv, Alone
    <2> QED
      BY <2>1, <2>2
  <1>11. BuriedAfterMaxRetries'
    <2> SUFFICES ASSUME NEW t \in Service, NEW d \in dead[t], Alone(t, d)'
                 PROVE  failed'[t][d] >= MaxRetries
      BY DEF BuriedAfterMaxRetries
    <2>1. d \in Event
      BY DEF IndInv, TypeOK
    <2> QED
      BY <1>4, <1>6, <2>1 DEF CountInv, BuriedAfterMaxRetries
  <1> QED
    BY <1>8, <1>9, <1>10, <1>11 DEF CountInv

LEMMA InitCountInv == Init => CountInv
  BY DEF Init, CountInv, FailingInv, BuriedAfterMaxRetries

\* What fail() publishes has a right count.
LEMMA ResendCounted ==
    ASSUME IndInv, CountInv, NEW w \in Worker, pc[w] = "fail"
    PROVE  Counted(Resend(topic[cur[w]], ServiceOf[w]).rec)
  <1> DEFINE s == ServiceOf[w]
  <1> PICK r : r = Resend(topic[cur[w]], s)
    OBVIOUS
  <1> PICK e \in Event, n \in Nat : e = topic[cur[w]].event /\ n = topic[cur[w]].count
    BY ResendIsSendable, RecordsOf DEF IndInv
  <1>1. r.rec.event = e /\ r.rec.count = n + 1
    BY ResendIsSendable
  <1>2. failed[s][e] >= 1 /\ (Alone(s, e) => n + 1 <= failed[s][e]) /\ s \in Service
    BY DEF CountInv, FailingInv
  <1>3. ASSUME NEW t \in Service, Alone(t, e) PROVE n + 1 <= failed[t][e]
    <2>1. failed[s][e] # 0
      BY <1>2 DEF IndInv, TypeOK
    <2>2. t = s
      BY <1>2, <1>3, <2>1 DEF Alone
    <2> QED
      BY <1>2, <1>3, <2>2
  <1> QED
    BY <1>1, <1>3 DEF Counted

LEMMA StepCountInv == IndInv /\ CountInv /\ [Next]_vars => CountInv'
  <1> SUFFICES ASSUME IndInv, CountInv, [Next]_vars PROVE CountInv'
    OBVIOUS
  <1>1. IndInv'
    BY StepIndInv
  <1>2. ASSUME NEW e \in Event, Publish(e) PROVE CountInv'
    <2> PICK rec : rec = [event |-> e, count |-> 0]
      OBVIOUS
    <2>1. /\ Produced(e, rec, "topic") \/ ProduceRaises(rec, "topic")
          /\ UNCHANGED <<worker, history>>
      BY <1>2 DEF Publish
    <2>2. Sendable(rec, "topic")
      BY DEF Sendable, Message
    <2>3. Counted(rec)
      BY DEF Counted, IndInv, TypeOK
    <2>4. /\ Store(rec, "topic") \/ UNCHANGED cluster
          /\ \A m \in queue' : m \in queue \/ m.rec = rec
      BY <2>1 DEF Produced, ProduceRaises, locals
    <2> QED
      BY <1>1, <2>1, <2>2, <2>3, <2>4, CountStored DEF worker
  <1>3. ASSUME NEW w \in Worker, Fail(w) PROVE CountInv'
    <2> PICK r : r = Resend(topic[cur[w]], ServiceOf[w])
      OBVIOUS
    <2>1. /\ pc[w] = "fail" /\ UNCHANGED history
          /\ Produced(w, r.rec, r.to) \/ ProduceRaises(r.rec, r.to)
          /\ (Goto(w, "commit") /\ UNCHANGED cur) \/ Exit(w, "raised")
      BY <1>3 DEF Fail
    <2>2. Sendable(r.rec, r.to) /\ Counted(r.rec)
      BY <2>1, ResendIsSendable, ResendCounted
    <2>3. \A v \in Worker : pc'[v] = "fail" => pc[v] = "fail" /\ cur'[v] = cur[v]
      BY <2>1 DEF Exit, Goto, IndInv, TypeOK
    <2>4. /\ Store(r.rec, r.to) \/ UNCHANGED cluster
          /\ \A m \in queue' : m \in queue \/ m.rec = r.rec
      BY <2>1 DEF Produced, ProduceRaises, locals
    <2> QED
      BY <1>1, <2>1, <2>2, <2>3, <2>4, CountStored
  <1>4. ASSUME NEW m \in queue, Deliver(m) PROVE CountInv'
    <2> PICK rec, to : rec = m.rec /\ to = m.to
      OBVIOUS
    <2>1. /\ Store(rec, to) /\ queue' = queue \ {m} /\ UNCHANGED <<worker, history>>
      BY <1>4 DEF Deliver
    <2>2. Sendable(rec, to) /\ Counted(rec)
      BY DEF Sendable, IndInv, TypeOK, QueueInv, Message, CountInv
    <2> QED
      BY <1>1, <2>1, <2>2, CountStored DEF worker
  <1>5. ASSUME NEW m \in queue, Lose(m) PROVE CountInv'
    BY <1>1, <1>5, CountStill DEF Lose, LoseAll, cluster, worker, history
  <1>6. ASSUME NEW w \in Worker, Dispatch(w) PROVE CountInv'
    <2>1. PICK bad \in SUBSET Receiver :
              /\ RunReceivers(w, Receiver \ bad, bad # {})
              /\ Goto(w, IF bad = {} THEN "ack" ELSE "fail")
      BY <1>6 DEF Dispatch
    <2> PICK isFailed \in BOOLEAN : isFailed <=> bad # {}
      OBVIOUS
    <2>2. RunReceivers(w, Receiver \ bad, isFailed)
      <3>1. isFailed = (bad # {})
        OBVIOUS
      <3> QED
        BY <2>1, <3>1, Zenon
    <2>3. /\ pc[w] = "handle" /\ UNCHANGED <<cluster, locals, cur>>
          /\ pc'[w] = "fail" => isFailed
          /\ \A v \in Worker \ {w} : pc'[v] = pc[v]
      BY <1>6, <2>1 DEF Dispatch, Goto, IndInv, TypeOK
    <2> QED
      BY <2>2, <2>3, CountReceived DEF cluster, locals
  <1>7. ASSUME NEW w \in Worker, Kill(w) PROVE CountInv'
    <2>1. /\ UNCHANGED cluster /\ queue' \subseteq queue
          /\ pc'[w] = "killed" /\ \A v \in Worker \ {w} : UNCHANGED <<pc[v], cur[v]>>
      BY <1>7 DEF Kill, LoseAll, Exit, Goto, IndInv, TypeOK
    <2>2. CASE pc[w] = "handle"
      <3>1. PICK ok \in SUBSET Receiver : RunReceivers(w, ok, FALSE)
        BY <1>7, <2>2 DEF Kill
      <3> QED
        BY <2>1, <2>2, <3>1, CountReceived DEF cluster
    <2>3. CASE pc[w] # "handle"
      <3>1. UNCHANGED history
        BY <1>7, <2>3 DEF Kill
      <3>2. \A v \in Worker : pc'[v] = "fail" => pc[v] = "fail" /\ cur'[v] = cur[v]
        BY <2>1
      <3> QED
        BY <1>1, <2>1, <3>1, <3>2, CountStill DEF cluster, history
    <2> QED
      BY <2>2, <2>3
  <1>8. ASSUME NEW w \in Worker, Listen(w) \/ Poll(w) \/ Commit(w) \/ Assign(w) \/ CommitRaises(w)
        PROVE  CountInv'
    <2>1. UNCHANGED <<topic, dead, failed, queue>>
      BY <1>8 DEF Listen, Poll, Commit, Assign, CommitRaises, cluster, locals, history
    <2>2. \A v \in Worker : pc'[v] = "fail" => pc[v] = "fail" /\ cur'[v] = cur[v]
      BY <1>8 DEF Listen, Poll, Commit, Assign, CommitRaises, Exit, Goto, IndInv, TypeOK
    <2> QED
      BY <1>1, <2>1, <2>2, CountStill
  <1>9. CASE UNCHANGED vars
    BY <1>1, <1>9, CountStill DEF vars, cluster, locals, worker, history
  <1> QED
    BY <1>2, <1>3, <1>4, <1>5, <1>6, <1>7, <1>8, <1>9 DEF Next, Work

\* BuriedAfterMaxRetries: a service dead-letters an event only after MAX_RETRIES failures of
\* its own, unless another service fails on it too; whatever is killed, lost or duplicated.
THEOREM RetriesExhausted == Spec => []BuriedAfterMaxRetries
  <1>1. Init => IndInv /\ CountInv
    BY InitIndInv, InitCountInv
  <1>2. (IndInv /\ CountInv) /\ [Next]_vars => (IndInv /\ CountInv)'
    BY StepIndInv, StepCountInv
  <1>3. IndInv /\ CountInv => BuriedAfterMaxRetries
    BY DEF CountInv
  <1> QED
    BY <1>1, <1>2, <1>3, PTL DEF Spec

-------------------------------------------------------------------------------
(* Attempts, as long as nothing fails but receivers *)

\* The records of the topic that service s has dispatched, or passed over.
Begun(s) ==
    LET w == owner[s] IN
    IF w = NoWorker THEN 0 ELSE IF pc[w] = "handle" THEN position[w] - 1 ELSE position[w]

\* The records of e that service s has still to dispatch.
Waiting(s, e) == {i \in Begun(s) + 1 .. Len(topic) : topic[i].event = e}

\* One attempt follows another: at most one record of e waits, it is of the attempt
\* that comes next, and none waits while fail() is at work on e.
Chain(s, e) ==
    /\ tried[s][e] <= MaxRetries /\ tried[s][e] <= failed[s][e] + 1
    /\ pub[e] = "pending" =>
          /\ tried[s][e] = 0 /\ failed[s][e] = 0
          /\ \A i \in 1 .. Len(topic) : topic[i].event # e
    /\ \A i \in Waiting(s, e) :
          /\ topic[i].count = tried[s][e] /\ failed[s][e] = tried[s][e]
          /\ \A j \in Waiting(s, e) : j = i
    /\ \A w \in Worker :
          pc[w] = "fail" /\ ServiceOf[w] = s /\ topic[cur[w]].event = e =>
            /\ Waiting(s, e) = {}
            /\ topic[cur[w]].count + 1 = tried[s][e] /\ failed[s][e] = tried[s][e]

\* Each service has one worker at work, from the start of the topic on.
GroupInv ==
    /\ queue = {}
    /\ \A s \in Service :
          /\ owner[s] # NoWorker => ServiceOf[owner[s]] = s
          /\ owner[s] = NoWorker => committed[s] = 0
    /\ \A w \in Worker : pc[w] \in Busy => owner[ServiceOf[w]] = w /\ cur[w] = position[w]

CalmInv ==
    faults = MaxFaults =>
        GroupInv /\ \A s \in Service, e \in Event : Alone(s, e) => Chain(s, e)

LEMMA BegunType ==
    IndInv /\ GroupInv => \A s \in Service : Begun(s) \in 0 .. Len(topic) /\ Len(topic) \in Nat
  <1> SUFFICES ASSUME IndInv, GroupInv, NEW s \in Service
               PROVE  Begun(s) \in 0 .. Len(topic) /\ Len(topic) \in Nat
    OBVIOUS
  <1>1. CASE owner[s] = NoWorker
    BY <1>1 DEF Begun, IndInv, TypeOK
  <1>2. CASE owner[s] # NoWorker
    <2> PICK w \in Worker : w = owner[s]
      BY <1>2 DEF IndInv, TypeOK
    <2>1. position[w] \in 0 .. Len(topic) /\ Len(topic) \in Nat
      BY DEF IndInv, TypeOK
    <2>2. pc[w] = "handle" => position[w] # 0
      BY DEF IndInv, WorkerInv, GroupInv, Busy
    <2> QED
      BY <1>2, <2>1, <2>2 DEF Begun
  <1> QED
    BY <1>1, <1>2

\* What a worker has in hand is of a service it alone works for.
LEMMA OwnWorker ==
    ASSUME IndInv, GroupInv, NEW w \in Worker, pc[w] \in Busy
    PROVE  /\ owner[ServiceOf[w]] = w /\ cur[w] = position[w]
           /\ cur[w] \in 1 .. Len(topic)
           /\ \A t \in Service : t # ServiceOf[w] => owner[t] # w
           /\ \A v \in Worker : pc[v] \in Busy /\ ServiceOf[v] = ServiceOf[w] => v = w
  <1>1. owner[ServiceOf[w]] = w /\ cur[w] = position[w] /\ w # NoWorker
    BY DEF GroupInv, NoWorker
  <1>2. cur[w] \in 1 .. Len(topic)
    BY DEF IndInv, TypeOK, WorkerInv
  <1>3. \A t \in Service : t # ServiceOf[w] => owner[t] # w
    BY <1>1 DEF GroupInv
  <1>4. \A v \in Worker : pc[v] \in Busy /\ ServiceOf[v] = ServiceOf[w] => v = w
    BY <1>1 DEF GroupInv
  <1> QED
    BY <1>1, <1>2, <1>3, <1>4

\* A chain goes on while its event is left alone.
LEMMA ChainKept ==
    ASSUME NEW s \in Service, NEW e \in Event, Chain(s, e),
           topic' = topic, pub' = pub, tried'[s][e] = tried[s][e], failed'[s][e] = failed[s][e],
           Waiting(s, e)' \subseteq Waiting(s, e),
           \A w \in Worker : pc'[w] = "fail" /\ ServiceOf[w] = s /\ topic[cur'[w]].event = e
                => pc[w] = "fail" /\ cur'[w] = cur[w]
    PROVE  Chain(s, e)'
  <1>1. \A i \in Waiting(s, e)' :
          /\ topic[i].count = tried[s][e] /\ failed[s][e] = tried[s][e]
          /\ \A j \in Waiting(s, e)' : j = i
    BY DEF Chain
  <1>2. ASSUME NEW w \in Worker, pc'[w] = "fail", ServiceOf[w] = s, topic[cur'[w]].event = e
        PROVE  /\ Waiting(s, e)' = {}
               /\ topic[cur'[w]].count + 1 = tried[s][e] /\ failed[s][e] = tried[s][e]
    BY <1>2 DEF Chain
  <1> QED
    BY <1>1, <1>2 DEF Chain

\* A step that only moves a worker, forward, in the topic.
LEMMA CalmMoves ==
    ASSUME IndInv, CalmInv, faults = MaxFaults, GroupInv', topic' = topic, pub' = pub,
           UNCHANGED history,
           \A s \in Service : Begun(s)' \in Nat /\ Begun(s) <= Begun(s)',
           \A w \in Worker : pc'[w] = "fail" => pc[w] = "fail" /\ cur'[w] = cur[w]
    PROVE  CalmInv'
  <1> SUFFICES ASSUME NEW s \in Service, NEW e \in Event, Alone(s, e)' PROVE Chain(s, e)'
    BY DEF CalmInv
  <1>1. Alone(s, e) /\ GroupInv
    BY DEF Alone, history, CalmInv
  <1>2. Chain(s, e)
    BY <1>1 DEF CalmInv
  <1>3. Waiting(s, e)' \subseteq Waiting(s, e)
    <2>1. Begun(s) \in Nat /\ Begun(s)' \in Nat /\ Len(topic) \in Nat
      BY <1>1, BegunType
    <2> QED
      BY <2>1 DEF Waiting
  <1> QED
    BY <1>2, <1>3, ChainKept DEF history

\* Listen, Assign, Poll and Commit.
LEMMA CalmGroup ==
    ASSUME IndInv, CalmInv, faults = MaxFaults, faults' = MaxFaults, NEW w \in Worker,
           Listen(w) \/ Assign(w) \/ Poll(w) \/ Commit(w)
    PROVE  CalmInv'
  <1> USE DEF Goto, NoWorker
  <1>0. /\ GroupInv
        /\ pc \in [Worker -> Down \cup Busy \cup {"poll"}]
        /\ cur \in [Worker -> 0 .. Len(topic)] /\ position \in [Worker -> 0 .. Len(topic)]
        /\ owner \in [Service -> Worker \cup {NoWorker}]
        /\ committed \in [Service -> 0 .. Len(topic)] /\ Len(topic) \in Nat
        /\ ServiceOf[w] \in Service
    BY DEF CalmInv, IndInv, TypeOK, Busy
  <1>1. \A s \in Service : Begun(s) \in Nat
    BY <1>0, BegunType
  <1>2. UNCHANGED <<topic, pub, history>>
    BY DEF Listen, Assign, Poll, Commit, cluster
  <1>3. \A v \in Worker : pc'[v] = "fail" => pc[v] = "fail" /\ cur'[v] = cur[v]
    BY <1>0 DEF Listen, Assign, Poll, Commit
  <1>4. CASE Listen(w)
    <2>1. UNCHANGED <<queue, owner, committed, cur, position>>
          /\ pc[w] \in Down /\ pc' = [pc EXCEPT ![w] = "poll"]
      BY <1>4 DEF Listen, locals
    <2>2. GroupInv'
      BY <1>0, <2>1 DEF GroupInv, Busy, Down
    <2>3. \A s \in Service : Begun(s)' = Begun(s)
      BY <1>0, <2>1 DEF Begun, Down
    <2> QED
      BY <1>1, <1>2, <1>3, <2>2, <2>3, CalmMoves
  <1>5. CASE Assign(w)
    <2> PICK s \in Service : s = ServiceOf[w]
      BY <1>0
    <2>1. /\ UNCHANGED <<queue, committed, cur, pc>>
          /\ owner[s] = NoWorker
          /\ owner' = [owner EXCEPT ![s] = w]
          /\ position' = [position EXCEPT ![w] = committed[s]]
      BY <1>5 DEF Assign, locals, Fault
    <2>2. committed[s] = 0 /\ pc[w] \notin Busy
      BY <1>0, <2>1 DEF GroupInv
    <2>3. GroupInv'
      BY <1>0, <2>1, <2>2 DEF GroupInv
    <2>4. ASSUME NEW t \in Service PROVE Begun(t)' = Begun(t)
      <3>1. CASE t = s
        BY <1>0, <2>1, <2>2, <3>1 DEF Begun, Busy
      <3>2. CASE t # s
        <4>1. owner'[t] = owner[t] /\ (owner[t] # NoWorker => owner[t] # w)
          BY <1>0, <2>1, <3>2 DEF GroupInv
        <4> QED
          BY <1>0, <2>1, <4>1 DEF Begun
      <3> QED
        BY <3>1, <3>2
    <2> QED
      BY <1>1, <1>2, <1>3, <2>3, <2>4, CalmMoves
  <1>6. CASE Poll(w)
    <2> PICK s \in Service : s = ServiceOf[w]
      BY <1>0
    <2>1. /\ UNCHANGED <<queue, committed, owner>> /\ pc[w] = "poll" /\ owner[s] = w
          /\ position[w] < Len(topic)
          /\ position' = [position EXCEPT ![w] = position[w] + 1]
          /\ cur' = [cur EXCEPT ![w] = position[w] + 1]
          /\ pc'[w] \in {"discard", "handle"}
          /\ \A v \in Worker : v # w => pc'[v] = pc[v]
      BY <1>0, <1>6 DEF Poll, locals
    <2>2. GroupInv'
      BY <1>0, <2>1 DEF GroupInv, Busy
    <2>3. ASSUME NEW t \in Service PROVE Begun(t)' \in Nat /\ Begun(t) <= Begun(t)'
      <3>1. CASE t = s
        BY <1>0, <2>1, <3>1 DEF Begun
      <3>2. CASE t # s
        <4>1. owner[t] # w
          BY <1>0, <2>1, <3>2 DEF GroupInv
        <4>2. Begun(t)' = Begun(t)
          BY <1>0, <2>1, <4>1 DEF Begun
        <4> QED
          BY <1>1, <4>2
      <3> QED
        BY <3>1, <3>2
    <2> QED
      BY <1>1, <1>2, <1>3, <2>2, <2>3, CalmMoves
  <1>7. CASE Commit(w)
    <2>1. /\ UNCHANGED <<queue, owner, position>> /\ pc[w] \in Finished
          /\ pc' = [pc EXCEPT ![w] = "poll"] /\ cur' = [cur EXCEPT ![w] = 0]
          /\ committed' = [committed EXCEPT ![ServiceOf[w]] = cur[w]]
      BY <1>7 DEF Commit, locals, Finished
    <2>2. owner[ServiceOf[w]] = w
      BY <1>0, <2>1 DEF GroupInv, Busy, Finished
    <2>3. GroupInv'
      BY <1>0, <2>1, <2>2 DEF GroupInv, Busy
    <2>4. \A s \in Service : Begun(s)' = Begun(s)
      BY <1>0, <2>1 DEF Begun, Finished
    <2> QED
      BY <1>1, <1>2, <1>3, <2>3, <2>4, CalmMoves
  <1> QED
    BY <1>4, <1>5, <1>6, <1>7

\* What is appended to the topic waits for every service.
LEMMA WaitingAppend ==
    ASSUME IndInv, GroupInv, NEW rec \in Record, Len(topic) < MaxRecords,
           topic' = Append(topic, rec), NEW s \in Service, Begun(s)' = Begun(s), NEW e \in Event
    PROVE  /\ e # rec.event => Waiting(s, e)' = Waiting(s, e)
           /\ e = rec.event => Waiting(s, e)' = Waiting(s, e) \cup {Len(topic) + 1}
           /\ \A i \in Waiting(s, e) : i \in 1 .. Len(topic)
  <1> PICK n \in Nat, b \in Nat : n = Len(topic) /\ b = Begun(s) /\ b <= n
    BY BegunType
  <1>1. /\ Len(topic') = n + 1 /\ topic'[n + 1] = rec
        /\ \A i \in 1 .. n : topic'[i] = topic[i]
    BY DEF IndInv, TypeOK
  <1>2. Waiting(s, e) = {i \in b + 1 .. n : topic[i].event = e}
    BY DEF Waiting
  <1>3. Waiting(s, e)' = {i \in b + 1 .. n + 1 : topic'[i].event = e}
    BY <1>1 DEF Waiting
  <1>4. \A i \in b + 1 .. n : i \in 1 .. n
    OBVIOUS
  <1>5. n + 1 \in b + 1 .. n + 1 /\ \A i \in b + 1 .. n + 1 : i \in b + 1 .. n \/ i = n + 1
    OBVIOUS
  <1> QED
    BY <1>1, <1>2, <1>3, <1>4, <1>5

\* publish() starts the chain of its event.
LEMMA CalmPublish ==
    ASSUME IndInv, CalmInv, faults = MaxFaults, faults' = MaxFaults, NEW e \in Event, Publish(e)
    PROVE  CalmInv'
  <1> PICK rec : rec = [event |-> e, count |-> 0]
    OBVIOUS
  <1>1. /\ Store(rec, "topic") /\ pub[e] = "pending"
        /\ UNCHANGED <<committed, owner, queue, worker, history>>
        /\ pub' = [pub EXCEPT ![e] = "returned"]
    BY DEF Publish, Produced, ProduceRaises, Fault, locals
  <1>2. rec \in Record /\ rec.event = e /\ rec.count = 0
    BY DEF Record
  <1>3. Len(topic) < MaxRecords /\ topic' = Append(topic, rec)
    BY <1>1 DEF Store
  <1>4. GroupInv /\ GroupInv'
    BY <1>1 DEF CalmInv, GroupInv, worker
  <1>5. ASSUME NEW s \in Service, NEW d \in Event, Alone(s, d)' PROVE Chain(s, d)'
    <2>1. Chain(s, d)
      BY <1>1, <1>5 DEF CalmInv, Alone, history
    <2>2. Begun(s)' = Begun(s)
      BY <1>1 DEF Begun, worker
    <2>3. /\ d # e => Waiting(s, d)' = Waiting(s, d)
          /\ d = e => Waiting(s, d)' = Waiting(s, d) \cup {Len(topic) + 1}
          /\ \A i \in Waiting(s, d) : i \in 1 .. Len(topic)
      BY <1>2, <1>3, <1>4, <2>2, WaitingAppend
    <2>4. /\ Len(topic') = Len(topic) + 1 /\ topic'[Len(topic) + 1] = rec
          /\ \A i \in 1 .. Len(topic) : topic'[i] = topic[i]
      BY <1>2, <1>3 DEF IndInv, TypeOK
    <2>5. \A v \in Worker : pc[v] = "fail" => cur[v] \in 1 .. Len(topic)
      BY DEF IndInv, TypeOK, WorkerInv, Busy
    <2>6. \A i \in 1 .. Len(topic') : i \in 1 .. Len(topic) \/ i = Len(topic) + 1
      BY <2>4 DEF IndInv, TypeOK
    <2>7. CASE d # e
      <3>1. pub'[d] = pub[d]
        BY <1>1, <2>7
      <3>2. \A i \in Waiting(s, d)' : i \in Waiting(s, d) /\ topic'[i] = topic[i]
        BY <2>3, <2>4, <2>7
      <3>3. pub[d] = "pending" => \A i \in 1 .. Len(topic') : topic'[i].event # d
        BY <1>2, <2>1, <2>4, <2>6, <2>7 DEF Chain
      <3>4. ASSUME NEW v \in Worker, pc'[v] = "fail", ServiceOf[v] = s, topic'[cur'[v]].event = d
            PROVE  /\ Waiting(s, d)' = {}
                   /\ topic'[cur'[v]].count + 1 = tried[s][d] /\ failed[s][d] = tried[s][d]
        <4>1. pc[v] = "fail" /\ cur'[v] = cur[v] /\ topic'[cur[v]] = topic[cur[v]]
          BY <1>1, <2>4, <2>5, <3>4 DEF worker
        <4> QED
          BY <2>1, <2>3, <2>7, <3>4, <4>1 DEF Chain
      <3>5. \A i \in Waiting(s, d)' :
                /\ topic'[i].count = tried[s][d] /\ failed[s][d] = tried[s][d]
                /\ \A j \in Waiting(s, d)' : j = i
        BY <2>1, <2>3, <2>7, <3>2 DEF Chain
      <3> QED
        BY <1>1, <2>1, <3>1, <3>3, <3>4, <3>5 DEF Chain, history
    <2>8. CASE d = e
      <3>1. /\ tried[s][d] = 0 /\ failed[s][d] = 0
            /\ \A i \in 1 .. Len(topic) : topic[i].event # d
        BY <1>1, <2>1, <2>8 DEF Chain
      <3>2. Waiting(s, d) = {}
        BY <2>3, <3>1 DEF Waiting
      <3>3. Waiting(s, d)' = {Len(topic) + 1}
        BY <2>3, <2>8, <3>2
      <3>4. pub'[d] # "pending"
        BY <1>1, <2>8 DEF IndInv, TypeOK
      <3>5. \A v \in Worker : pc'[v] = "fail" => topic'[cur'[v]].event # d
        BY <1>1, <2>4, <2>5, <3>1 DEF worker
      <3> QED
        BY <1>1, <1>2, <2>1, <2>4, <3>1, <3>3, <3>4, <3>5 DEF Chain, history
    <2> QED
      BY <2>7, <2>8
  <1> QED
    BY <1>4, <1>5 DEF CalmInv

\* fail() goes on with the chain, or ends it in the dead-letter.
LEMMA CalmFail ==
    ASSUME IndInv, CountInv, CalmInv, faults = MaxFaults, faults' = MaxFaults,
           NEW w \in Worker, Fail(w)
    PROVE  CalmInv'
  <1> PICK s \in Service : s = ServiceOf[w]
    OBVIOUS
  <1> PICK r : r = Resend(topic[cur[w]], s)
    OBVIOUS
  <1> PICK e \in Event, n \in Nat : e = topic[cur[w]].event /\ n = topic[cur[w]].count
    BY ResendIsSendable, RecordsOf DEF IndInv, Fail
  <1>1. /\ pc[w] = "fail" /\ Store(r.rec, r.to) /\ pc' = [pc EXCEPT ![w] = "commit"]
        /\ UNCHANGED <<position, cur, owner, committed, queue, pub, history>>
    BY DEF Fail, Produced, ProduceRaises, Fault, locals, Goto
  <1>2. /\ Sendable(r.rec, r.to) /\ r.to \in {"topic", s}
        /\ r.rec.event = e /\ r.rec.count = n + 1 /\ cur[w] \in 1 .. Len(topic)
    BY <1>1, ResendIsSendable
  <1>3. GroupInv /\ pc \in [Worker -> Down \cup Busy \cup {"poll"}]
    BY DEF CalmInv, IndInv, TypeOK, Busy
  <1>4. GroupInv'
    BY <1>1, <1>3 DEF GroupInv, Busy
  <1>5. failed[s][e] # 0
    BY <1>1 DEF CountInv, FailingInv, IndInv, TypeOK
  <1>6. \A v \in Worker : pc'[v] = "fail" =>
            /\ v # w /\ pc[v] = "fail" /\ cur[v] \in 1 .. Len(topic)
            /\ ServiceOf[v] # s
    <2>1. \A v \in Worker : pc'[v] = "fail" => v # w /\ pc[v] = "fail"
      BY <1>1, <1>3
    <2> QED
      BY <1>1, <1>3, <2>1, OwnWorker DEF Busy
  <1>7. \A t \in Service : Begun(t)' = Begun(t)
    BY <1>1, <1>3 DEF Begun
  <1>8. ASSUME NEW t \in Service, NEW d \in Event, Alone(t, d)' PROVE Chain(t, d)'
    <2>1. Alone(t, d) /\ Chain(t, d)
      BY <1>1, <1>8 DEF CalmInv, Alone, history
    <2>2. CASE topic' = topic
      <3>1. Waiting(t, d)' = Waiting(t, d)
        BY <1>7, <2>2 DEF Waiting
      <3> QED
        BY <1>1, <1>6, <2>1, <2>2, <3>1, ChainKept DEF history
    <2>3. CASE topic' = Append(topic, r.rec) /\ Len(topic) < MaxRecords /\ r.to = "topic"
      <3>1. r.rec \in Record
        BY <1>2, <2>3 DEF Sendable, Message, Record
      <3>2. /\ d # e => Waiting(t, d)' = Waiting(t, d)
            /\ d = e => Waiting(t, d)' = Waiting(t, d) \cup {Len(topic) + 1}
            /\ \A i \in Waiting(t, d) : i \in 1 .. Len(topic)
        BY <1>2, <1>3, <1>7, <2>3, <3>1, WaitingAppend
      <3>3. /\ Len(topic') = Len(topic) + 1 /\ topic'[Len(topic) + 1] = r.rec
            /\ \A i \in 1 .. Len(topic) : topic'[i] = topic[i]
        BY <2>3, <3>1 DEF IndInv, TypeOK
      <3>4. \A i \in 1 .. Len(topic') : i \in 1 .. Len(topic) \/ i = Len(topic) + 1
        <4>1. Len(topic) \in Nat
          BY <1>3, BegunType
        <4> QED
          BY <3>3, <4>1
      <3>5. pub[d] = "pending" => d # e /\ \A i \in 1 .. Len(topic') : topic'[i].event # d
        BY <1>2, <2>1, <3>3, <3>4 DEF Chain
      <3>6. ASSUME NEW i \in Waiting(t, d)'
            PROVE  /\ topic'[i].count = tried[t][d] /\ failed[t][d] = tried[t][d]
                   /\ \A j \in Waiting(t, d)' : j = i
        <4>1. CASE d # e
          BY <2>1, <3>2, <3>3, <3>6, <4>1 DEF Chain
        <4>2. CASE d = e
          <5>1. t = s
            BY <1>5, <2>1, <4>2 DEF Alone
          <5>2. Waiting(s, e) = {} /\ n + 1 = tried[s][e] /\ failed[s][e] = tried[s][e]
            BY <1>1, <2>1, <4>2, <5>1 DEF Chain
          <5>3. Waiting(t, d)' = {Len(topic) + 1}
            BY <3>2, <4>2, <5>1, <5>2
          <5> QED
            BY <1>2, <3>3, <3>6, <4>2, <5>1, <5>2, <5>3
        <4> QED
          BY <4>1, <4>2
      <3>7. ASSUME NEW v \in Worker, pc'[v] = "fail", ServiceOf[v] = t, topic'[cur'[v]].event = d
            PROVE  /\ Waiting(t, d)' = {}
                   /\ topic'[cur'[v]].count + 1 = tried[t][d] /\ failed[t][d] = tried[t][d]
        <4>1. /\ pc[v] = "fail" /\ cur'[v] = cur[v] /\ topic'[cur[v]] = topic[cur[v]]
              /\ t # s
          BY <1>1, <1>6, <3>3, <3>7
        <4>2. d # e
          BY <1>5, <2>1, <4>1 DEF Alone
        <4> QED
          BY <2>1, <3>2, <3>7, <4>1, <4>2 DEF Chain
      <3> QED
        BY <1>1, <2>1, <3>5, <3>6, <3>7 DEF Chain, history
    <2> QED
      BY <1>1, <2>2, <2>3 DEF Store
  <1> QED
    BY <1>4, <1>8 DEF CalmInv

\* dispatch() takes up the record of its event that waits, if the event is s's alone.
LEMMA CalmDispatch ==
    ASSUME IndInv, CalmInv, faults = MaxFaults, faults' = MaxFaults, NEW w \in Worker,
           Dispatch(w)
    PROVE  CalmInv'
  <1> PICK s \in Service : s = ServiceOf[w]
    OBVIOUS
  <1> PICK k \in 1 .. Len(topic) : k = cur[w]
    BY DEF Dispatch, IndInv, TypeOK, WorkerInv, Busy
  <1> PICK e \in Event, n \in 0 .. MaxRetries - 1 : e = topic[k].event /\ n = topic[k].count
    BY RecordsOf DEF IndInv
  <1>0. /\ GroupInv /\ Len(topic) \in Nat
        /\ pc \in [Worker -> Down \cup Busy \cup {"poll"}]
        /\ tried \in [Service -> [Event -> 0 .. MaxRetries + 1]]
        /\ failed \in [Service -> [Event -> 0 .. MaxRetries]]
        /\ owner \in [Service -> Worker \cup {NoWorker}]
    BY DEF CalmInv, IndInv, TypeOK, Busy
  <1>1. PICK bad \in SUBSET Receiver :
            /\ RunReceivers(w, Receiver \ bad, bad # {})
            /\ Goto(w, IF bad = {} THEN "ack" ELSE "fail")
    BY DEF Dispatch
  <1>2. /\ pc[w] = "handle" /\ UNCHANGED <<topic, committed, owner, queue, pub, position, cur>>
        /\ pc'[w] = (IF bad = {} THEN "ack" ELSE "fail")
        /\ \A v \in Worker : v # w => pc'[v] = pc[v]
    BY <1>0, <1>1 DEF Dispatch, Goto, cluster, locals
  <1>3. owner[s] = w /\ position[w] = k /\ w # NoWorker /\ \A t \in Service : t # s => owner[t] # w
    BY <1>0, <1>2, OwnWorker DEF Busy, NoWorker
  <1>4. GroupInv'
    <2>1. pc'[w] \in Busy
      BY <1>2 DEF Busy
    <2> QED
      BY <1>0, <1>2, <1>3, <2>1 DEF GroupInv, Busy
  <1>5. /\ Begun(s) = k - 1 /\ Begun(s)' = k
        /\ \A t \in Service : t # s => Begun(t)' = Begun(t)
    BY <1>0, <1>2, <1>3 DEF Begun
  <1>6. /\ \A t \in Service, d \in Event : Waiting(t, d)' \subseteq Waiting(t, d)
        /\ k \in Waiting(s, e) /\ k \notin Waiting(s, e)'
    <2>1. \A t \in Service, d \in Event : t # s => Waiting(t, d)' = Waiting(t, d)
      BY <1>2, <1>5 DEF Waiting
    <2>2. \A d \in Event : Waiting(s, d) = {i \in k - 1 + 1 .. Len(topic) : topic[i].event = d}
      BY <1>5 DEF Waiting
    <2>3. \A d \in Event : Waiting(s, d)' = {i \in k + 1 .. Len(topic) : topic[i].event = d}
      BY <1>2, <1>5 DEF Waiting
    <2>4. \A d \in Event : Waiting(s, d)' \subseteq Waiting(s, d)
      BY <1>0, <2>2, <2>3
    <2>5. k \in Waiting(s, e)
      BY <1>0, <2>2
    <2>6. k \notin Waiting(s, e)'
      BY <1>0, <2>3
    <2>7. \A t \in Service, d \in Event : Waiting(t, d)' \subseteq Waiting(t, d)
      BY <2>1, <2>4
    <2> QED
      BY <2>5, <2>6, <2>7
  <1>7. /\ tried' = [tried EXCEPT ![s][e] = Bump(@, MaxRetries + 1)]
        /\ failed' = [failed EXCEPT ![s][e] = IF bad # {} THEN Bump(@, MaxRetries) ELSE @]
    BY <1>1 DEF RunReceivers
  <1>8. \A t \in Service, d \in Event : t # s \/ d # e =>
            tried'[t][d] = tried[t][d] /\ failed'[t][d] = failed[t][d]
    <2> TAKE t \in Service, d \in Event
    <2> HAVE t # s \/ d # e
    <2>1. CASE t # s
      BY <1>7, <2>1, <1>0
    <2>2. CASE t = s /\ d # e
      BY <1>7, <2>2, <1>0
    <2> QED
      BY <2>1, <2>2
  <1>9. /\ tried'[s][e] = Bump(tried[s][e], MaxRetries + 1)
        /\ bad # {} => failed'[s][e] = Bump(failed[s][e], MaxRetries)
        /\ bad = {} => failed'[s][e] = failed[s][e]
    BY <1>0, <1>7
  <1>10. failed[s][e] # 0 => failed'[s][e] # 0
    <2>1. failed[s][e] \in 0 .. MaxRetries
      BY <1>0
    <2> QED
      BY <1>9, <2>1 DEF Bump
  <1>11. ASSUME NEW t \in Service, NEW d \in Event, Alone(t, d)' PROVE Chain(t, d)'
    <2>1. Alone(t, d)
      BY <1>8, <1>10, <1>11 DEF Alone
    <2>2. Chain(t, d)
      BY <1>0, <2>1 DEF CalmInv
    <2>3. CASE t # s \/ d # e
      <3>1. \A v \in Worker : pc'[v] = "fail" /\ ServiceOf[v] = t /\ topic[cur'[v]].event = d
                => pc[v] = "fail" /\ cur'[v] = cur[v]
        BY <1>2, <2>3
      <3> QED
        BY <1>2, <1>6, <1>8, <2>2, <2>3, <3>1, ChainKept
    <2>4. CASE t = s /\ d = e
      <3>1. /\ tried[s][e] = n /\ failed[s][e] = n /\ Waiting(s, e)' = {}
            /\ pub[e] # "pending"
        BY <1>6, <2>2, <2>4 DEF Chain
      <3>2. /\ tried'[s][e] = n + 1
            /\ bad # {} => failed'[s][e] = n + 1
            /\ bad = {} => failed'[s][e] = n
        BY <1>9, <3>1 DEF Bump
      <3>3. ASSUME NEW v \in Worker, pc'[v] = "fail", ServiceOf[v] = s
            PROVE  bad # {} /\ cur'[v] = k
        <4>1. v = w
          BY <1>0, <1>2, <3>3, OwnWorker DEF Busy
        <4> QED
          BY <1>2, <3>3, <4>1
      <3> QED
        BY <1>2, <2>4, <3>1, <3>2, <3>3 DEF Chain
    <2> QED
      BY <2>3, <2>4
  <1> QED
    BY <1>4, <1>11 DEF CalmInv

LEMMA StepCalmInv == IndInv /\ CountInv /\ CalmInv /\ [Next]_vars => CalmInv'
  <1> SUFFICES ASSUME IndInv, CountInv, CalmInv, [Next]_vars, faults' = MaxFaults PROVE CalmInv'
    BY DEF CalmInv
  <1>1. faults = MaxFaults /\ ~Fault
    <2>1. faults \in 0 .. MaxFaults
      BY DEF IndInv, TypeOK
    <2>2. ~Fault
      BY <2>1 DEF Fault
    <2> QED
      BY <2>1, <2>2
      DEF Next, vars, Publish, Produced, ProduceRaises, Work, Listen, Poll, Dispatch,
          Commit, Fail, Assign, CommitRaises, Kill, Deliver, Lose
  <1>2. queue = {}
    BY <1>1 DEF CalmInv, GroupInv
  <1>3. ASSUME NEW w \in Worker, Work(w) PROVE CalmInv'
    BY <1>1, <1>3, CalmGroup, CalmDispatch, CalmFail DEF Work
  <1>4. CASE UNCHANGED vars
    <2>1. UNCHANGED <<queue, topic, committed, owner, pub, pc, position, cur, tried, failed>>
      BY <1>4 DEF vars, cluster, locals, worker, history
    <2>2. GroupInv'
      BY <1>1, <2>1 DEF CalmInv, GroupInv
    <2>3. ASSUME NEW s \in Service, NEW e \in Event, Alone(s, e)' PROVE Chain(s, e)'
      <3>1. Chain(s, e)
        BY <1>1, <2>1, <2>3 DEF CalmInv, Alone
      <3>2. Waiting(s, e)' = Waiting(s, e)
        BY <2>1 DEF Waiting, Begun
      <3> QED
        BY <2>1, <3>1, <3>2, ChainKept
    <2> QED
      BY <2>2, <2>3 DEF CalmInv
  <1>5. ASSUME NEW w \in Worker, CommitRaises(w) \/ Kill(w) PROVE FALSE
    BY <1>1, <1>5 DEF CommitRaises, Kill
  <1> QED
    BY <1>1, <1>2, <1>3, <1>4, <1>5, CalmPublish, CalmGroup DEF Next

LEMMA InitCalmInv == Init => CalmInv
  <1> SUFFICES ASSUME Init PROVE CalmInv
    OBVIOUS
  <1>1. GroupInv
    BY DEF Init, GroupInv, Busy
  <1>2. ASSUME NEW s \in Service, NEW e \in Event PROVE Chain(s, e)
    <2>1. /\ Len(topic) = 0 /\ tried[s][e] = 0 /\ failed[s][e] = 0 /\ Begun(s) = 0
          /\ \A w \in Worker : pc[w] = "absent"
      BY DEF Init, Begun
    <2>2. Waiting(s, e) = {}
      BY <2>1 DEF Waiting
    <2> QED
      BY <2>1, <2>2 DEF Chain
  <1> QED
    BY <1>1, <1>2 DEF CalmInv

\* AttemptsBounded: without faults a service runs its receivers on an event at most
\* MAX_RETRIES times, and once more than they have failed, for any number of workers,
\* services and events on the topic, while no other service fails on the event.
THEOREM AttemptsCounted == Spec => []AttemptsBounded
  <1>1. Init => IndInv /\ CountInv /\ CalmInv
    BY InitIndInv, InitCountInv, InitCalmInv
  <1>2. (IndInv /\ CountInv /\ CalmInv) /\ [Next]_vars => (IndInv /\ CountInv /\ CalmInv)'
    BY StepIndInv, StepCountInv, StepCalmInv
  <1>3. IndInv /\ CountInv /\ CalmInv => AttemptsBounded
    BY DEF CalmInv, Chain, AttemptsBounded
  <1> QED
    BY <1>1, <1>2, <1>3, PTL DEF Spec

-------------------------------------------------------------------------------
(* Each service sees the abstract bus *)

\* One of the steps of EventBus, or none, for service s.
BusStep(s) == Bus(s)!Next \/ UNCHANGED Bus(s)!vars

LEMMA BusUnchanged ==
    ASSUME NEW s \in Service, Accepted' = Accepted, Owed(s)' = Owed(s),
           UNCHANGED <<served[s], dead[s], lost[s]>>
    PROVE  BusStep(s)
  BY DEF BusStep, Bus!vars

LEMMA BusReoffers ==
    ASSUME NEW s \in Service, NEW es \in SUBSET Accepted, Accepted \subseteq Event,
           Accepted' = Accepted, Owed(s)' = Owed(s) \cup es, UNCHANGED <<served[s], dead[s], lost[s]>>
    PROVE  BusStep(s)
  <1>1. Bus(s)!Reoffer(es)
    BY DEF Bus!Reoffer
  <1> QED
    BY <1>1 DEF BusStep, Bus!Next

LEMMA TypesOfEvents ==
    ASSUME IndInv
    PROVE  /\ Accepted \subseteq Event
           /\ \A s \in Service : Owed(s) \subseteq Event
           /\ \A i \in 1 .. Len(topic) : topic[i].event \in Accepted
  <1>1. Accepted \subseteq Event
    BY RecordsOf DEF IndInv, Accepted, EventsOf
  <1>2. ASSUME NEW s \in Service PROVE EventsOf(committed[s] + 1, Len(topic)) \subseteq Accepted
    BY DEF IndInv, TypeOK, Accepted, EventsOf
  <1>3. \A s \in Service : LeftBy(s, queue) \cup lost[s] \subseteq Event
    BY DEF LeftBy, IndInv, TypeOK, Message
  <1> QED
    BY <1>1, <1>2, <1>3 DEF Owed, Accepted, EventsOf

\* A service that has left nothing in ms does not notice.
LEMMA LosesNothing ==
    ASSUME IndInv, NEW s \in Service, NEW ms \in SUBSET queue, LoseAll(ms), LeftBy(s, ms) = {}
    PROVE  LeftBy(s, queue)' = LeftBy(s, queue) /\ lost'[s] = lost[s]
  <1>1. queue' = queue \ ms /\ lost'[s] = lost[s] \cup LeftBy(s, ms)
    BY DEF LoseAll
  <1>2. lost'[s] = lost[s]
    BY <1>1
  <1>3. \A m \in queue : m.from \in Worker /\ ServiceOf[m.from] = s => m \notin ms
    BY DEF LeftBy
  <1>4. {m \in queue' : m.from \in Worker /\ ServiceOf[m.from] = s}
            = {m \in queue : m.from \in Worker /\ ServiceOf[m.from] = s}
    BY <1>1, <1>3
  <1>5. LeftBy(s, queue)' = LeftBy(s, queue)
    BY <1>4 DEF LeftBy
  <1> QED
    BY <1>2, <1>5

\* The local queues let go of messages: what they held is owed no longer, unless it is
\* still owed on another account.  e is what the process that ends with them ran.
LEMMA BusLoses ==
    ASSUME IndInv, NEW s \in Service, NEW ms \in SUBSET queue, LoseAll(ms),
           UNCHANGED <<cluster, committed>>, NEW e \in Accepted \ Unreadable,
           NEW ok \in SUBSET Receiver, served'[s] = [served[s] EXCEPT ![e] = @ \cup ok]
    PROVE  BusStep(s)
  <1> PICK es : es = LeftBy(s, ms)
    OBVIOUS
  <1>1. Accepted' = Accepted /\ dead'[s] = dead[s] /\ lost'[s] = lost[s] \cup es
    BY DEF LoseAll, cluster, Accepted, EventsOf, IndInv, TypeOK
  <1>2. LeftBy(s, queue)' \subseteq LeftBy(s, queue) /\ LeftBy(s, queue) \ LeftBy(s, queue)' \subseteq es
        /\ es \subseteq LeftBy(s, queue)
    BY DEF LoseAll, LeftBy
  <1>3. es \subseteq Owed(s) /\ Owed(s)' \subseteq Owed(s) /\ Owed(s) \ Owed(s)' \subseteq es
    BY <1>2 DEF Owed, EventsOf, cluster
  <1>4. es \in SUBSET Event /\ e \in Event
    BY <1>3, TypesOfEvents
  <1>5. Bus(s)!Lose(es, e, ok)
    BY <1>1, <1>3 DEF Bus!Lose
  <1> QED
    BY <1>4, <1>5 DEF BusStep, Bus!Next

\* A message is stored: the event is accepted for all services, or buried for one.
LEMMA BusStores ==
    ASSUME IndInv, NEW rec, NEW to, Sendable(rec, to), Store(rec, to),
           UNCHANGED <<committed, lost, served>>,
           to # "topic" => rec.event \in Accepted \ Unreadable,
           \A s \in Service :
               /\ LeftBy(s, queue)' \subseteq LeftBy(s, queue)
               /\ \A e \in LeftBy(s, queue) \ LeftBy(s, queue)' : e = rec.event /\ to \in {"topic", s}
    PROVE  \A s \in Service : BusStep(s)
  <1> SUFFICES ASSUME NEW s \in Service PROVE BusStep(s)
    OBVIOUS
  <1> PICK e \in Event : e = rec.event
    BY DEF Sendable, Message
  <1>1. CASE to = "topic"
    <2>1. topic' = Append(topic, rec) /\ dead' = dead /\ topic \in Seq(Record) /\ rec \in Record
      BY <1>1 DEF Store, Sendable, Message, Record, IndInv, TypeOK
    <2>2. /\ Len(topic') = Len(topic) + 1 /\ Len(topic) \in Nat
          /\ \A i \in 1 .. Len(topic) : topic'[i] = topic[i]
          /\ topic'[Len(topic) + 1].event = e
      BY <2>1
    <2>3. ASSUME NEW k \in 1 .. Len(topic) + 1
          PROVE  {topic'[i].event : i \in k .. Len(topic')} = {topic[i].event : i \in k .. Len(topic)} \cup {e}
      BY <2>2
    <2>4. Accepted' = Accepted \cup {e}
      BY <2>2, <2>3 DEF Accepted, EventsOf
    <2>5. Owed(s)' = Owed(s) \cup {e}
      <3>1. committed[s] + 1 \in 1 .. Len(topic) + 1
        BY DEF IndInv, TypeOK
      <3>2. EventsOf(committed[s] + 1, Len(topic))' = EventsOf(committed[s] + 1, Len(topic)) \cup {e}
        BY <2>3, <3>1 DEF EventsOf
      <3> QED
        BY <3>2 DEF Owed
    <2>6. Bus(s)!Accept(e)
      BY <2>1, <2>4, <2>5 DEF Bus!Accept, Owed
    <2> QED
      BY <2>6 DEF BusStep, Bus!Next
  <1>2. CASE to # "topic"
    <2>1. to \in Service /\ topic' = topic /\ dead' = [dead EXCEPT ![to] = @ \cup {e}]
      BY <1>2 DEF Store, Sendable
    <2>2. Accepted' = Accepted /\ EventsOf(committed[s] + 1, Len(topic))' = EventsOf(committed[s] + 1, Len(topic))
      BY <2>1 DEF Accepted, EventsOf
    <2>3. CASE to = s
      <3>1. Owed(s)' \in {Owed(s), Owed(s) \ {e}}
        BY <2>2 DEF Owed
      <3>2. dead'[s] = dead[s] \cup {e}
        BY <2>1, <2>3 DEF IndInv, TypeOK
      <3>3. Bus(s)!Bury(e)
        BY <1>2, <2>2, <3>1, <3>2 DEF Bus!Bury, Owed
      <3> QED
        BY <3>3 DEF BusStep, Bus!Next
    <2>4. CASE to # s
      <3>1. Owed(s)' = Owed(s)
        BY <1>2, <2>2, <2>4 DEF Owed
      <3>2. dead'[s] = dead[s]
        BY <2>1, <2>4 DEF IndInv, TypeOK
      <3> QED
        BY <2>2, <3>1, <3>2, BusUnchanged
    <2> QED
      BY <2>3, <2>4
  <1> QED
    BY <1>1, <1>2

\* A producer sends a message; left in its local queue, it is owed to the service still.
LEMMA BusSends ==
    ASSUME IndInv, NEW from \in Event \cup Worker, NEW rec, NEW to, Sendable(rec, to),
           Produced(from, rec, to) \/ ProduceRaises(rec, to), UNCHANGED <<committed, served>>,
           to # "topic" \/ from \in Worker => rec.event \in Accepted \ Unreadable
    PROVE  \A s \in Service : BusStep(s)
  <1>1. CASE Store(rec, to) /\ UNCHANGED <<queue, lost>>
    <2>1. \A s \in Service : LeftBy(s, queue)' = LeftBy(s, queue)
      BY <1>1 DEF LeftBy
    <2> QED
      BY <1>1, <2>1, BusStores
  <1>2. CASE UNCHANGED <<cluster, queue, lost>>
    BY <1>2, BusUnchanged DEF cluster, Accepted, Owed, EventsOf, LeftBy
  <1>3. CASE /\ queue' = queue \cup {[from |-> from, rec |-> rec, to |-> to]}
             /\ UNCHANGED <<cluster, lost>>
    <2> SUFFICES ASSUME NEW s \in Service PROVE BusStep(s)
      OBVIOUS
    <2> DEFINE es == IF from \in Worker /\ ServiceOf[from] = s THEN {rec.event} ELSE {}
    <2>1. LeftBy(s, queue)' = LeftBy(s, queue) \cup es
      <3> PICK m : m = [from |-> from, rec |-> rec, to |-> to]
        OBVIOUS
      <3>1. m.from = from /\ m.rec = rec /\ queue' = queue \cup {m}
        BY <1>3
      <3>2. LeftBy(s, queue) \subseteq LeftBy(s, queue)'
        BY <3>1 DEF LeftBy
      <3>3. ASSUME NEW n \in queue', n.from \in Worker, ServiceOf[n.from] = s
            PROVE  n.rec.event \in LeftBy(s, queue) \cup es
        BY <3>1, <3>3 DEF LeftBy
      <3>4. es \subseteq LeftBy(s, queue)'
        BY <3>1 DEF LeftBy
      <3> QED
        BY <3>2, <3>3, <3>4 DEF LeftBy
    <2>2. es \subseteq Accepted
      OBVIOUS
    <2>3. Accepted' = Accepted /\ Owed(s)' = Owed(s) \cup es
      BY <1>3, <2>1 DEF cluster, Accepted, Owed, EventsOf
    <2> HIDE DEF es
    <2> QED
      BY <1>3, <2>2, <2>3, TypesOfEvents, BusReoffers DEF cluster
  <1> QED
    BY <1>1, <1>2, <1>3 DEF Produced, ProduceRaises, locals

\* The receivers run; nothing is owed less for it.
LEMMA BusServes ==
    ASSUME IndInv, NEW w \in Worker, pc[w] = "handle", NEW ok \in SUBSET Receiver,
           NEW isFailed \in BOOLEAN, RunReceivers(w, ok, isFailed), UNCHANGED <<cluster, committed, queue, lost>>
    PROVE  \A s \in Service : BusStep(s)
  <1> SUFFICES ASSUME NEW s \in Service PROVE BusStep(s)
    OBVIOUS
  <1> PICK e : e = topic[cur[w]].event
    OBVIOUS
  <1>1. cur[w] \in 1 .. Len(topic) /\ e \in Event /\ e \in Accepted \ Unreadable
    BY Receives, TypesOfEvents DEF IndInv, WorkerInv
  <1>2. served' = [served EXCEPT ![ServiceOf[w]][e] = @ \cup ok]
    BY DEF RunReceivers
  <1>3. Accepted' = Accepted /\ Owed(s)' = Owed(s) /\ dead' = dead
    BY DEF cluster, Accepted, Owed, EventsOf, LeftBy
  <1>4. CASE ServiceOf[w] = s
    <2>1. served'[s] = [served[s] EXCEPT ![e] = @ \cup ok]
      BY <1>2, <1>4 DEF IndInv, TypeOK
    <2>2. Bus(s)!Serve(e, ok)
      BY <1>1, <1>3, <2>1 DEF Bus!Serve, Owed
    <2> QED
      BY <1>1, <2>2 DEF BusStep, Bus!Next
  <1>5. CASE ServiceOf[w] # s
    <2>1. served'[s] = served[s]
      BY <1>2, <1>5 DEF IndInv, TypeOK
    <2> QED
      BY <1>3, <2>1, BusUnchanged
  <1> QED
    BY <1>4, <1>5

\* The group goes on after another record: forward, and what it forgets is settled, or
\* backward, and it sees events again.
LEMMA BusCommits ==
    ASSUME IndInv, NEW w \in Worker, pc[w] \in Finished, UNCHANGED <<cluster, queue, lost, served>>,
           committed' = [committed EXCEPT ![ServiceOf[w]] = cur[w]] \/ UNCHANGED committed
    PROVE  \A s \in Service : BusStep(s)
  <1> SUFFICES ASSUME NEW s \in Service PROVE BusStep(s)
    OBVIOUS
  <1>1. /\ Accepted' = Accepted /\ dead' = dead
        /\ Owed(s)' = EventsOf(committed'[s] + 1, Len(topic)) \cup LeftBy(s, queue)
    BY DEF cluster, Accepted, EventsOf, Owed, LeftBy
  <1>2. CASE committed'[s] = committed[s]
    BY <1>1, <1>2, BusUnchanged DEF Owed
  <1>3. CASE committed'[s] # committed[s]
    <2> PICK k : k = cur[w]
      OBVIOUS
    <2>1. s = ServiceOf[w] /\ committed'[s] = k
      BY <1>3 DEF IndInv, TypeOK
    <2>2. k \in 1 .. Len(topic) /\ Through(s, k) /\ committed[s] \in 0 .. Len(topic)
      BY <2>1, FinishedThrough DEF IndInv, TypeOK
    <2>3. CASE k < committed[s]
      <3>1. EventsOf(committed[s] + 1, Len(topic)) \subseteq EventsOf(k + 1, Len(topic))
        BY <2>2, <2>3 DEF EventsOf
      <3>2. EventsOf(k + 1, Len(topic)) \subseteq Accepted
        BY <2>2 DEF EventsOf, Accepted
      <3>3. Owed(s)' = Owed(s) \cup EventsOf(k + 1, Len(topic))
        BY <1>1, <2>1, <3>1 DEF Owed
      <3> QED
        BY <1>1, <3>2, <3>3, TypesOfEvents, BusReoffers
    <2>4. CASE committed[s] < k
      <3> DEFINE es == Owed(s) \ (EventsOf(k + 1, Len(topic)) \cup LeftBy(s, queue))
      <3>1. EventsOf(k + 1, Len(topic)) \subseteq EventsOf(committed[s] + 1, Len(topic))
        BY <2>2, <2>4 DEF EventsOf
      <3>2. Owed(s)' = Owed(s) \ es /\ es \subseteq Owed(s)
        BY <1>1, <2>1, <3>1 DEF Owed
      <3>3. ASSUME NEW e \in es PROVE Settled(s, e) \/ e \in lost[s]
        <4>1. PICK i \in committed[s] + 1 .. Len(topic) : topic[i].event = e
          BY DEF Owed, EventsOf
        <4>2. i \in 1 .. k
          <5>1. i \notin k + 1 .. Len(topic)
            BY <4>1 DEF EventsOf
          <5> QED
            BY <2>2, <4>1, <5>1
        <4> QED
          BY <2>2, <4>1, <4>2 DEF Through, Remains
      <3>4. CASE es = {}
        BY <1>1, <3>2, <3>4, BusUnchanged
      <3>5. CASE es # {}
        <4>1. Bus(s)!Settle(es)
          BY <1>1, <3>2, <3>3, <3>5 DEF Bus!Settle, Owed, Settled
        <4>2. es \in SUBSET Event
          BY <3>2, TypesOfEvents
        <4> QED
          BY <4>1, <4>2 DEF BusStep, Bus!Next
      <3> QED
        BY <3>4, <3>5
    <2> QED
      BY <1>3, <2>1, <2>2, <2>3, <2>4
  <1> QED
    BY <1>2, <1>3

LEMMA BusNext == IndInv /\ [Next]_vars => \A s \in Service : BusStep(s)
  <1> SUFFICES ASSUME IndInv, [Next]_vars PROVE \A s \in Service : BusStep(s)
    OBVIOUS
  <1>1. ASSUME NEW e \in Event, Publish(e) PROVE \A s \in Service : BusStep(s)
    <2> PICK rec : rec = [event |-> e, count |-> 0]
      OBVIOUS
    <2>1. /\ Produced(e, rec, "topic") \/ ProduceRaises(rec, "topic")
          /\ UNCHANGED <<committed, served>> /\ e \notin Worker
      BY <1>1 DEF Publish, history
    <2>2. Sendable(rec, "topic")
      BY DEF Sendable, Message
    <2> QED
      BY <2>1, <2>2, BusSends
  <1>2. ASSUME NEW w \in Worker, Fail(w) PROVE \A s \in Service : BusStep(s)
    <2> PICK r : r = Resend(topic[cur[w]], ServiceOf[w])
      OBVIOUS
    <2>1. /\ pc[w] = "fail" /\ UNCHANGED <<committed, served>>
          /\ Produced(w, r.rec, r.to) \/ ProduceRaises(r.rec, r.to)
      BY <1>2 DEF Fail, history
    <2>2. Sendable(r.rec, r.to) /\ r.rec.event \in Accepted \ Unreadable
      BY <2>1, ResendIsSendable
    <2> QED
      BY <2>1, <2>2, BusSends
  <1>3. ASSUME NEW m \in queue, Deliver(m) PROVE \A s \in Service : BusStep(s)
    <2> PICK rec, to : rec = m.rec /\ to = m.to
      OBVIOUS
    <2>1. /\ Store(rec, to) /\ queue' = queue \ {m}
          /\ UNCHANGED <<committed, lost, served>>
      BY <1>3 DEF Deliver, history
    <2>2. /\ Sendable(rec, to)
          /\ to # "topic" => rec.event \in Accepted \ Unreadable
      BY DEF Sendable, IndInv, TypeOK, QueueInv, Message
    <2>3. ASSUME NEW s \in Service
          PROVE  /\ LeftBy(s, queue)' \subseteq LeftBy(s, queue)
                 /\ \A e \in LeftBy(s, queue) \ LeftBy(s, queue)' : e = rec.event /\ to \in {"topic", s}
      <3>1. LeftBy(s, queue)' \subseteq LeftBy(s, queue)
        BY <2>1 DEF LeftBy
      <3>2. ASSUME NEW e \in LeftBy(s, queue) \ LeftBy(s, queue)'
            PROVE  e = rec.event /\ to \in {"topic", s}
        <4>1. PICK n \in queue : n.from \in Worker /\ ServiceOf[n.from] = s /\ n.rec.event = e
          BY DEF LeftBy
        <4>2. n = m
          BY <2>1, <4>1 DEF LeftBy
        <4> QED
          BY <4>1, <4>2 DEF IndInv, QueueInv
      <3> QED
        BY <3>1, <3>2
    <2> QED
      BY <2>1, <2>2, <2>3, BusStores
  <1>4. ASSUME NEW ms \in SUBSET queue, LoseAll(ms), UNCHANGED <<cluster, committed, served>>
        PROVE  \A s \in Service : BusStep(s)
    <2> SUFFICES ASSUME NEW s \in Service PROVE BusStep(s)
      OBVIOUS
    <2>1. CASE LeftBy(s, ms) = {}
      <3>1. LeftBy(s, queue)' = LeftBy(s, queue) /\ lost'[s] = lost[s]
        BY <1>4, <2>1, LosesNothing
      <3>2. Accepted' = Accepted /\ Owed(s)' = Owed(s) /\ dead' = dead
        BY <1>4, <3>1 DEF cluster, Accepted, Owed, EventsOf
      <3> QED
        BY <1>4, <3>1, <3>2, BusUnchanged
    <2>2. ASSUME NEW e \in LeftBy(s, ms) PROVE BusStep(s)
      <3>1. e \in Accepted \ Unreadable /\ e \in Event
        BY TypesOfEvents DEF IndInv, QueueInv, LeftBy
      <3>2. served'[s] = [served[s] EXCEPT ![e] = @ \cup {}]
        BY <1>4 DEF IndInv, TypeOK
      <3> QED
        BY <1>4, <3>1, <3>2, BusLoses
    <2> QED
      BY <2>1, <2>2
  <1>5. ASSUME NEW w \in Worker, Dispatch(w) PROVE \A s \in Service : BusStep(s)
    <2>1. PICK bad \in SUBSET Receiver : RunReceivers(w, Receiver \ bad, bad # {})
      BY <1>5 DEF Dispatch
    <2> PICK isFailed \in BOOLEAN : isFailed = (bad # {})
      OBVIOUS
    <2>2. /\ pc[w] = "handle" /\ UNCHANGED <<cluster, committed, queue, lost>>
      BY <1>5 DEF Dispatch, locals
    <2> QED
      BY <2>1, <2>2, BusServes
  <1>6. ASSUME NEW w \in Worker, Kill(w) PROVE \A s \in Service : BusStep(s)
    <2> PICK ms \in SUBSET queue : ms = {m \in queue : m.from = w}
      OBVIOUS
    <2>1. UNCHANGED <<cluster, committed>> /\ LoseAll(ms)
      BY <1>6 DEF Kill
    <2>2. CASE pc[w] = "handle"
      <3> SUFFICES ASSUME NEW s \in Service PROVE BusStep(s)
        OBVIOUS
      <3>1. PICK ok \in SUBSET Receiver : RunReceivers(w, ok, FALSE)
        BY <1>6, <2>2 DEF Kill
      <3>2. cur[w] \in 1 .. Len(topic) /\ topic[cur[w]].event \in Accepted \ Unreadable
        BY <2>2, <3>1, Receives, TypesOfEvents DEF IndInv, WorkerInv
      <3>3. served' = [served EXCEPT ![ServiceOf[w]][topic[cur[w]].event] = @ \cup ok]
        BY <3>1 DEF RunReceivers
      <3>4. CASE ServiceOf[w] = s
        <4>1. served'[s] = [served[s] EXCEPT ![topic[cur[w]].event] = @ \cup ok]
          BY <3>3, <3>4 DEF IndInv, TypeOK
        <4> QED
          BY <2>1, <3>2, <4>1, BusLoses
      <3>5. CASE ServiceOf[w] # s
        <4>1. LeftBy(s, queue)' = LeftBy(s, queue) /\ lost'[s] = lost[s]
          <5>1. LeftBy(s, ms) = {}
            BY <3>5 DEF LeftBy
          <5> QED
            BY <2>1, <5>1, LosesNothing
        <4>2. Accepted' = Accepted /\ Owed(s)' = Owed(s) /\ dead' = dead
          BY <2>1, <4>1 DEF cluster, Accepted, Owed, EventsOf
        <4>3. served'[s] = served[s]
          BY <3>3, <3>5 DEF IndInv, TypeOK
        <4> QED
          BY <4>1, <4>2, <4>3, BusUnchanged
      <3> QED
        BY <3>4, <3>5
    <2>3. CASE pc[w] # "handle"
      <3>1. UNCHANGED served
        BY <1>6, <2>3 DEF Kill, history
      <3> QED
        BY <1>4, <2>1, <3>1
    <2> QED
      BY <2>2, <2>3
  <1>7. ASSUME NEW w \in Worker, Commit(w) \/ CommitRaises(w) PROVE \A s \in Service : BusStep(s)
    <2>1. /\ pc[w] \in Finished /\ UNCHANGED <<cluster, queue, lost, served>>
          /\ committed' = [committed EXCEPT ![ServiceOf[w]] = cur[w]] \/ UNCHANGED committed
      BY <1>7 DEF Commit, CommitRaises, Finished, locals, history
    <2> QED
      BY <2>1, BusCommits
  <1>8. ASSUME UNCHANGED <<cluster, committed, queue, lost, served>>
        PROVE  \A s \in Service : BusStep(s)
    BY <1>8, BusUnchanged DEF cluster, Accepted, Owed, EventsOf, LeftBy
  <1>9. ASSUME NEW w \in Worker, Listen(w) \/ Poll(w) \/ Assign(w)
        PROVE  \A s \in Service : BusStep(s)
    BY <1>8, <1>9 DEF Listen, Poll, Assign, locals, history
  <1>10. CASE UNCHANGED vars
    BY <1>8, <1>10 DEF vars, locals, history
  <1>11. ASSUME NEW m \in queue, Lose(m) PROVE \A s \in Service : BusStep(s)
    BY <1>4, <1>11 DEF Lose, history
  <1> QED
    BY <1>1, <1>2, <1>3, <1>5, <1>6, <1>7, <1>9, <1>10, <1>11 DEF Next, Work

\* BusSpec: each of the services that share the topic sees EventBus, with any number of
\* workers, whatever the others publish again, and whichever member's commit comes last.
THEOREM Implementation == Spec => BusSpec
  <1>1. Init => \A s \in Service : Bus(s)!Init
    BY DEF Init, Bus!Init, Owed, Accepted, EventsOf, LeftBy
  <1>2. IndInv /\ [Next]_vars => [\A s \in Service : Bus(s)!Next \/ UNCHANGED Bus(s)!vars]_vars
    BY BusNext DEF BusStep
  <1> QED
    BY <1>1, <1>2, Invariance, PTL DEF Spec, BusSpec
-------------------------------------------------------------------------------
(* What flush() giving up costs *)

\* Nothing is in a local queue, and nothing has been lost in one.
Flushed == queue = {} /\ \A s \in Service : lost[s] = {}

LEMMA StepFlushed == ASSUME ~FlushTimeouts, IndInv, Flushed, [Next]_vars PROVE Flushed'
  <1>1. CASE UNCHANGED <<queue, lost>>
    BY <1>1 DEF Flushed
  <1>2. ASSUME NEW w \in Worker, Kill(w) PROVE Flushed'
    <2>1. LoseAll({m \in queue : m.from = w})
      BY <1>2 DEF Kill
    <2> QED
      BY <2>1 DEF LoseAll, LeftBy, Flushed, IndInv, TypeOK
  <1>3. ASSUME NEW m \in queue, Deliver(m) \/ Lose(m) PROVE Flushed'
    BY <1>3 DEF Flushed
  <1> QED
    BY <1>1, <1>2, <1>3
    DEF Next, Work, Publish, Fail, Produced, ProduceRaises, Listen, Poll, Dispatch, Commit,
        Assign, CommitRaises, locals, vars

\* NeverLost, if flush() always delivers within its 10 s: no commit, of whichever worker
\* and in whichever order, takes a group past an event it has not settled and will not
\* see again, for any number of services and workers, and across kills and failed commits.
THEOREM FlushedKeepsAll == ASSUME ~FlushTimeouts PROVE Spec => []NeverLost
  <1>1. Init => IndInv /\ Flushed
    BY InitIndInv DEF Init, Flushed
  <1>2. (IndInv /\ Flushed) /\ [Next]_vars => (IndInv /\ Flushed)'
    BY StepIndInv, StepFlushed
  <1>3. IndInv /\ Flushed => NeverLost
    BY DEF IndInv, Flushed, Through, Remains, Owed, NeverLost
  <1> QED
    BY <1>1, <1>2, <1>3, PTL DEF Spec
===============================================================================
