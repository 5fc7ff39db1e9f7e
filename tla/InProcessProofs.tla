---------------------------- MODULE InProcessProofs ----------------------------
(***************************************************************************)
(* The invariants of InProcess for every number of threads, events, types, *)
(* blocks, faults and resets.                                              *)
(*                                                                         *)
(* PublishedIffCommitted and InSendOrder: an event that was sent waits in  *)
(* the list of hooks, or was sent in a block that was rolled back, or is   *)
(* kept: published, in the list that runs, failed or skipped; and the      *)
(* lists are in the order of the sends.                                    *)
(*                                                                         *)
(* OncePerService and ServedInSendOrder: the queues are in the order of    *)
(* the publications, an event a thread was given has left its queue, and   *)
(* what is due is in one of the places where an event can be.              *)
(***************************************************************************)
EXTENDS InProcess, FiniteSetTheorems, TLAPS

(* The threads that send *)

Done == Published \cup failed \cup skipped

\* Blocks are entered once, and those that are open were not rolled back.
BlockInv(t) ==
    /\ \A i \in DOMAIN open[t] : open[t][i] \in 1 .. entered[t] /\ open[t][i] \notin undone[t]
    /\ \A i, j \in DOMAIN open[t] : i # j => open[t][i] # open[t][j]
    /\ undone[t] \subseteq 1 .. entered[t]
    /\ \A i \in DOMAIN sent[t] : Elements(sent[t][i].within) \subseteq 1 .. entered[t]

\* No event is sent twice.
SentOnce ==
    \A t, u \in Emitter : \A i \in DOMAIN sent[t], j \in DOMAIN sent[u] :
        sent[t][i].event = sent[u][j].event => t = u /\ i = j

\* A hook that waits was sent in the outermost open block, and so was all that
\* its thread has sent since; the hooks are in the order of the sends.
WaitInv(t) ==
    \A k \in DOMAIN hooks[t] :
        /\ open[t] # <<>>
        /\ Elements(hooks[t][k].within) \cap undone[t] = {}
        /\ \E i \in DOMAIN sent[t] : hooks[t][k] = sent[t][i]
        /\ \A i, j \in DOMAIN sent[t] : hooks[t][k] = sent[t][i] /\ i <= j =>
              sent[t][j].within # <<>> /\ sent[t][j].within[1] = open[t][1]
        /\ \A l \in DOMAIN hooks[t] : \A i, j \in DOMAIN sent[t] :
              k < l /\ hooks[t][k] = sent[t][i] /\ hooks[t][l] = sent[t][j] => i < j

\* Where an event that was sent is.
PlaceInv(t) ==
    \A i \in DOMAIN sent[t] :
        \/ \E k \in DOMAIN hooks[t] : hooks[t][k] = sent[t][i]
        \/ Elements(sent[t][i].within) \cap undone[t] # {}
        \/ Kept(t, sent[t][i]) /\ sent[t][i].event \in Done \cup Elements(running[t])

\* The hooks that run are of committed events of the thread, in the order of the sends.
RunInv(t) ==
    \A k \in DOMAIN running[t] :
        /\ running[t][k] \notin Done
        /\ \E i \in DOMAIN sent[t] : sent[t][i].event = running[t][k] /\ Kept(t, sent[t][i])
        /\ \A l \in DOMAIN running[t] : \A i, j \in DOMAIN sent[t] :
              k < l /\ sent[t][i].event = running[t][k] /\ sent[t][j].event = running[t][l] => i < j

DoneInv ==
    /\ Done \subseteq Sent
    /\ Published \cap (failed \cup skipped) = {}
    /\ \A i, j \in DOMAIN log : i # j => log[i] # log[j]
    /\ \A t \in Emitter : \A i \in DOMAIN sent[t] :
          sent[t][i].event \in Done => Kept(t, sent[t][i])

OrderInv(t) ==
    \A i, j \in DOMAIN sent[t] :
        LET g == sent[t][i]  h == sent[t][j] IN
        i < j =>
            /\ h.event \in Published => g.event \notin Elements(running[t])
            /\ h.event \in Published /\ g.event \in Published => Before(g.event, h.event)
            /\ g.event \in failed \cup skipped /\ h.event \in Published \cup Elements(running[t]) =>
                  ~SameTransaction(g, h)

EmissionInv ==
    /\ EmissionTypeOK
    /\ SentOnce
    /\ DoneInv
    /\ \A t \in Emitter : BlockInv(t) /\ WaitInv(t) /\ PlaceInv(t) /\ RunInv(t) /\ OrderInv(t)

LEMMA InitEmissionInv == EmissionInit => EmissionInv
  BY BlocksAssumption DEF EmissionInit, EmissionInv, EmissionTypeOK, SentOnce, DoneInv, BlockInv, WaitInv,
     PlaceInv, RunInv, OrderInv, Done, Published, Elements, Kept

\* A step of one thread keeps what the invariant says of another one.
LEMMA OthersKept ==
    ASSUME NEW u \in Emitter,
           BlockInv(u), WaitInv(u), PlaceInv(u), RunInv(u), OrderInv(u),
           open'[u] = open[u], entered'[u] = entered[u], undone'[u] = undone[u],
           hooks'[u] = hooks[u], sent'[u] = sent[u], running'[u] = running[u],
           \A i \in DOMAIN sent[u] :
              /\ sent[u][i].event \in Published' <=> sent[u][i].event \in Published
              /\ sent[u][i].event \in (failed \cup skipped)' <=> sent[u][i].event \in failed \cup skipped,
           \A d, e : Before(d, e) => Before(d, e)'
    PROVE  (BlockInv(u) /\ WaitInv(u) /\ PlaceInv(u) /\ RunInv(u) /\ OrderInv(u))'
  <1>1. BlockInv(u)'
    BY DEF BlockInv
  <1>2. WaitInv(u)'
    BY DEF WaitInv
  <1>3. \A hook : Kept(u, hook)' <=> Kept(u, hook)
    BY DEF Kept
  <1>4. PlaceInv(u)'
    BY <1>3 DEF PlaceInv, Done
  <1>5. RunInv(u)'
    BY <1>3 DEF RunInv, Done
  <1>6. OrderInv(u)'
    BY DEF OrderInv, SameTransaction
  <1> QED
    BY <1>1, <1>2, <1>4, <1>5, <1>6

LEMMA OneEmitter ==
    ASSUME EmissionInv, EmissionTypeOK', SentOnce', DoneInv', NEW t \in Emitter,
           \A u \in Emitter \ {t} :
              /\ open'[u] = open[u] /\ entered'[u] = entered[u] /\ undone'[u] = undone[u]
              /\ hooks'[u] = hooks[u] /\ sent'[u] = sent[u] /\ running'[u] = running[u]
              /\ \A i \in DOMAIN sent[u] :
                    /\ sent[u][i].event \in Published' <=> sent[u][i].event \in Published
                    /\ sent[u][i].event \in (failed \cup skipped)' <=> sent[u][i].event \in failed \cup skipped,
           \A d, e : Before(d, e) => Before(d, e)',
           BlockInv(t)', WaitInv(t)', PlaceInv(t)', RunInv(t)', OrderInv(t)'
    PROVE  EmissionInv'
  <1>1. ASSUME NEW u \in Emitter, u # t
        PROVE  (BlockInv(u) /\ WaitInv(u) /\ PlaceInv(u) /\ RunInv(u) /\ OrderInv(u))'
    <2>1. BlockInv(u) /\ WaitInv(u) /\ PlaceInv(u) /\ RunInv(u) /\ OrderInv(u)
      BY DEF EmissionInv
    <2>2. u \in Emitter \ {t}
      BY <1>1
    <2> QED
      BY <1>1, <2>1, <2>2, OthersKept
  <1> QED
    BY <1>1 DEF EmissionInv

LEMMA EnterStep ==
    ASSUME EmissionInv, NEW t \in Emitter, Enter(t)
    PROVE  EmissionInv'
  <1> USE DEF EmissionInv
  <1>0. /\ open[t] \in Seq(Block) /\ entered[t] \in 0 .. MaxBlocks /\ entered[t] < MaxBlocks
        /\ entered'[t] = entered[t] + 1
        /\ open'[t] = Append(open[t], entered[t] + 1)
        /\ undone' = undone /\ hooks' = hooks /\ sent' = sent /\ running' = running
        /\ \A u \in Emitter \ {t} : open'[u] = open[u] /\ entered'[u] = entered[u]
        /\ log' = log /\ failed' = failed /\ skipped' = skipped
    BY DEF Enter, EmissionTypeOK
  <1>1. EmissionTypeOK'
    BY BlocksAssumption DEF Enter, EmissionTypeOK, Block
  <1>2. BlockInv(t)'
    <2> DEFINE n == Len(open[t])
    <2>1. /\ n \in Nat /\ DOMAIN open[t] = 1 .. n /\ DOMAIN open'[t] = 1 .. n + 1
          /\ \A i \in 1 .. n : open'[t][i] = open[t][i]
          /\ open'[t][n + 1] = entered[t] + 1
      BY <1>0, BlocksAssumption DEF Block
    <2> HIDE DEF n
    <2>2. entered[t] \in Nat /\ BlockInv(t)
      BY <1>0, BlocksAssumption
    <2>3. \A i \in 1 .. n : open[t][i] \in 1 .. entered[t] /\ open[t][i] \notin undone[t]
      BY <2>1, <2>2 DEF BlockInv
    <2>4. \A i \in DOMAIN open'[t] : open'[t][i] \in 1 .. entered'[t] /\ open'[t][i] \notin undone'[t]
      BY <2>1, <2>2, <2>3, <1>0 DEF BlockInv
    <2>5. \A i, j \in DOMAIN open'[t] : i # j => open'[t][i] # open'[t][j]
      BY <2>1, <2>2, <2>3, <1>0 DEF BlockInv
    <2>6. 1 .. entered[t] \subseteq 1 .. entered'[t]
      BY <2>2, <1>0
    <2> QED
      BY <2>2, <2>4, <2>5, <2>6, <1>0 DEF BlockInv
  <1>3. \A i \in DOMAIN sent[t] : Kept(t, sent[t][i]) => Kept(t, sent[t][i])'
    <2>1. Elements(open'[t]) \subseteq Elements(open[t]) \cup {entered[t] + 1}
      BY <1>0 DEF Elements
    <2>2. \A i \in DOMAIN sent[t] : entered[t] + 1 \notin Elements(sent[t][i].within)
      <3>1. entered[t] + 1 \notin 1 .. entered[t]
        BY <1>0, BlocksAssumption
      <3> QED
        BY <3>1 DEF BlockInv
    <2> QED
      BY <1>0, <2>1, <2>2 DEF Kept
  <1>4. WaitInv(t)'
    BY <1>0 DEF WaitInv
  <1>5. PlaceInv(t)'
    BY <1>0, <1>3 DEF PlaceInv, Done, Published
  <1>6. RunInv(t)'
    BY <1>0, <1>3 DEF RunInv, Done, Published
  <1>7. OrderInv(t)'
    BY <1>0 DEF OrderInv, SameTransaction, Published, Before
  <1>8. SentOnce'
    BY <1>0 DEF SentOnce
  <1>9. DoneInv'
    BY <1>0, <1>3 DEF DoneInv, Done, Sent, Published, Kept
  <1> QED
    BY <1>0, <1>1, <1>2, <1>4, <1>5, <1>6, <1>7, <1>8, <1>9, OneEmitter DEF Published, Before

\* What waits, and what was sent after it, is in a block that is open.
LEMMA WaitingIsOpen ==
    ASSUME EmissionInv, NEW t \in Emitter, NEW k \in DOMAIN hooks[t],
           NEW i \in DOMAIN sent[t], NEW j \in DOMAIN sent[t],
           hooks[t][k] = sent[t][i], i <= j
    PROVE  ~Kept(t, sent[t][j])
  <1>1. WaitInv(t)
    BY DEF EmissionInv
  <1>2. open[t] # <<>> /\ sent[t][j].within # <<>> /\ sent[t][j].within[1] = open[t][1]
    BY <1>1 DEF WaitInv
  <1>3. open[t] \in Seq(Block) /\ sent[t] \in Seq(Hook)
    BY DEF EmissionInv, EmissionTypeOK
  <1>4. sent[t][j].within \in Seq(Block)
    <2>1. sent[t][j] \in Hook
      BY <1>3
    <2> QED
      BY <2>1 DEF Hook
  <1>5. 1 \in DOMAIN open[t] /\ 1 \in DOMAIN sent[t][j].within
    BY <1>2, <1>3, <1>4
  <1> QED
    BY <1>2, <1>5 DEF Kept, Elements

\* The thread leaves its innermost block.
LEMMA LeaveFacts ==
    ASSUME EmissionInv, NEW t \in Emitter, open[t] # <<>>, Leave(t)
    PROVE  /\ open'[t] \in Seq(Block)
           /\ Len(open[t]) \in Nat /\ (Len(open[t]) = 1 \/ Len(open[t]) > 1)
           /\ DOMAIN open[t] = 1 .. Len(open[t])
           /\ DOMAIN open'[t] = 1 .. Len(open[t]) - 1
           /\ Len(open[t]) > 1 => open'[t] # <<>>
           /\ Len(open[t]) = 1 => open'[t] = <<>>
           /\ \A i \in DOMAIN open'[t] : i \in DOMAIN open[t] /\ open'[t][i] = open[t][i]
           /\ Elements(open'[t]) \subseteq Elements(open[t])
           /\ \A u \in Emitter \ {t} : open'[u] = open[u]
           /\ open' \in [Emitter -> Seq(Block)]
  <1>1. open \in [Emitter -> Seq(Block)] /\ open' = [open EXCEPT ![t] = SubSeq(@, 1, Len(@) - 1)]
    BY DEF EmissionInv, EmissionTypeOK, Leave
  <1>2. PICK s \in Seq(Block) : s = open[t]
    BY <1>1
  <1>3. Len(s) \in Nat /\ Len(s) > 0 /\ DOMAIN s = 1 .. Len(s)
    BY <1>2
  <1>4. /\ SubSeq(s, 1, Len(s) - 1) \in Seq(Block)
        /\ DOMAIN SubSeq(s, 1, Len(s) - 1) = 1 .. Len(s) - 1
        /\ Len(SubSeq(s, 1, Len(s) - 1)) = Len(s) - 1
        /\ \A i \in 1 .. Len(s) - 1 : SubSeq(s, 1, Len(s) - 1)[i] = s[i]
    BY <1>3
  <1>5. open'[t] = SubSeq(s, 1, Len(s) - 1) /\ \A u \in Emitter \ {t} : open'[u] = open[u]
    BY <1>1, <1>2
  <1>6. open' \in [Emitter -> Seq(Block)]
    BY <1>1, <1>2, <1>4
  <1>11. Len(s) = 1 \/ Len(s) > 1
    BY <1>3
  <1>7. Len(open[t]) = 1 => open'[t] = <<>>
    BY <1>2, <1>4, <1>5
  <1>8. Len(open[t]) > 1 => open'[t] # <<>>
    <2>1. Len(s) > 1 => Len(SubSeq(s, 1, Len(s) - 1)) # 0
      BY <1>3, <1>4
    <2>2. Len(<<>>) = 0
      OBVIOUS
    <2> QED
      BY <1>2, <1>5, <2>1, <2>2
  <1>9. \A i \in DOMAIN open'[t] : i \in DOMAIN open[t] /\ open'[t][i] = open[t][i]
    BY <1>2, <1>3, <1>4, <1>5
  <1>10. Elements(open'[t]) \subseteq Elements(open[t])
    BY <1>9 DEF Elements
  <1> QED
    BY <1>2, <1>3, <1>4, <1>5, <1>6, <1>7, <1>8, <1>9, <1>10, <1>11

LEMMA CommitStep ==
    ASSUME EmissionInv, NEW t \in Emitter, Commit(t)
    PROVE  EmissionInv'
  <1> USE DEF EmissionInv
  <1>0. /\ open[t] # <<>> /\ Leave(t) /\ running[t] = <<>>
        /\ entered' = entered /\ undone' = undone /\ sent' = sent
        /\ log' = log /\ failed' = failed /\ skipped' = skipped /\ faults' = faults
        /\ \A u \in Emitter \ {t} : hooks'[u] = hooks[u] /\ running'[u] = running[u]
    BY DEF Commit, EmissionTypeOK, Idle
  <1>1. \A u \in Emitter \ {t} : open'[u] = open[u]
    BY <1>0, LeaveFacts
  <1>2. BlockInv(t)'
    BY <1>0, LeaveFacts DEF BlockInv
  <1>3. \A i \in DOMAIN sent[t] : Kept(t, sent[t][i]) => Kept(t, sent[t][i])'
    BY <1>0, LeaveFacts DEF Kept
  <1>4. SentOnce' /\ DoneInv'
    <2>1. \A u \in Emitter : \A i \in DOMAIN sent[u] : Kept(u, sent[u][i]) => Kept(u, sent[u][i])'
      BY <1>0, <1>1, <1>3 DEF Kept
    <2> QED
      BY <1>0, <2>1 DEF SentOnce, DoneInv, Done, Sent, Published
  <1>5. Done' = Done /\ Published' = Published /\ \A d, e : Before(d, e) <=> Before(d, e)'
    BY <1>0 DEF Done, Published, Before
  <1>6. CASE Len(open[t]) > 1
    <2>1. hooks' = hooks /\ running' = running
      BY <1>6 DEF Commit
    <2>2. EmissionTypeOK'
      BY <1>0, <2>1, LeaveFacts DEF EmissionTypeOK
    <2>3. open'[t] # <<>> /\ open'[t][1] = open[t][1]
      BY <1>0, <1>6, LeaveFacts
    <2>4. WaitInv(t)'
      BY <1>0, <2>1, <2>3 DEF WaitInv
    <2>5. PlaceInv(t)'
      BY <1>0, <1>3, <1>5, <2>1 DEF PlaceInv
    <2>6. RunInv(t)'
      BY <1>0, <2>1 DEF RunInv
    <2>7. OrderInv(t)'
      BY <1>0, <1>5, <2>1 DEF OrderInv, SameTransaction
    <2> QED
      BY <1>0, <1>1, <1>2, <1>4, <1>5, <2>1, <2>2, <2>4, <2>5, <2>6, <2>7, OneEmitter
  <1>7. CASE Len(open[t]) = 1
    <2>1. /\ hooks[t] \in Seq(Hook) /\ hooks'[t] = <<>> /\ running'[t] = EventsOf(hooks[t])
          /\ open'[t] = <<>>
      BY <1>0, <1>7, LeaveFacts DEF Commit, EmissionTypeOK
    <2>2. /\ DOMAIN running'[t] = DOMAIN hooks[t] /\ running'[t] \in Seq(Event)
          /\ \A k \in DOMAIN hooks[t] : running'[t][k] = hooks[t][k].event
      <3>1. PICK q \in Seq(Hook) : q = hooks[t]
        BY <2>1
      <3>2. Len(q) \in Nat /\ DOMAIN q = 1 .. Len(q) /\ \A k \in 1 .. Len(q) : q[k].event \in Event
        <4>1. Len(q) \in Nat /\ DOMAIN q = 1 .. Len(q) /\ \A k \in 1 .. Len(q) : q[k] \in Hook
          BY <3>1
        <4> QED
          BY <4>1 DEF Hook
      <3>3. [k \in 1 .. Len(q) |-> q[k].event] \in Seq(Event)
        BY <3>2
      <3> QED
        BY <2>1, <3>1, <3>2, <3>3 DEF EventsOf
    <2>3. EmissionTypeOK'
      <3>1. /\ hooks' = [hooks EXCEPT ![t] = <<>>]
            /\ running' = [running EXCEPT ![t] = EventsOf(hooks[t])]
        BY <1>7 DEF Commit
      <3>2. EventsOf(hooks[t]) \in Seq(Event)
        BY <2>1, <2>2
      <3>3. hooks' \in [Emitter -> Seq(Hook)] /\ running' \in [Emitter -> Seq(Event)]
        BY <3>1, <3>2 DEF EmissionTypeOK
      <3> QED
        BY <1>0, <3>3, LeaveFacts DEF EmissionTypeOK
    <2>4. \A k \in DOMAIN hooks[t] : \E i \in DOMAIN sent[t] :
             /\ sent[t][i] = hooks[t][k]
             /\ \A j \in DOMAIN sent[t] : i <= j => sent[t][j].event \notin Done
      <3> SUFFICES ASSUME NEW k \in DOMAIN hooks[t]
                   PROVE  \E i \in DOMAIN sent[t] :
                             /\ sent[t][i] = hooks[t][k]
                             /\ \A j \in DOMAIN sent[t] : i <= j => sent[t][j].event \notin Done
        OBVIOUS
      <3>1. PICK i \in DOMAIN sent[t] : hooks[t][k] = sent[t][i]
        BY DEF WaitInv
      <3>2. \A j \in DOMAIN sent[t] : i <= j => ~Kept(t, sent[t][j])
        BY <3>1, WaitingIsOpen
      <3> QED
        BY <3>1, <3>2 DEF DoneInv
    <2>5. \A k \in DOMAIN hooks[t] : Elements(hooks[t][k].within) \cap undone[t] = {}
      BY DEF WaitInv
    <2>6. \A hook : Kept(t, hook)' <=> Elements(hook.within) \cap undone[t] = {}
      BY <1>0, <2>1 DEF Kept, Elements
    <2>7. WaitInv(t)'
      BY <2>1 DEF WaitInv
    <2>8. PlaceInv(t)'
      <3> SUFFICES ASSUME NEW i \in DOMAIN sent[t]
                   PROVE  \/ Elements(sent[t][i].within) \cap undone[t] # {}
                          \/ Kept(t, sent[t][i])' /\ sent[t][i].event \in Done \cup Elements(running'[t])
        BY <1>0, <1>5 DEF PlaceInv
      <3>1. CASE \E k \in DOMAIN hooks[t] : hooks[t][k] = sent[t][i]
        BY <1>0, <3>1, <2>2, <2>5, <2>6 DEF Elements
      <3>2. CASE Kept(t, sent[t][i]) /\ sent[t][i].event \in Done \cup Elements(running[t])
        BY <3>2, <1>0, <1>3 DEF Elements
      <3> QED
        BY <3>1, <3>2 DEF PlaceInv
    <2>9. \A k, l \in DOMAIN hooks[t] : \A i, j \in DOMAIN sent[t] :
             k < l /\ sent[t][i].event = hooks[t][k].event /\ sent[t][j].event = hooks[t][l].event => i < j
      <3> SUFFICES ASSUME NEW k \in DOMAIN hooks[t], NEW l \in DOMAIN hooks[t],
                          NEW i \in DOMAIN sent[t], NEW j \in DOMAIN sent[t],
                          k < l, sent[t][i].event = hooks[t][k].event, sent[t][j].event = hooks[t][l].event
                   PROVE  i < j
        OBVIOUS
      <3>1. hooks[t][k] = sent[t][i] /\ hooks[t][l] = sent[t][j]
        BY <2>4 DEF SentOnce
      <3> QED
        BY <3>1 DEF WaitInv
    <2>10. RunInv(t)'
      <3> SUFFICES ASSUME NEW k \in DOMAIN hooks[t]
                   PROVE  /\ hooks[t][k].event \notin Done
                          /\ \E i \in DOMAIN sent[t] :
                                sent[t][i].event = hooks[t][k].event /\ Kept(t, sent[t][i])'
        BY <1>0, <1>5, <2>2, <2>9 DEF RunInv
      <3>1. PICK i \in DOMAIN sent[t] :
               /\ sent[t][i] = hooks[t][k]
               /\ \A j \in DOMAIN sent[t] : i <= j => sent[t][j].event \notin Done
        BY <2>4
      <3>2. i <= i
        BY DEF EmissionTypeOK
      <3> QED
        BY <1>0, <3>1, <3>2, <2>5, <2>6
    <2>11. OrderInv(t)'
      <3> SUFFICES ASSUME NEW i \in DOMAIN sent[t], NEW j \in DOMAIN sent[t], i < j
                   PROVE  LET g == sent[t][i]  h == sent[t][j] IN
                          /\ h.event \in Published => g.event \notin Elements(running'[t])
                          /\ h.event \in Published /\ g.event \in Published => Before(g.event, h.event)
                          /\ g.event \in failed \cup skipped
                             /\ h.event \in Published \cup Elements(running'[t]) => ~SameTransaction(g, h)
        BY <1>0, <1>5 DEF OrderInv, SameTransaction
      <3>0. i <= j /\ i <= i /\ j <= j
        BY DEF EmissionTypeOK
      <3>1. sent[t][j].event \in Published => sent[t][i].event \notin Elements(running'[t])
        <4> SUFFICES ASSUME NEW k \in DOMAIN hooks[t], sent[t][i].event = hooks[t][k].event
                     PROVE  sent[t][j].event \notin Published
          BY <2>2 DEF Elements
        <4>1. hooks[t][k] = sent[t][i]
          BY <2>4 DEF SentOnce
        <4>2. ~Kept(t, sent[t][j])
          BY <4>1, <3>0, WaitingIsOpen
        <4> QED
          BY <4>2 DEF DoneInv, Done
      <3>2. ASSUME sent[t][i].event \in failed \cup skipped,
                   NEW k \in DOMAIN hooks[t], sent[t][j].event = hooks[t][k].event
            PROVE  ~SameTransaction(sent[t][i], sent[t][j])
        <4>1. hooks[t][k] = sent[t][j]
          BY <3>2, <2>4 DEF SentOnce
        <4>2. sent[t][j].within[1] = open[t][1]
          BY <4>1, <3>0 DEF WaitInv
        <4>3. Kept(t, sent[t][i])
          BY <3>2 DEF DoneInv, Done
        <4>4. open[t][1] \in Elements(open[t])
          BY <1>7, <1>0, LeaveFacts DEF Elements
        <4>5. ASSUME sent[t][i].within # <<>> PROVE 1 \in DOMAIN sent[t][i].within
          <5>1. sent[t] \in Seq(Hook)
            BY DEF EmissionTypeOK
          <5>2. sent[t][i] \in Hook
            BY <5>1
          <5>3. sent[t][i].within \in Seq(Block)
            BY <5>2 DEF Hook
          <5> QED
            BY <4>5, <5>3
        <4> QED
          BY <4>2, <4>3, <4>4, <4>5 DEF SameTransaction, Kept, Elements
      <3>3. ASSUME sent[t][i].event \in failed \cup skipped, sent[t][j].event \in Elements(running'[t])
            PROVE  ~SameTransaction(sent[t][i], sent[t][j])
        <4>1. PICK k \in DOMAIN hooks[t] : sent[t][j].event = hooks[t][k].event
          BY <3>3, <2>2 DEF Elements
        <4> QED
          BY <3>2, <3>3, <4>1
      <3> QED
        BY <3>1, <3>3 DEF OrderInv
    <2> QED
      BY <1>0, <1>1, <1>2, <1>4, <1>5, <2>1, <2>3, <2>7, <2>8, <2>10, <2>11, OneEmitter
  <1> QED
    BY <1>0, <1>6, <1>7, LeaveFacts

LEMMA RollBackStep ==
    ASSUME EmissionInv, NEW t \in Emitter, RollBack(t)
    PROVE  EmissionInv'
  <1> DEFINE b == Innermost(t)
             outside == {i \in DOMAIN hooks[t] : b \notin Elements(hooks[t][i].within)}
  <1>0. /\ open[t] # <<>> /\ Leave(t) /\ running[t] = <<>>
        /\ entered' = entered /\ undone'[t] = undone[t] \cup {b} /\ sent' = sent /\ running' = running
        /\ log' = log /\ failed' = failed /\ skipped' = skipped /\ faults' = faults
        /\ \A u \in Emitter \ {t} : hooks'[u] = hooks[u] /\ undone'[u] = undone[u]
        /\ undone' = [undone EXCEPT ![t] = @ \cup {b}]
    BY DEF RollBack, EmissionInv, EmissionTypeOK, Idle
  <1>f. PICK f \in [1 .. Cardinality(outside) -> outside] :
           /\ \A k, l \in DOMAIN f : k < l => f[k] < f[l]
           /\ outside \subseteq Elements(f)
           /\ hooks' = [hooks EXCEPT ![t] = [k \in DOMAIN f |-> hooks[t][f[k]]]]
    BY DEF RollBack
  <1>h. Cardinality(outside) \in Nat
    <2>1. PICK q \in Seq(Hook) : q = hooks[t]
      BY DEF EmissionInv, EmissionTypeOK
    <2>2. Len(q) \in Nat /\ DOMAIN q = 1 .. Len(q)
      BY <2>1
    <2>3. IsFiniteSet(1 .. Len(q))
      BY <2>2, FS_Interval
    <2>4. IsFiniteSet(outside)
      BY <2>1, <2>2, <2>3, FS_Subset
    <2> QED
      BY <2>4, FS_CardinalityType
  <1>g. /\ \A i \in outside : i \in DOMAIN hooks[t] /\ b \notin Elements(hooks[t][i].within)
        /\ \A i \in DOMAIN hooks[t] : i \notin outside => b \in Elements(hooks[t][i].within)
    OBVIOUS
  <1> HIDE DEF outside
  <1>k. /\ DOMAIN hooks'[t] = DOMAIN f
        /\ \A k \in DOMAIN f : f[k] \in outside /\ hooks'[t][k] = hooks[t][f[k]]
        /\ \A i \in outside : \E k \in DOMAIN f : f[k] = i
    BY <1>f DEF EmissionInv, EmissionTypeOK, Elements
  <1>1. open[t][Len(open[t])] = b /\ Len(open[t]) \in DOMAIN open[t] /\ b \in Elements(open[t])
    BY <1>0, LeaveFacts DEF Innermost, Elements
  <1> HIDE DEF b
  <1>2. EmissionTypeOK'
    <2>1. b \in Block
      BY <1>1 DEF EmissionInv, EmissionTypeOK
    <2>2. hooks'[t] \in Seq(Hook)
      <3>1. \A i \in DOMAIN hooks[t] : hooks[t][i] \in Hook
        BY DEF EmissionInv, EmissionTypeOK
      <3>2. \A k \in 1 .. Cardinality(outside) : hooks[t][f[k]] \in Hook
        BY <1>f, <1>g, <3>1
      <3>3. [k \in 1 .. Cardinality(outside) |-> hooks[t][f[k]]] \in Seq(Hook)
        BY <1>h, <3>2
      <3> QED
        BY <1>f, <3>3 DEF EmissionInv, EmissionTypeOK
    <2>3. hooks' \in [Emitter -> Seq(Hook)]
      BY <1>f, <2>2 DEF EmissionInv, EmissionTypeOK
    <2> QED
      BY <1>0, <2>1, <2>3, LeaveFacts DEF EmissionInv, EmissionTypeOK
  <1>3. BlockInv(t)'
    <2>1. Len(open[t]) \notin DOMAIN open'[t]
      BY <1>0, LeaveFacts
    <2> QED
      BY <1>0, <1>1, <2>1, LeaveFacts DEF EmissionInv, BlockInv
  <1>4. \A i \in DOMAIN sent[t] : Kept(t, sent[t][i]) => Kept(t, sent[t][i])'
    <2>1. undone'[t] \cup Elements(open'[t]) \subseteq undone[t] \cup Elements(open[t])
      BY <1>0, <1>1, LeaveFacts
    <2> QED
      BY <1>0, <2>1 DEF Kept, Elements
  <1>5. SentOnce' /\ DoneInv'
    <2>1. \A u \in Emitter : \A i \in DOMAIN sent[u] : Kept(u, sent[u][i]) => Kept(u, sent[u][i])'
      BY <1>0, <1>4, LeaveFacts DEF Kept
    <2> QED
      BY <1>0, <2>1 DEF EmissionInv, SentOnce, DoneInv, Done, Sent, Published
  <1>6. Done' = Done /\ Published' = Published /\ \A d, e : Before(d, e) <=> Before(d, e)'
    BY <1>0 DEF Done, Published, Before
  <1>7. WaitInv(t)'
    <2> SUFFICES ASSUME NEW k \in DOMAIN f
                 PROVE  /\ open'[t] # <<>>
                        /\ Elements(hooks'[t][k].within) \cap undone'[t] = {}
                        /\ \E i \in DOMAIN sent[t] : hooks'[t][k] = sent[t][i]
                        /\ \A i, j \in DOMAIN sent[t] : hooks'[t][k] = sent[t][i] /\ i <= j =>
                              sent[t][j].within # <<>> /\ sent[t][j].within[1] = open'[t][1]
                        /\ \A l \in DOMAIN f : \A i, j \in DOMAIN sent[t] :
                              k < l /\ hooks'[t][k] = sent[t][i] /\ hooks'[t][l] = sent[t][j] => i < j
      BY <1>0, <1>k DEF WaitInv
    <2>1. f[k] \in DOMAIN hooks[t] /\ b \notin Elements(hooks[t][f[k]].within) /\ hooks'[t][k] = hooks[t][f[k]]
      BY <1>k, <1>g
    <2>2. WaitInv(t)
      BY DEF EmissionInv
    <2>3. PICK i \in DOMAIN sent[t] : hooks[t][f[k]] = sent[t][i]
      BY <2>1, <2>2 DEF WaitInv
    <2>4. sent[t] \in Seq(Hook)
      BY DEF EmissionInv, EmissionTypeOK
    <2>5. sent[t][i] \in Hook /\ i <= i
      BY <2>4
    <2>6. sent[t][i].within \in Seq(Block)
      BY <2>5 DEF Hook
    <2>7. sent[t][i].within # <<>> /\ sent[t][i].within[1] = open[t][1]
      BY <2>1, <2>2, <2>3, <2>5 DEF WaitInv
    <2>8. open[t][1] \in Elements(hooks[t][f[k]].within)
      BY <2>3, <2>6, <2>7 DEF Elements
    <2>9. Len(open[t]) # 1
      BY <1>1, <2>1, <2>8
    <2>10. open'[t] # <<>> /\ open'[t][1] = open[t][1]
      BY <1>0, <2>9, LeaveFacts
    <2>11. \A l \in DOMAIN f : k < l => f[k] < f[l]
      BY <1>f
    <2>12. \A l \in DOMAIN f : f[l] \in DOMAIN hooks[t] /\ hooks'[t][l] = hooks[t][f[l]]
      BY <1>k, <1>g
    <2>13. \A l \in DOMAIN f : \A h, j \in DOMAIN sent[t] :
              k < l /\ hooks'[t][k] = sent[t][h] /\ hooks'[t][l] = sent[t][j] => h < j
      BY <2>1, <2>2, <2>11, <2>12 DEF WaitInv
    <2> QED
      BY <1>0, <2>1, <2>2, <2>3, <2>10, <2>13 DEF WaitInv
  <1>8. PlaceInv(t)'
    <2> SUFFICES ASSUME NEW i \in DOMAIN sent[t]
                 PROVE  \/ \E k \in DOMAIN f : hooks'[t][k] = sent[t][i]
                        \/ Elements(sent[t][i].within) \cap undone'[t] # {}
                        \/ Kept(t, sent[t][i])' /\ sent[t][i].event \in Done' \cup Elements(running'[t])
      BY <1>0, <1>k DEF PlaceInv
    <2>1. ASSUME NEW k \in DOMAIN hooks[t], hooks[t][k] = sent[t][i], k \notin outside
          PROVE  Elements(sent[t][i].within) \cap undone'[t] # {}
      BY <2>1, <1>0, <1>g
    <2>2. ASSUME NEW k \in DOMAIN hooks[t], hooks[t][k] = sent[t][i], k \in outside
          PROVE  \E l \in DOMAIN f : hooks'[t][l] = sent[t][i]
      BY <2>2, <1>k
    <2> QED
      BY <1>0, <1>4, <1>6, <2>1, <2>2 DEF EmissionInv, PlaceInv
  <1>9. RunInv(t)'
    BY <1>0 DEF RunInv
  <1>10. OrderInv(t)'
    BY <1>0, <1>6 DEF EmissionInv, OrderInv, SameTransaction
  <1> QED
    BY <1>0, <1>2, <1>3, <1>5, <1>6, <1>7, <1>8, <1>9, <1>10, LeaveFacts, OneEmitter

LEMMA SendStep ==
    ASSUME EmissionInv, NEW t \in Emitter, NEW e \in Event, Send(t, e)
    PROVE  EmissionInv'
  <1> DEFINE hook == [event |-> e, within |-> open[t]]
             n == Len(sent[t])
  <1>0. /\ running[t] = <<>> /\ e \notin Sent
        /\ open' = open /\ entered' = entered /\ undone' = undone
        /\ log' = log /\ failed' = failed /\ skipped' = skipped /\ faults' = faults
        /\ sent' = [sent EXCEPT ![t] = Append(@, hook)]
        /\ sent'[t] = Append(sent[t], hook)
        /\ \A u \in Emitter \ {t} : hooks'[u] = hooks[u] /\ running'[u] = running[u] /\ sent'[u] = sent[u]
    BY DEF Send, EmissionInv, EmissionTypeOK, Idle, blocks
  <1>1. hook \in Hook
    BY DEF EmissionInv, EmissionTypeOK, Hook
  <1>2. /\ n \in Nat /\ DOMAIN sent[t] = 1 .. n /\ DOMAIN sent'[t] = 1 .. n + 1
        /\ sent'[t] \in Seq(Hook)
        /\ \A i \in 1 .. n : sent'[t][i] = sent[t][i]
        /\ sent'[t][n + 1] = hook
    <2>1. PICK q \in Seq(Hook) : q = sent[t]
      BY DEF EmissionInv, EmissionTypeOK
    <2> HIDE DEF hook
    <2>2. /\ Len(q) \in Nat /\ DOMAIN q = 1 .. Len(q) /\ DOMAIN Append(q, hook) = 1 .. Len(q) + 1
          /\ Append(q, hook) \in Seq(Hook)
          /\ \A i \in 1 .. Len(q) : Append(q, hook)[i] = q[i]
          /\ Append(q, hook)[Len(q) + 1] = hook
      BY <1>1, <2>1
    <2> QED
      BY <1>0, <2>1, <2>2
  <1>3. hook.event = e /\ hook.within = open[t]
    OBVIOUS
  <1> HIDE DEF hook, n
  <1>4. \A u \in Emitter : \A i \in DOMAIN sent[u] : sent[u][i].event # e
    BY <1>0 DEF Sent, Events
  <1>5. e \notin Done /\ Done' = Done /\ Published' = Published
        /\ \A d, h : Before(d, h) <=> Before(d, h)'
    BY <1>0 DEF EmissionInv, DoneInv, Done, Published, Before
  <1>6. \A u \in Emitter : \A h : Kept(u, h)' <=> Kept(u, h)
    BY <1>0 DEF Kept
  <1>7. SentOnce'
    <2>1. \A i \in DOMAIN sent'[t] : \A u \in Emitter \ {t} : \A j \in DOMAIN sent'[u] :
             sent'[t][i].event # sent'[u][j].event
      BY <1>0, <1>2, <1>3, <1>4 DEF EmissionInv, SentOnce
    <2>2. \A i, j \in DOMAIN sent'[t] : sent'[t][i].event = sent'[t][j].event => i = j
      <3>1. \A i \in 1 .. n : sent'[t][i].event # sent'[t][n + 1].event
        BY <1>2, <1>3, <1>4
      <3>2. \A i, j \in 1 .. n : sent[t][i].event = sent[t][j].event => i = j
        BY <1>2 DEF EmissionInv, SentOnce
      <3>3. \A i \in 1 .. n + 1 : i \in 1 .. n \/ i = n + 1
        BY <1>2
      <3> QED
        BY <1>2, <3>1, <3>2, <3>3
    <2> QED
      BY <1>0, <2>1, <2>2 DEF EmissionInv, SentOnce
  <1>8. DoneInv'
    <2>1. Sent \subseteq Sent'
      <3>1. \A u \in Emitter : \A i \in DOMAIN sent[u] : i \in DOMAIN sent'[u] /\ sent'[u][i] = sent[u][i]
        BY <1>0, <1>2
      <3>2. \A u \in Emitter : Events(sent[u]) \subseteq Events(sent'[u])
        BY <3>1 DEF Events
      <3> QED
        BY <3>2 DEF Sent
    <2>2. ASSUME NEW u \in Emitter, NEW i \in DOMAIN sent'[u], sent'[u][i].event \in Done
          PROVE  Kept(u, sent'[u][i])
      <3>1. i \in DOMAIN sent[u] /\ sent'[u][i] = sent[u][i]
        BY <2>2, <1>0, <1>2, <1>3, <1>5
      <3> QED
        BY <2>2, <3>1 DEF EmissionInv, DoneInv
    <2>3. \A u \in Emitter : \A i \in DOMAIN sent'[u] :
             (sent[u][i].event \in Done => Kept(u, sent[u][i]))'
      BY <2>2, <1>5, <1>6
    <2> QED
      BY <1>0, <1>5, <2>1, <2>3 DEF EmissionInv, DoneInv
  <1>9. BlockInv(t)'
    <2>1. Elements(open[t]) \subseteq 1 .. entered[t]
      BY DEF EmissionInv, BlockInv, Elements
    <2>2. \A i \in DOMAIN sent'[t] : Elements(sent'[t][i].within) \subseteq 1 .. entered[t]
      BY <1>2, <1>3, <2>1 DEF EmissionInv, BlockInv
    <2> QED
      BY <1>0, <2>2 DEF EmissionInv, BlockInv
  <1>10. CASE open[t] = <<>>
    <2>1. hooks' = hooks /\ running'[t] = <<e>> /\ running' = [running EXCEPT ![t] = <<e>>]
      BY <1>10 DEF Send, EmissionInv, EmissionTypeOK
    <2>2. EmissionTypeOK'
      <3>1. running' \in [Emitter -> Seq(Event)] /\ sent' \in [Emitter -> Seq(Hook)]
        BY <2>1, <1>0, <1>2 DEF EmissionInv, EmissionTypeOK
      <3> QED
        BY <1>0, <2>1, <3>1 DEF EmissionInv, EmissionTypeOK
    <2>3. \A k \in DOMAIN hooks[t] : FALSE
      BY <1>10 DEF EmissionInv, WaitInv
    <2>4. WaitInv(t)'
      BY <2>1, <2>3 DEF WaitInv
    <2>5. DOMAIN running'[t] = {1} /\ running'[t][1] = e /\ Elements(running'[t]) = {e}
      BY <2>1 DEF Elements
    <2>6. Kept(t, hook)
      BY <1>3, <1>10 DEF Kept, Elements
    <2>7. PlaceInv(t)'
      <3>1. \A i \in DOMAIN sent[t] :
               \/ Elements(sent[t][i].within) \cap undone[t] # {}
               \/ Kept(t, sent[t][i]) /\ sent[t][i].event \in Done
        BY <2>3, <1>0 DEF EmissionInv, PlaceInv, Elements
      <3> QED
        BY <1>0, <1>2, <1>3, <1>5, <1>6, <2>5, <2>6, <3>1 DEF PlaceInv
    <2>8. RunInv(t)'
      BY <1>2, <1>3, <1>5, <1>6, <2>5, <2>6 DEF RunInv
    <2>9. OrderInv(t)'
      <3> SUFFICES ASSUME NEW i \in 1 .. n + 1, NEW j \in 1 .. n + 1, i < j
                   PROVE  LET g == sent'[t][i]  h == sent'[t][j] IN
                          /\ h.event \in Published => g.event \notin {e}
                          /\ h.event \in Published /\ g.event \in Published => Before(g.event, h.event)
                          /\ g.event \in failed \cup skipped
                             /\ h.event \in Published \cup {e} => ~SameTransaction(g, h)
        BY <1>0, <1>2, <1>5, <2>5 DEF OrderInv, SameTransaction
      <3>1. i \in 1 .. n /\ sent'[t][i] = sent[t][i]
        BY <1>2
      <3>2. CASE j = n + 1
        BY <3>1, <3>2, <1>2, <1>3, <1>4, <1>5, <1>10 DEF SameTransaction, Done
      <3>3. CASE j \in 1 .. n
        BY <3>1, <3>3, <1>2, <1>4 DEF EmissionInv, OrderInv
      <3> QED
        BY <3>2, <3>3, <1>2
    <2> QED
      BY <1>0, <1>5, <1>7, <1>8, <1>9, <2>2, <2>4, <2>7, <2>8, <2>9, OneEmitter
  <1>11. CASE open[t] # <<>>
    <2> DEFINE m == Len(hooks[t])
    <2>1. /\ running' = running /\ hooks'[t] = Append(hooks[t], hook)
          /\ hooks' = [hooks EXCEPT ![t] = Append(@, hook)]
      BY <1>11 DEF Send, EmissionInv, EmissionTypeOK, hook
    <2>2. /\ m \in Nat /\ DOMAIN hooks[t] = 1 .. m /\ DOMAIN hooks'[t] = 1 .. m + 1
          /\ hooks'[t] \in Seq(Hook)
          /\ \A i \in 1 .. m : hooks'[t][i] = hooks[t][i]
          /\ hooks'[t][m + 1] = hook
      <3>1. PICK q \in Seq(Hook) : q = hooks[t]
        BY DEF EmissionInv, EmissionTypeOK
      <3>2. /\ Len(q) \in Nat /\ DOMAIN q = 1 .. Len(q) /\ DOMAIN Append(q, hook) = 1 .. Len(q) + 1
            /\ Append(q, hook) \in Seq(Hook)
            /\ \A i \in 1 .. Len(q) : Append(q, hook)[i] = q[i]
            /\ Append(q, hook)[Len(q) + 1] = hook
        BY <1>1, <3>1
      <3> QED
        BY <2>1, <3>1, <3>2
    <2> HIDE DEF m
    <2>3. EmissionTypeOK'
      <3>1. hooks' \in [Emitter -> Seq(Hook)] /\ sent' \in [Emitter -> Seq(Hook)]
        BY <2>1, <2>2, <1>0, <1>2 DEF EmissionInv, EmissionTypeOK
      <3> QED
        BY <1>0, <2>1, <3>1 DEF EmissionInv, EmissionTypeOK
    <2>4. \A k \in 1 .. m : hooks[t][k].event # e
      BY <1>4, <2>2 DEF EmissionInv, WaitInv
    <2>5. WaitInv(t)'
      <3> SUFFICES ASSUME NEW k \in 1 .. m + 1
                   PROVE  /\ open[t] # <<>>
                          /\ Elements(hooks'[t][k].within) \cap undone[t] = {}
                          /\ \E i \in 1 .. n + 1 : hooks'[t][k] = sent'[t][i]
                          /\ \A i, j \in 1 .. n + 1 : hooks'[t][k] = sent'[t][i] /\ i <= j =>
                                sent'[t][j].within # <<>> /\ sent'[t][j].within[1] = open[t][1]
                          /\ \A l \in 1 .. m + 1 : \A i, j \in 1 .. n + 1 :
                                k < l /\ hooks'[t][k] = sent'[t][i] /\ hooks'[t][l] = sent'[t][j] => i < j
        <4>1. DOMAIN hooks'[t] = 1 .. m + 1 /\ DOMAIN sent'[t] = 1 .. n + 1
              /\ open' = open /\ undone' = undone
          BY <1>0, <1>2, <2>2
        <4> QED
          BY <4>1 DEF WaitInv
      <3>0. k \in 1 .. m \/ k = m + 1
        BY <2>2
      <3>1. CASE k = m + 1
        <4>1. hooks'[t][k] = hook /\ n + 1 \in 1 .. n + 1 /\ sent'[t][n + 1] = hook
          BY <3>1, <1>2, <2>2
        <4>2. Elements(open[t]) \cap undone[t] = {}
          BY DEF EmissionInv, BlockInv, Elements
        <4>3. \A i \in 1 .. n + 1 : hook = sent'[t][i] => i = n + 1
          BY <1>2, <1>3, <1>4
        <4>4. \A l \in 1 .. m + 1 : ~(k < l)
          BY <3>1, <2>2
        <4>5. \A j \in 1 .. n + 1 : n + 1 <= j => j = n + 1
          BY <1>2
        <4> QED
          BY <4>1, <4>2, <4>3, <4>4, <4>5, <1>3, <1>11
      <3>2. CASE k \in 1 .. m
        <4>1. hooks'[t][k] = hooks[t][k] /\ k \in DOMAIN hooks[t]
          BY <3>2, <2>2
        <4>2. WaitInv(t)
          BY DEF EmissionInv
        <4>3. Elements(hooks[t][k].within) \cap undone[t] = {}
          BY <4>1, <4>2 DEF WaitInv
        <4>4. \A i \in 1 .. n + 1 : hooks[t][k] = sent'[t][i] => i \in 1 .. n /\ sent'[t][i] = sent[t][i]
          BY <1>2, <1>3, <2>4, <3>2
        <4>5. PICK i \in 1 .. n : hooks[t][k] = sent[t][i]
          BY <4>1, <4>2, <1>2 DEF WaitInv
        <4>6. \A h \in 1 .. n : \A j \in 1 .. n + 1 : hooks[t][k] = sent[t][h] /\ h <= j =>
                 sent'[t][j].within # <<>> /\ sent'[t][j].within[1] = open[t][1]
          <5> SUFFICES ASSUME NEW h \in 1 .. n, NEW j \in 1 .. n + 1, hooks[t][k] = sent[t][h], h <= j
                       PROVE  sent'[t][j].within # <<>> /\ sent'[t][j].within[1] = open[t][1]
            OBVIOUS
          <5>1. CASE j = n + 1
            BY <5>1, <1>2, <1>3, <1>11
          <5>2. CASE j \in 1 .. n
            <6>1. sent'[t][j] = sent[t][j] /\ h \in DOMAIN sent[t] /\ j \in DOMAIN sent[t]
              BY <5>2, <1>2
            <6>2. hooks[t][k] = sent[t][h] /\ h <= j
              OBVIOUS
            <6> QED
              BY <6>1, <6>2, <4>1, <4>2 DEF WaitInv
          <5> QED
            BY <5>1, <5>2, <1>2
        <4>7. ASSUME NEW l \in 1 .. m + 1, NEW h \in 1 .. n, NEW j \in 1 .. n + 1,
                     k < l, hooks[t][k] = sent[t][h], hooks'[t][l] = sent'[t][j]
              PROVE  h < j
          <5>1. CASE j = n + 1
            BY <5>1, <1>2
          <5>2. CASE j \in 1 .. n
            <6>1. sent'[t][j] = sent[t][j] /\ h \in DOMAIN sent[t] /\ j \in DOMAIN sent[t]
              BY <5>2, <1>2
            <6>2. l # m + 1
              BY <6>1, <4>7, <1>3, <1>4, <2>2
            <6>3. l \in DOMAIN hooks[t] /\ hooks'[t][l] = hooks[t][l]
              BY <6>2, <2>2
            <6> QED
              BY <6>1, <6>3, <4>1, <4>2, <4>7 DEF WaitInv
          <5> QED
            BY <5>1, <5>2, <1>2
        <4>8. i \in 1 .. n + 1 /\ sent'[t][i] = sent[t][i]
          BY <1>2
        <4>9. \A h, j \in 1 .. n + 1 : hooks'[t][k] = sent'[t][h] /\ h <= j =>
                 sent'[t][j].within # <<>> /\ sent'[t][j].within[1] = open[t][1]
          BY <4>1, <4>4, <4>6
        <4>10. \A l \in 1 .. m + 1 : \A h, j \in 1 .. n + 1 :
                  k < l /\ hooks'[t][k] = sent'[t][h] /\ hooks'[t][l] = sent'[t][j] => h < j
          BY <4>1, <4>4, <4>7
        <4>11. Elements(hooks'[t][k].within) \cap undone[t] = {}
               /\ \E h \in 1 .. n + 1 : hooks'[t][k] = sent'[t][h]
          BY <4>1, <4>3, <4>5, <4>8
        <4> QED
          BY <1>11, <4>9, <4>10, <4>11
      <3> QED
        BY <3>0, <3>1, <3>2
    <2>6. PlaceInv(t)'
      <3> SUFFICES ASSUME NEW i \in 1 .. n + 1
                   PROVE  \/ \E k \in 1 .. m + 1 : hooks'[t][k] = sent'[t][i]
                          \/ Elements(sent'[t][i].within) \cap undone[t] # {}
                          \/ Kept(t, sent'[t][i]) /\ sent'[t][i].event \in Done \cup Elements(running[t])
        BY <1>0, <1>2, <1>5, <1>6, <2>1, <2>2 DEF PlaceInv
      <3>1. CASE i = n + 1
        BY <3>1, <1>2, <2>2
      <3>2. CASE i \in 1 .. n
        <4>1. \A k \in 1 .. m : k \in 1 .. m + 1
          BY <2>2
        <4> QED
          BY <3>2, <4>1, <1>2, <2>2 DEF EmissionInv, PlaceInv
      <3> QED
        BY <3>1, <3>2, <1>2
    <2>7. RunInv(t)'
      BY <1>0, <2>1 DEF RunInv
    <2>8. OrderInv(t)'
      <3> SUFFICES ASSUME NEW i \in 1 .. n + 1, NEW j \in 1 .. n + 1, i < j
                   PROVE  LET g == sent'[t][i]  h == sent'[t][j] IN
                          /\ h.event \in Published /\ g.event \in Published => Before(g.event, h.event)
                          /\ g.event \in failed \cup skipped /\ h.event \in Published => ~SameTransaction(g, h)
        BY <1>0, <1>2, <1>5, <2>1 DEF OrderInv, SameTransaction, Elements
      <3>1. i \in 1 .. n /\ sent'[t][i] = sent[t][i]
        BY <1>2
      <3>2. CASE j = n + 1
        BY <3>1, <3>2, <1>2, <1>3, <1>5 DEF Done
      <3>3. CASE j \in 1 .. n
        BY <3>1, <3>3, <1>2 DEF EmissionInv, OrderInv
      <3> QED
        BY <3>2, <3>3, <1>2
    <2> QED
      BY <1>0, <1>5, <1>7, <1>8, <1>9, <2>1, <2>3, <2>5, <2>6, <2>7, <2>8, OneEmitter
  <1> QED
    BY <1>10, <1>11

\* An event whose hook is to run was sent by that thread, and is kept.
LEMMA RunningKept ==
    ASSUME EmissionInv, NEW t \in Emitter, NEW k \in DOMAIN running[t],
           NEW u \in Emitter, NEW i \in DOMAIN sent[u], sent[u][i].event = running[t][k]
    PROVE  u = t /\ Kept(t, sent[t][i])
  BY DEF EmissionInv, RunInv, SentOnce

\* The hook that is to run, and those after it.
LEMMA RunningFacts ==
    ASSUME EmissionInv, NEW t \in Emitter, running[t] # <<>>
    PROVE  /\ Head(running[t]) \in Event /\ Head(running[t]) = running[t][1]
           /\ Tail(running[t]) \in Seq(Event)
           /\ 1 \in DOMAIN running[t]
           /\ Head(running[t]) \notin Done
           /\ \A k \in DOMAIN Tail(running[t]) :
                 /\ k + 1 \in DOMAIN running[t] /\ 1 < k + 1 /\ k \in Nat
                 /\ Tail(running[t])[k] = running[t][k + 1]
                 /\ Tail(running[t])[k] # Head(running[t])
           /\ Elements(running[t]) = {Head(running[t])} \cup Elements(Tail(running[t]))
  <1>1. PICK r \in Seq(Event) : r = running[t]
    BY DEF EmissionInv, EmissionTypeOK
  <1>2. /\ r # <<>> /\ Len(r) \in Nat /\ Len(r) # 0 /\ DOMAIN r = 1 .. Len(r)
        /\ Head(r) = r[1] /\ Tail(r) \in Seq(Event) /\ Len(Tail(r)) = Len(r) - 1
        /\ DOMAIN Tail(r) = 1 .. Len(r) - 1
        /\ \A k \in 1 .. Len(r) - 1 : Tail(r)[k] = r[k + 1]
    BY <1>1
  <1>3. 1 \in DOMAIN r /\ Head(r) \in Event
    BY <1>2
  <1>4. \A k \in DOMAIN Tail(r) : k + 1 \in DOMAIN r /\ 1 < k + 1 /\ k \in Nat /\ Tail(r)[k] = r[k + 1]
    BY <1>2
  <1>5. RunInv(t)
    BY DEF EmissionInv
  <1>6. Head(r) \notin Done
    BY <1>1, <1>2, <1>3, <1>5 DEF RunInv
  <1>7. ASSUME NEW k \in DOMAIN Tail(r) PROVE Tail(r)[k] # Head(r)
    <2>1. PICK i \in DOMAIN sent[t] : sent[t][i].event = r[1]
      BY <1>1, <1>3, <1>5 DEF RunInv
    <2>2. ~(i < i)
      BY DEF EmissionInv, EmissionTypeOK
    <2>3. 1 \in DOMAIN running[t] /\ k + 1 \in DOMAIN running[t] /\ 1 < k + 1
      BY <1>1, <1>3, <1>4
    <2> QED
      BY <1>1, <1>2, <1>4, <1>5, <2>1, <2>2, <2>3 DEF RunInv
  <1>8. Elements(r) = {Head(r)} \cup Elements(Tail(r))
    <2>1. ASSUME NEW k \in DOMAIN r, k # 1 PROVE k - 1 \in DOMAIN Tail(r) /\ Tail(r)[k - 1] = r[k]
      BY <2>1, <1>2
    <2>2. \A k \in DOMAIN Tail(r) : Tail(r)[k] \in Elements(r)
      BY <1>4 DEF Elements
    <2> QED
      BY <1>2, <1>3, <2>1, <2>2 DEF Elements
  <1> QED
    BY <1>1, <1>2, <1>3, <1>4, <1>6, <1>7, <1>8

LEMMA RunHookStep ==
    ASSUME EmissionInv, NEW t \in Emitter, RunHook(t)
    PROVE  EmissionInv'
  <1>e. PICK e : e = Head(running[t])
    OBVIOUS
  <1>0. /\ running[t] # <<>>
        /\ open' = open /\ entered' = entered /\ undone' = undone /\ hooks' = hooks /\ sent' = sent
        /\ log' = Append(log, e) /\ failed' = failed /\ skipped' = skipped /\ faults' = faults
        /\ running'[t] = Tail(running[t]) /\ running' = [running EXCEPT ![t] = Tail(@)]
        /\ \A u \in Emitter \ {t} : running'[u] = running[u]
    BY <1>e DEF RunHook, EmissionInv, EmissionTypeOK, Idle, blocks
  <1>1. /\ e \in Event /\ e = running[t][1] /\ Tail(running[t]) \in Seq(Event)
        /\ 1 \in DOMAIN running[t] /\ e \notin Done
        /\ \A k \in DOMAIN running'[t] :
              /\ k + 1 \in DOMAIN running[t] /\ 1 < k + 1 /\ k \in Nat
              /\ running'[t][k] = running[t][k + 1] /\ running'[t][k] # e
        /\ Elements(running[t]) = {e} \cup Elements(running'[t])
    BY <1>0, <1>e, RunningFacts
  <1>2. /\ log \in Seq(Event) /\ Len(log) \in Nat
        /\ DOMAIN log = 1 .. Len(log) /\ DOMAIN log' = 1 .. Len(log) + 1
        /\ \A i \in DOMAIN log : i \in DOMAIN log' /\ log'[i] = log[i] /\ i < Len(log) + 1
        /\ Len(log) + 1 \in DOMAIN log' /\ log'[Len(log) + 1] = e
        /\ \A i \in DOMAIN log' : i \in DOMAIN log \/ i = Len(log) + 1
        /\ log' \in Seq(Event)
    BY <1>0, <1>1 DEF EmissionInv, EmissionTypeOK
  <1>3. Published' = Published \cup {e} /\ Done' = Done \cup {e} /\ (failed \cup skipped)' = failed \cup skipped
    <2>1. Published' = Published \cup {e}
      BY <1>2 DEF Published, Elements
    <2> QED
      BY <2>1, <1>0 DEF Done
  <1>4. \A d, f : Before(d, f) => Before(d, f)'
    BY <1>2 DEF Before
  <1>5. \A d \in Published : Before(d, e)'
    <2> SUFFICES ASSUME NEW d, NEW i \in DOMAIN log, log[i] = d PROVE Before(d, e)'
      BY DEF Published, Elements
    <2> QED
      BY <1>2 DEF Before
  <1>6. \A u \in Emitter : \A h : Kept(u, h)' <=> Kept(u, h)
    BY <1>0 DEF Kept
  <1>7. EmissionTypeOK'
    BY <1>0, <1>1, <1>2 DEF EmissionInv, EmissionTypeOK
  <1>8. SentOnce'
    BY <1>0 DEF EmissionInv, SentOnce
  <1>9. DoneInv'
    <2>1. PICK i \in DOMAIN sent[t] : sent[t][i].event = e
      BY <1>1 DEF EmissionInv, RunInv
    <2>2. e \in Sent
      BY <2>1 DEF Sent, Events
    <2>3. \A k, l \in DOMAIN log' : k # l => log'[k] # log'[l]
      BY <1>1, <1>2 DEF EmissionInv, DoneInv, Done, Published, Elements
    <2>4. ASSUME NEW u \in Emitter, NEW j \in DOMAIN sent[u], sent[u][j].event \in Done \cup {e}
          PROVE  Kept(u, sent[u][j])
      BY <2>4, <1>1, RunningKept DEF EmissionInv, DoneInv
    <2>5. Published' \cap (failed \cup skipped)' = {}
      BY <1>1, <1>3 DEF EmissionInv, DoneInv, Done
    <2>6. Done' \subseteq Sent'
      BY <1>0, <1>3, <2>2 DEF EmissionInv, DoneInv, Sent
    <2>7. \A u \in Emitter : \A j \in DOMAIN sent'[u] :
             (sent[u][j].event \in Done => Kept(u, sent[u][j]))'
      BY <2>4, <1>0, <1>3, <1>6
    <2> QED
      BY <2>3, <2>5, <2>6, <2>7 DEF DoneInv
  <1>10. BlockInv(t)' /\ WaitInv(t)'
    BY <1>0 DEF EmissionInv, BlockInv, WaitInv
  <1>11. PlaceInv(t)'
    BY <1>0, <1>1, <1>3, <1>6 DEF EmissionInv, PlaceInv
  <1>12. RunInv(t)
    BY DEF EmissionInv
  <1>13. RunInv(t)'
    <2> SUFFICES ASSUME NEW k \in DOMAIN running'[t]
                 PROVE  /\ running'[t][k] \notin Done \cup {e}
                        /\ \E i \in DOMAIN sent[t] : sent[t][i].event = running'[t][k] /\ Kept(t, sent[t][i])
                        /\ \A l \in DOMAIN running'[t] : \A i, j \in DOMAIN sent[t] :
                              k < l /\ sent[t][i].event = running'[t][k] /\ sent[t][j].event = running'[t][l]
                                 => i < j
      BY <1>0, <1>3, <1>6 DEF RunInv
    <2>1. k + 1 \in DOMAIN running[t] /\ running'[t][k] = running[t][k + 1] /\ running'[t][k] # e
      BY <1>1
    <2>2. \A l \in DOMAIN running'[t] : k < l => k + 1 < l + 1 /\ l + 1 \in DOMAIN running[t]
                                                 /\ running'[t][l] = running[t][l + 1]
      BY <1>1
    <2> QED
      BY <1>12, <2>1, <2>2 DEF RunInv
  <1>14. OrderInv(t)'
    <2> SUFFICES ASSUME NEW i \in DOMAIN sent[t], NEW j \in DOMAIN sent[t], i < j
                 PROVE  LET g == sent[t][i]  h == sent[t][j] IN
                        /\ h.event \in Published \cup {e} => g.event \notin Elements(running'[t])
                        /\ h.event \in Published \cup {e} /\ g.event \in Published \cup {e} =>
                              Before(g.event, h.event)'
                        /\ g.event \in failed \cup skipped
                           /\ h.event \in Published \cup {e} \cup Elements(running'[t]) => ~SameTransaction(g, h)
      BY <1>0, <1>3 DEF OrderInv, SameTransaction, Before
    <2>1. i # j /\ ~(j < i)
      BY DEF EmissionInv, EmissionTypeOK
    <2>2. OrderInv(t)
      BY DEF EmissionInv
    <2>3. sent[t][j].event = e => sent[t][i].event \notin Elements(running'[t])
      BY <1>1, <1>12, <2>1 DEF RunInv, Elements
    <2>4. sent[t][i].event = e => sent[t][j].event # e
      BY <2>1 DEF EmissionInv, SentOnce
    <2>5. sent[t][i].event = e => sent[t][j].event \notin Published
      BY <2>2, <1>1 DEF OrderInv, Elements
    <2>6. sent[t][j].event \in Published => sent[t][i].event \notin Elements(running'[t])
      BY <2>2, <1>1 DEF OrderInv
    <2>7. sent[t][j].event \in Published \cup {e} /\ sent[t][i].event \in Published \cup {e} =>
             Before(sent[t][i].event, sent[t][j].event)'
      <3>1. PICK d, f : d = sent[t][i].event /\ f = sent[t][j].event
        OBVIOUS
      <3>2. d \in Published /\ f \in Published => Before(d, f)
        BY <2>2, <3>1 DEF OrderInv
      <3>3. d \in Published \cup {e} /\ f \in Published \cup {e} => Before(d, f)'
        BY <2>4, <2>5, <1>4, <1>5, <3>1, <3>2
      <3> QED
        BY <1>0, <3>1, <3>3
    <2>8. sent[t][i].event \in failed \cup skipped
          /\ sent[t][j].event \in Published \cup {e} \cup Elements(running'[t]) =>
             ~SameTransaction(sent[t][i], sent[t][j])
      BY <2>2, <1>1 DEF OrderInv
    <2> QED
      BY <2>3, <2>6, <2>7, <2>8
  <1>15. \A u \in Emitter \ {t} : \A i \in DOMAIN sent[u] : sent[u][i].event # e
    BY <1>1, RunningKept
  <1> QED
    BY <1>0, <1>3, <1>4, <1>7, <1>8, <1>9, <1>10, <1>11, <1>13, <1>14, <1>15, OneEmitter

LEMMA HookRaisesStep ==
    ASSUME EmissionInv, NEW t \in Emitter, HookRaises(t)
    PROVE  EmissionInv'
  <1>0. /\ running[t] # <<>>
        /\ open' = open /\ entered' = entered /\ undone' = undone /\ hooks' = hooks /\ sent' = sent
        /\ log' = log /\ failed' = failed \cup {Head(running[t])}
        /\ skipped' = skipped \cup Elements(Tail(running[t]))
        /\ faults \in 0 .. MaxFaults /\ faults > 0 /\ faults' = faults - 1
        /\ running'[t] = <<>> /\ running' = [running EXCEPT ![t] = <<>>]
        /\ \A u \in Emitter \ {t} : running'[u] = running[u]
    BY DEF HookRaises, EmissionInv, EmissionTypeOK, Idle, blocks
  <1>1. Elements(running[t]) = {Head(running[t])} \cup Elements(Tail(running[t]))
        /\ Elements(running[t]) \subseteq Event
    <2>1. running[t] \in Seq(Event)
      BY DEF EmissionInv, EmissionTypeOK
    <2>2. Elements(running[t]) \subseteq Event
      BY <2>1 DEF Elements
    <2> QED
      BY <1>0, <2>2, RunningFacts
  <1>2. /\ Published' = Published /\ Done' = Done \cup Elements(running[t])
        /\ failed' \cup skipped' = failed \cup skipped \cup Elements(running[t])
        /\ \A d, h : Before(d, h) <=> Before(d, h)'
    BY <1>0, <1>1 DEF Done, Published, Before
  <1>3. \A u \in Emitter : \A h : Kept(u, h)' <=> Kept(u, h)
    BY <1>0 DEF Kept
  <1>4. Elements(running[t]) \cap Done = {}
    BY DEF EmissionInv, RunInv, Elements
  <1>5. EmissionTypeOK'
    <2>1. faults' \in 0 .. MaxFaults
      BY <1>0, BlocksAssumption
    <2>2. failed' \subseteq Event /\ skipped' \subseteq Event
      BY <1>0, <1>1 DEF EmissionInv, EmissionTypeOK
    <2>3. running' \in [Emitter -> Seq(Event)]
      BY <1>0 DEF EmissionInv, EmissionTypeOK
    <2> QED
      BY <1>0, <2>1, <2>2, <2>3 DEF EmissionInv, EmissionTypeOK
  <1>6. SentOnce'
    BY <1>0 DEF EmissionInv, SentOnce
  <1>7. DoneInv'
    <2>1. Elements(running[t]) \subseteq Sent
      BY DEF EmissionInv, RunInv, Elements, Sent, Events
    <2>2. ASSUME NEW u \in Emitter, NEW j \in DOMAIN sent[u],
                 sent[u][j].event \in Done \cup Elements(running[t])
          PROVE  Kept(u, sent[u][j])
      BY <2>2, RunningKept DEF EmissionInv, DoneInv, Elements
    <2>3. \A u \in Emitter : \A j \in DOMAIN sent'[u] :
             (sent[u][j].event \in Done => Kept(u, sent[u][j]))'
      BY <2>2, <1>0, <1>2, <1>3
    <2>4. Published' \cap (failed' \cup skipped') = {}
      BY <1>2, <1>4 DEF EmissionInv, DoneInv, Done
    <2>5. Done' \subseteq Sent'
      BY <1>0, <1>2, <2>1 DEF EmissionInv, DoneInv, Sent
    <2> QED
      BY <1>0, <2>3, <2>4, <2>5 DEF EmissionInv, DoneInv
  <1>8. BlockInv(t)' /\ WaitInv(t)'
    BY <1>0 DEF EmissionInv, BlockInv, WaitInv
  <1>9. PlaceInv(t)'
    BY <1>0, <1>2, <1>3 DEF EmissionInv, PlaceInv
  <1>10. RunInv(t)'
    BY <1>0 DEF RunInv
  <1>11. OrderInv(t)'
    <2> SUFFICES ASSUME NEW i \in DOMAIN sent[t], NEW j \in DOMAIN sent[t], i < j
                 PROVE  LET g == sent[t][i]  h == sent[t][j] IN
                        /\ h.event \in Published /\ g.event \in Published => Before(g.event, h.event)
                        /\ g.event \in failed \cup skipped \cup Elements(running[t]) /\ h.event \in Published =>
                              ~SameTransaction(g, h)
      BY <1>0, <1>2 DEF OrderInv, SameTransaction, Elements
    <2> QED
      BY DEF EmissionInv, OrderInv
  <1>12. \A u \in Emitter \ {t} : \A i \in DOMAIN sent[u] : sent[u][i].event \notin Elements(running[t])
    BY RunningKept DEF Elements
  <1> QED
    BY <1>0, <1>2, <1>5, <1>6, <1>7, <1>8, <1>9, <1>10, <1>11, <1>12, OneEmitter

LEMMA StutterStep == EmissionInv /\ UNCHANGED emission => EmissionInv'
  <1> SUFFICES ASSUME EmissionInv, UNCHANGED emission PROVE EmissionInv'
    OBVIOUS
  <1>0. /\ open' = open /\ entered' = entered /\ undone' = undone /\ hooks' = hooks /\ sent' = sent
        /\ running' = running /\ log' = log /\ failed' = failed /\ skipped' = skipped /\ faults' = faults
    BY DEF emission, blocks
  <1>1. Published' = Published /\ Done' = Done /\ Sent' = Sent
        /\ (\A d, h : Before(d, h)' <=> Before(d, h)) /\ \A u \in Emitter : \A h : Kept(u, h)' <=> Kept(u, h)
    BY <1>0 DEF Published, Done, Sent, Before, Kept
  <1>2. EmissionTypeOK' /\ SentOnce'
    BY <1>0 DEF EmissionInv, EmissionTypeOK, SentOnce
  <1>3. DoneInv'
    BY <1>0, <1>1 DEF EmissionInv, DoneInv
  <1>4. ASSUME NEW t \in Emitter
        PROVE  (BlockInv(t) /\ WaitInv(t) /\ PlaceInv(t) /\ RunInv(t) /\ OrderInv(t))'
    BY <1>0, <1>1, OthersKept DEF EmissionInv
  <1> QED
    BY <1>2, <1>3, <1>4 DEF EmissionInv

LEMMA EmissionStep == EmissionInv /\ [EmissionNext]_emission => EmissionInv'
  BY EnterStep, CommitStep, RollBackStep, SendStep, RunHookStep, HookRaisesStep, StutterStep
     DEF EmissionNext, Write

\* A step of the process is a step of the threads that send, or leaves them as they are.
LEMMA ProcessStep == [Next]_vars => [EmissionNext]_emission
  BY DEF Next, vars, Publish, EmissionNext, Write

LEMMA ProcessEmissionInv == Spec => []EmissionInv
  <1>1. Init => EmissionInv
    BY InitEmissionInv DEF Init
  <1>2. EmissionInv /\ [Next]_vars => EmissionInv'
    BY EmissionStep, ProcessStep
  <1> QED
    BY <1>1, <1>2, PTL DEF Spec

LEMMA InvImpliesCommitted == EmissionInv => PublishedIffCommitted
  <1> SUFFICES ASSUME EmissionInv, NEW t \in Emitter, NEW i \in DOMAIN sent[t]
               PROVE  IF Kept(t, sent[t][i])
                      THEN sent[t][i].event \in Published \cup Elements(running[t]) \cup failed \cup skipped
                      ELSE sent[t][i].event \notin Published
    BY DEF PublishedIffCommitted, EmissionInv, DoneInv
  <1>1. i <= i
    BY DEF EmissionInv, EmissionTypeOK
  <1>2. CASE Kept(t, sent[t][i])
    <2>1. ~\E k \in DOMAIN hooks[t] : hooks[t][k] = sent[t][i]
      BY <1>1, <1>2, WaitingIsOpen
    <2>2. Elements(sent[t][i].within) \cap undone[t] = {}
      BY <1>2 DEF Kept
    <2> QED
      BY <1>2, <2>1, <2>2 DEF EmissionInv, PlaceInv, Done
  <1>3. CASE ~Kept(t, sent[t][i])
    BY <1>3 DEF EmissionInv, DoneInv, Done
  <1> QED
    BY <1>2, <1>3

\* What is published was sent in blocks that were all committed, and only once; what
\* was so committed is published, about to be, or a hook raised (signals.py, send()).
THEOREM PublishedIsCommitted == Spec => []PublishedIffCommitted
  BY ProcessEmissionInv, InvImpliesCommitted, PTL

LEMMA InvImpliesOrder == EmissionInv => InSendOrder
  <1> SUFFICES ASSUME EmissionInv, NEW t \in Emitter, NEW i \in DOMAIN sent[t], NEW j \in DOMAIN sent[t],
                      i < j, sent[t][j].event \in Published, Kept(t, sent[t][i])
               PROVE  \/ Before(sent[t][i].event, sent[t][j].event)
                      \/ /\ sent[t][i].event \in failed \cup skipped
                         /\ ~SameTransaction(sent[t][i], sent[t][j])
    BY DEF InSendOrder
  <1>1. sent[t][i].event \in Published \cup Elements(running[t]) \cup failed \cup skipped
    BY InvImpliesCommitted DEF PublishedIffCommitted
  <1> QED
    BY <1>1 DEF EmissionInv, OrderInv

\* A thread's events are published in the order it sent them, and of a transaction
\* nothing after the first that failed (signals.py, send()).
THEOREM PublishedInSendOrder == Spec => []InSendOrder
  BY ProcessEmissionInv, InvImpliesOrder, PTL

-------------------------------------------------------------------------------
(* The broker and the threads that consume *)

InQueue(s, e) == e \in Elements(queue[s][TypeOf[e]])
TakenBy(c, s, e) == ServiceOf[c] = s /\ cur[c] = e

\* A queue holds published events of its type that were not delivered, in the order
\* in which they were published.
QueueInv(s, y) ==
    \A i \in DOMAIN queue[s][y] :
        /\ queue[s][y][i] \in Published
        /\ TypeOf[queue[s][y][i]] = y
        /\ delivered[s][queue[s][y][i]] = 0
        /\ \A j \in DOMAIN queue[s][y] : \A k, l \in DOMAIN log :
              i < j /\ log[k] = queue[s][y][i] /\ log[l] = queue[s][y][j] => k < l

\* The event a thread was given is in no queue of its service and in no other thread.
TakenInv(c) ==
    /\ pc[c] = "dispatch" <=> cur[c] # Bus!None
    /\ cur[c] # Bus!None =>
          /\ cur[c] \in Published
          /\ delivered[ServiceOf[c]][cur[c]] = 0
          /\ ~InQueue(ServiceOf[c], cur[c])
          /\ \A d \in Consumer : TakenBy(d, ServiceOf[c], cur[c]) => d = c

DeliveredInv ==
    \A s \in Service, e \in Event :
        delivered[s][e] \in {0, 1} /\ (delivered[s][e] = 1 => e \in Published)

\* What is due was published, and is in a queue, in a thread or delivered.
DueInv ==
    \A s \in Service, e \in Event : <<s, e>> \in due =>
        /\ e \in Published
        /\ InQueue(s, e) \/ (\E c \in Consumer : TakenBy(c, s, e)) \/ delivered[s][e] = 1

\* A service with one thread is given nothing before what is due and was published earlier.
ServedInv(s) ==
    OneThread(s) =>
        \A k, l \in DOMAIN log :
            /\ k < l /\ TypeOf[log[k]] = TypeOf[log[l]] /\ <<s, log[k]>> \in due /\ <<s, log[l]>> \in due
            /\ delivered[s][log[l]] = 1 \/ \E c \in Consumer : TakenBy(c, s, log[l])
            => delivered[s][log[k]] = 1

BusInv ==
    /\ Bus!TypeOK
    /\ at = [c \in Consumer |-> at[c]]
    /\ \A s \in Service, y \in Type : QueueInv(s, y)
    /\ \A c \in Consumer : TakenInv(c)
    /\ DeliveredInv
    /\ DueInv
    /\ \A s \in Service : ServedInv(s)

LEMMA InitBusInv == Init => BusInv
  <1> SUFFICES ASSUME Init PROVE BusInv
    OBVIOUS
  <1>1. log = <<>> /\ Published = {}
    BY DEF Init, EmissionInit, Published, Elements
  <1>2. Bus!TypeOK
    <2>1. \A c \in Consumer : 1 \in DOMAIN TypesOf[c]
      BY BusAssumption DEF Bus!Parameters
    <2> QED
      BY <1>1, <2>1, BusAssumption DEF Init, Bus!Init, Bus!TypeOK, Bus!NoQueues, Bus!Parameters
  <1>3. \A s \in Service, y \in Type : QueueInv(s, y)
    BY DEF Init, Bus!Init, Bus!NoQueues, QueueInv
  <1> QED
    BY <1>1, <1>2, <1>3 DEF Init, Bus!Init, BusInv, TakenInv, DeliveredInv, DueInv, ServedInv

LEMMA PublishStep ==
    ASSUME BusInv, EmissionTypeOK, NEW e \in Event, log' = Append(log, e), Bus!Publish(e)
    PROVE  BusInv'
  <1>0. /\ e \notin Published
        /\ Published' = Published \cup {e}
        /\ subscribed' = subscribed /\ pc' = pc /\ at' = at /\ cur' = cur
        /\ delivered' = delivered /\ resets' = resets
        /\ due' = due \cup (Bus!Listening(e) \X {e})
    BY DEF Bus!Publish, Bus!consumers
  <1>1. /\ log \in Seq(Event) /\ Len(log) \in Nat
        /\ \A k \in DOMAIN log : k \in Nat /\ k < Len(log) + 1 /\ log'[k] = log[k]
        /\ \A k \in DOMAIN log' : k \in DOMAIN log \/ (k = Len(log) + 1 /\ log'[k] = e)
    BY DEF EmissionTypeOK
  <1>2. \A k \in DOMAIN log : log[k] \in Published
    BY DEF Published, Elements
  <1>3. TypeOf[e] \in Type /\ Bus!None \notin Event
    BY BusAssumption DEF Bus!Parameters
  <1>4. ASSUME NEW s \in Service, NEW y \in Type
        PROVE  /\ queue'[s][y] = queue[s][y] \/ (/\ y = TypeOf[e] /\ s \in Bus!Listening(e)
                                                 /\ queue'[s][y] = Append(queue[s][y], e))
               /\ y = TypeOf[e] /\ s \in Bus!Listening(e) => queue'[s][y] = Append(queue[s][y], e)
               /\ queue[s][y] \in Seq(Event)
               /\ queue'[s][y] \in Seq(Event)
    <2>1. queue[s] \in [Type -> Seq(Event)]
      BY DEF BusInv, Bus!TypeOK
    <2>2. queue'[s] = IF s \in Bus!Listening(e) THEN [queue[s] EXCEPT ![TypeOf[e]] = Append(@, e)] ELSE queue[s]
      BY DEF Bus!Publish
    <2>3. queue'[s][y] = IF s \in Bus!Listening(e) /\ y = TypeOf[e] THEN Append(queue[s][y], e) ELSE queue[s][y]
      BY <2>1, <2>2
    <2>4. PICK q \in Seq(Event) : q = queue[s][y]
      BY <2>1
    <2>5. Append(q, e) \in Seq(Event)
      OBVIOUS
    <2> QED
      BY <2>3, <2>4, <2>5
  <1>5. ASSUME NEW s \in Service, NEW y \in Type, queue'[s][y] = Append(queue[s][y], e)
        PROVE  /\ \A i \in DOMAIN queue[s][y] : /\ i \in DOMAIN queue'[s][y] /\ queue'[s][y][i] = queue[s][y][i]
                                                /\ i \in Nat /\ i < Len(queue[s][y]) + 1
               /\ Len(queue[s][y]) + 1 \in DOMAIN queue'[s][y] /\ Len(queue[s][y]) \in Nat
               /\ queue'[s][y][Len(queue[s][y]) + 1] = e
               /\ \A i \in DOMAIN queue'[s][y] : i \in DOMAIN queue[s][y] \/ i = Len(queue[s][y]) + 1
    <2>1. PICK q \in Seq(Event) : q = queue[s][y]
      BY <1>4
    <2>2. /\ Len(q) \in Nat /\ DOMAIN q = 1 .. Len(q) /\ DOMAIN Append(q, e) = 1 .. Len(q) + 1
          /\ \A i \in 1 .. Len(q) : Append(q, e)[i] = q[i]
          /\ Append(q, e)[Len(q) + 1] = e
      OBVIOUS
    <2>3. \A i \in 1 .. Len(q) : i \in 1 .. Len(q) + 1 /\ i \in Nat /\ i < Len(q) + 1
      BY <2>2
    <2>4. \A i \in 1 .. Len(q) + 1 : i \in 1 .. Len(q) \/ i = Len(q) + 1
      BY <2>2
    <2>5. Len(q) + 1 \in 1 .. Len(q) + 1
      BY <2>2
    <2> QED
      BY <1>5, <2>1, <2>2, <2>3, <2>4, <2>5
  <1>6. \A s \in Service, y \in Type :
           /\ Elements(queue'[s][y]) \subseteq Elements(queue[s][y]) \cup {e}
           /\ Elements(queue[s][y]) \subseteq Elements(queue'[s][y])
           /\ y = TypeOf[e] /\ s \in Bus!Listening(e) => e \in Elements(queue'[s][y])
    <2> SUFFICES ASSUME NEW s \in Service, NEW y \in Type
                 PROVE  /\ Elements(queue'[s][y]) \subseteq Elements(queue[s][y]) \cup {e}
                        /\ Elements(queue[s][y]) \subseteq Elements(queue'[s][y])
                        /\ y = TypeOf[e] /\ s \in Bus!Listening(e) => e \in Elements(queue'[s][y])
      OBVIOUS
    <2>1. CASE queue'[s][y] = Append(queue[s][y], e)
      BY <2>1, <1>5 DEF Elements
    <2>2. CASE queue'[s][y] # Append(queue[s][y], e)
      BY <2>2, <1>4 DEF Elements
    <2> QED
      BY <2>1, <2>2
  <1>7. Bus!TypeOK'
    <2>1. queue' \in [Service -> [Type -> Seq(Event)]]
      <3>1. ASSUME NEW s \in Service
            PROVE  queue'[s] \in [Type -> Seq(Event)]
        <4>1. queue[s] \in [Type -> Seq(Event)]
          BY DEF BusInv, Bus!TypeOK
        <4>2. DOMAIN queue'[s] = Type /\ queue'[s] = [y \in Type |-> queue'[s][y]]
          BY <4>1 DEF Bus!Publish
        <4> QED
          BY <4>2, <1>4
      <3>2. queue' = [s \in Service |-> queue'[s]]
        BY DEF Bus!Publish
      <3> QED
        BY <3>1, <3>2
    <2>2. \A s \in Service : \A y \in Type \ subscribed[s] : queue'[s][y] = <<>>
      <3> SUFFICES ASSUME NEW s \in Service, NEW y \in Type \ subscribed[s] PROVE queue'[s][y] = <<>>
        OBVIOUS
      <3>1. queue[s][y] = <<>>
        BY DEF BusInv, Bus!TypeOK
      <3>2. ~(y = TypeOf[e] /\ s \in Bus!Listening(e))
        BY DEF Bus!Listening
      <3> QED
        BY <1>4, <3>1, <3>2
    <2>3. due' \subseteq Service \X Event /\ Published' \subseteq Event
      BY <1>0 DEF BusInv, Bus!TypeOK, Bus!Listening
    <2> QED
      BY <1>0, <2>1, <2>2, <2>3 DEF BusInv, Bus!TypeOK
  <1>8. ASSUME NEW s \in Service, NEW y \in Type PROVE QueueInv(s, y)'
    <2> DEFINE m == Len(queue[s][y])
    <2>0. QueueInv(s, y)
      BY DEF BusInv
    <2>1. ASSUME NEW i \in DOMAIN queue[s][y]
          PROVE  /\ queue[s][y][i] \in Published /\ TypeOf[queue[s][y][i]] = y
                 /\ delivered[s][queue[s][y][i]] = 0
                 /\ \A k \in DOMAIN log' : log'[k] = queue[s][y][i] => k \in DOMAIN log /\ log[k] = log'[k]
      BY <2>0, <1>0, <1>1 DEF QueueInv
    <2>2. CASE queue'[s][y] = queue[s][y]
      BY <2>0, <2>1, <2>2, <1>0 DEF QueueInv
    <2>3. CASE y = TypeOf[e] /\ queue'[s][y] = Append(queue[s][y], e)
      <3> SUFFICES ASSUME NEW i \in DOMAIN queue'[s][y]
                   PROVE  /\ queue'[s][y][i] \in Published'
                          /\ TypeOf[queue'[s][y][i]] = y
                          /\ delivered[s][queue'[s][y][i]] = 0
                          /\ \A j \in DOMAIN queue'[s][y] : \A k, l \in DOMAIN log' :
                                i < j /\ log'[k] = queue'[s][y][i] /\ log'[l] = queue'[s][y][j] => k < l
        BY <1>0 DEF QueueInv
      <3>0. m \in Nat /\ \A j \in DOMAIN queue'[s][y] : j \in DOMAIN queue[s][y] \/ j = m + 1
        BY <1>5, <2>3
      <3> HIDE DEF m
      <3>1. CASE i \in DOMAIN queue[s][y]
        <4>1. queue'[s][y][i] = queue[s][y][i]
          BY <1>5, <2>3, <3>1
        <4>2. ASSUME NEW j \in DOMAIN queue'[s][y], NEW k \in DOMAIN log', NEW l \in DOMAIN log',
                     i < j, log'[k] = queue'[s][y][i], log'[l] = queue'[s][y][j]
              PROVE  k < l
          <5>1. k \in DOMAIN log /\ log[k] = queue[s][y][i]
            BY <2>1, <3>1, <4>1, <4>2
          <5>2. CASE j \in DOMAIN queue[s][y]
            <6>1. queue'[s][y][j] = queue[s][y][j]
              BY <1>5, <2>3, <5>2
            <6>2. l \in DOMAIN log /\ log[l] = queue[s][y][j]
              BY <2>1, <5>2, <6>1, <4>2
            <6> QED
              BY <2>0, <3>1, <4>2, <5>1, <5>2, <6>2 DEF QueueInv
          <5>3. CASE j = m + 1
            <6>1. log'[l] = e
              BY <4>2, <5>3, <1>5, <2>3 DEF m
            <6>2. l = Len(log) + 1
              BY <6>1, <1>0, <1>1, <1>2
            <6> QED
              BY <5>1, <6>2, <1>1
          <5> QED
            BY <3>0, <5>2, <5>3
        <4> QED
          BY <2>1, <3>1, <4>1, <4>2, <1>0
      <3>2. CASE i = m + 1
        <4>1. queue'[s][y][i] = e
          BY <3>2, <1>5, <2>3 DEF m
        <4>2. delivered[s][e] = 0
          BY <1>0 DEF BusInv, DeliveredInv
        <4>3. ASSUME NEW j \in DOMAIN queue'[s][y], i < j PROVE FALSE
          <5>1. \A h \in DOMAIN queue[s][y] : h \in Nat /\ h < m + 1
            BY <1>5, <2>3 DEF m
          <5>2. m + 1 \in Nat /\ ~(m + 1 < m + 1)
            BY <3>0
          <5> QED
            BY <3>0, <3>2, <4>3, <5>1, <5>2
        <4> QED
          BY <4>1, <4>2, <4>3, <2>3, <1>0
      <3> QED
        BY <3>0, <3>1, <3>2
    <2> QED
      BY <1>4, <2>2, <2>3
  <1>9. ASSUME NEW c \in Consumer PROVE TakenInv(c)'
    <2>1. ASSUME cur[c] # Bus!None PROVE ~InQueue(ServiceOf[c], cur[c])'
      <3>1. cur[c] \in Published /\ ~InQueue(ServiceOf[c], cur[c])
        BY <2>1 DEF BusInv, TakenInv
      <3>2. cur[c] # e /\ TypeOf[cur[c]] \in Type /\ ServiceOf[c] \in Service
        BY <1>0, <3>1, BusAssumption DEF BusInv, Bus!TypeOK, Bus!Parameters
      <3> QED
        BY <1>0, <1>6, <3>1, <3>2 DEF InQueue
    <2> QED
      BY <1>0, <2>1 DEF BusInv, TakenInv, TakenBy
  <1>10. DeliveredInv'
    BY <1>0 DEF BusInv, DeliveredInv
  <1>11. DueInv'
    <2> SUFFICES ASSUME NEW s \in Service, NEW f \in Event, <<s, f>> \in due'
                 PROVE  /\ f \in Published'
                        /\ InQueue(s, f)' \/ (\E c \in Consumer : TakenBy(c, s, f)) \/ delivered[s][f] = 1
      BY <1>0 DEF DueInv, TakenBy
    <2>1. TypeOf[f] \in Type
      BY BusAssumption DEF Bus!Parameters
    <2>2. CASE <<s, f>> \in due
      BY <2>1, <2>2, <1>0, <1>6 DEF BusInv, DueInv, InQueue
    <2>3. CASE s \in Bus!Listening(e) /\ f = e
      BY <2>1, <2>3, <1>0, <1>6 DEF InQueue
    <2> QED
      BY <2>2, <2>3, <1>0
  <1>12. ASSUME NEW s \in Service PROVE ServedInv(s)'
    <2>1. delivered[s][e] # 1 /\ ~\E c \in Consumer : TakenBy(c, s, e)
      BY <1>0, <1>3 DEF BusInv, DeliveredInv, TakenInv, TakenBy
    <2>2. OneThread(s)' <=> OneThread(s)
      BY DEF OneThread
    <2>3. ServedInv(s)
      BY DEF BusInv
    <2> SUFFICES ASSUME OneThread(s), NEW k \in DOMAIN log', NEW l \in DOMAIN log',
                        k < l, TypeOf[log'[k]] = TypeOf[log'[l]],
                        <<s, log'[k]>> \in due', <<s, log'[l]>> \in due',
                        delivered[s][log'[l]] = 1 \/ \E c \in Consumer : TakenBy(c, s, log'[l])
                 PROVE  delivered[s][log'[k]] = 1
      BY <1>0, <2>2 DEF ServedInv, TakenBy
    <2>4. l \in DOMAIN log /\ log'[l] = log[l]
      BY <2>1, <1>1
    <2>5. k \in DOMAIN log /\ log'[k] = log[k]
      BY <2>4, <1>1
    <2>6. <<s, log[k]>> \in due /\ <<s, log[l]>> \in due
      BY <2>4, <2>5, <1>0, <1>2
    <2> QED
      BY <2>3, <2>4, <2>5, <2>6 DEF ServedInv
  <1> QED
    BY <1>0, <1>7, <1>8, <1>9, <1>10, <1>11, <1>12 DEF BusInv

\* A step that moves no event.
LEMMA NothingMoved ==
    ASSUME BusInv, log' = log, queue' = queue, cur' = cur, delivered' = delivered, due' = due,
           Bus!TypeOK', at' = [c \in Consumer |-> at'[c]],
           \A c \in Consumer : pc'[c] = "dispatch" <=> pc[c] = "dispatch"
    PROVE  BusInv'
  <1>0. Published' = Published /\ (\A s, e : InQueue(s, e)' <=> InQueue(s, e))
        /\ \A c, s, e : TakenBy(c, s, e)' <=> TakenBy(c, s, e)
    BY DEF Published, InQueue, TakenBy
  <1>1. \A s \in Service, y \in Type : QueueInv(s, y)'
    BY <1>0 DEF BusInv, QueueInv
  <1>2. \A c \in Consumer : TakenInv(c)'
    BY <1>0 DEF BusInv, TakenInv, TakenBy, InQueue
  <1>3. DeliveredInv' /\ DueInv'
    BY <1>0 DEF BusInv, DeliveredInv, DueInv
  <1>4. \A s \in Service : ServedInv(s)'
    BY <1>0 DEF BusInv, ServedInv, OneThread, TakenBy
  <1> QED
    BY <1>1, <1>2, <1>3, <1>4 DEF BusInv

LEMMA ListenStep ==
    ASSUME BusInv, log' = log, NEW c \in Consumer, Bus!Listen(c)
    PROVE  BusInv'
  <1>0. /\ queue' = queue /\ at' = at /\ cur' = cur /\ delivered' = delivered /\ due' = due
        /\ resets' = resets /\ pc[c] = "absent" /\ pc' = [pc EXCEPT ![c] = "loop"]
        /\ subscribed' = [subscribed EXCEPT ![ServiceOf[c]] = @ \cup Bus!Types(c)]
        /\ pc \in [Consumer -> {"absent", "loop", "dispatch", "KeyError"}]
        /\ subscribed \in [Service -> SUBSET Type]
    BY DEF Bus!Listen, BusInv, Bus!TypeOK
  <1>1. Bus!Types(c) \subseteq Type
    BY BusAssumption DEF Bus!Parameters, Bus!Types
  <1>2. subscribed' \in [Service -> SUBSET Type] /\ \A s \in Service : subscribed[s] \subseteq subscribed'[s]
    BY <1>0, <1>1
  <1>3. Published' = Published
    BY DEF Published
  <1>4. Bus!TypeOK'
    BY <1>0, <1>2, <1>3 DEF BusInv, Bus!TypeOK
  <1> QED
    BY <1>0, <1>4, NothingMoved DEF BusInv

LEMMA NoQueueStep ==
    ASSUME BusInv, log' = log, NEW c \in Consumer, Bus!NoQueue(c)
    PROVE  BusInv'
  <1>0. /\ queue' = queue /\ at' = at /\ cur' = cur /\ delivered' = delivered /\ due' = due
        /\ resets' = resets /\ pc[c] = "loop" /\ pc' = [pc EXCEPT ![c] = "KeyError"]
        /\ subscribed' = subscribed /\ Published' = Published
        /\ pc \in [Consumer -> {"absent", "loop", "dispatch", "KeyError"}]
    BY DEF Bus!NoQueue, BusInv, Bus!TypeOK, Published
  <1>1. Bus!TypeOK'
    BY <1>0 DEF BusInv, Bus!TypeOK
  <1> QED
    BY <1>0, <1>1, NothingMoved DEF BusInv

\* The loop stays within the types of its thread.
LEMMA NextTypeInRange ==
    ASSUME BusInv, NEW c \in Consumer, Bus!TakeNextType(c)
    PROVE  /\ \A d \in Consumer : at'[d] \in DOMAIN TypesOf[d]
           /\ at' = [d \in Consumer |-> at'[d]]
  <1>1. PICK q \in Seq(Type) : q = TypesOf[c]
    BY BusAssumption DEF Bus!Parameters
  <1>2. at[c] \in DOMAIN q
    BY <1>1 DEF BusInv, Bus!TypeOK
  <1>3. (IF at[c] = Len(q) THEN 1 ELSE at[c] + 1) \in DOMAIN q
    BY <1>2
  <1>4. at'[c] = (IF at[c] = Len(q) THEN 1 ELSE at[c] + 1) /\ \A d \in Consumer \ {c} : at'[d] = at[d]
    BY <1>1 DEF BusInv, Bus!TakeNextType
  <1> QED
    BY <1>1, <1>3, <1>4 DEF BusInv, Bus!TypeOK, Bus!TakeNextType

LEMMA EmptyStep ==
    ASSUME BusInv, log' = log, NEW c \in Consumer, Bus!Empty(c)
    PROVE  BusInv'
  <1>0. /\ queue' = queue /\ pc' = pc /\ cur' = cur /\ delivered' = delivered /\ due' = due
        /\ resets' = resets /\ subscribed' = subscribed /\ Published' = Published
        /\ Bus!TakeNextType(c)
    BY DEF Bus!Empty, Published
  <1>1. Bus!TypeOK'
    BY <1>0, NextTypeInRange DEF BusInv, Bus!TypeOK
  <1> QED
    BY <1>0, <1>1, NextTypeInRange, NothingMoved

LEMMA BusStutterStep ==
    ASSUME BusInv, log' = log, UNCHANGED bus
    PROVE  BusInv'
  <1>0. /\ queue' = queue /\ pc' = pc /\ at' = at /\ cur' = cur /\ delivered' = delivered /\ due' = due
        /\ resets' = resets /\ subscribed' = subscribed /\ Published' = Published
    BY DEF bus, Published
  <1>1. Bus!TypeOK'
    BY <1>0 DEF BusInv, Bus!TypeOK
  <1> QED
    BY <1>0, <1>1, NothingMoved DEF BusInv

LEMMA DispatchStep ==
    ASSUME BusInv, log' = log, NEW c \in Consumer, Bus!Dispatch(c)
    PROVE  BusInv'
  <1>1. PICK s \in Service, e \in Event : s = ServiceOf[c] /\ e = cur[c] /\ e # Bus!None
    BY BusAssumption DEF Bus!Dispatch, BusInv, TakenInv, Bus!TypeOK, Bus!Parameters
  <1>2. /\ e \in Published /\ delivered[s][e] = 0 /\ ~InQueue(s, e)
        /\ \A d \in Consumer : TakenBy(d, s, e) => d = c
        /\ TakenBy(c, s, e)
    BY <1>1 DEF BusInv, TakenInv, TakenBy
  <1>3. /\ queue' = queue /\ at' = at /\ due' = due /\ resets' = resets /\ subscribed' = subscribed
        /\ Published' = Published /\ pc[c] = "dispatch"
        /\ cur' = [cur EXCEPT ![c] = Bus!None] /\ pc' = [pc EXCEPT ![c] = "loop"]
        /\ delivered' = [delivered EXCEPT ![s][e] = IF @ < 2 THEN @ + 1 ELSE @]
        /\ delivered \in [Service -> [Event -> 0 .. 2]]
        /\ cur \in [Consumer -> Event \cup {Bus!None}]
        /\ pc \in [Consumer -> {"absent", "loop", "dispatch", "KeyError"}]
    BY <1>1 DEF Bus!Dispatch, BusInv, Bus!TypeOK, Published
  <1>4. /\ delivered' \in [Service -> [Event -> 0 .. 2]]
        /\ delivered'[s][e] = 1
        /\ \A r \in Service, f \in Event : r # s \/ f # e => delivered'[r][f] = delivered[r][f]
    BY <1>2, <1>3
  <1>5. /\ cur'[c] = Bus!None /\ pc'[c] = "loop"
        /\ \A d \in Consumer \ {c} : cur'[d] = cur[d] /\ pc'[d] = pc[d]
    BY <1>3
  <1>6. Bus!None \notin Event
    BY BusAssumption DEF Bus!Parameters
  <1>7. Bus!TypeOK'
    BY <1>3, <1>4 DEF BusInv, Bus!TypeOK
  <1>8. \A r \in Service, f \in Event : \A d \in Consumer :
           (TakenBy(d, r, f)' => TakenBy(d, r, f))
           /\ (TakenBy(d, r, f) => TakenBy(d, r, f)' \/ (r = s /\ f = e))
    BY <1>1, <1>5, <1>6 DEF TakenBy
  <1>9. ASSUME NEW r \in Service, NEW y \in Type PROVE QueueInv(r, y)'
    <2>1. QueueInv(r, y) /\ queue[r][y] \in Seq(Event)
      BY DEF BusInv, Bus!TypeOK
    <2>2. \A i \in DOMAIN queue[r][y] : queue[r][y][i] \in Event /\ (r # s \/ queue[r][y][i] # e)
      BY <1>2, <2>1 DEF QueueInv, InQueue, Elements
    <2>3. \A i \in DOMAIN queue[r][y] : delivered'[r][queue[r][y][i]] = delivered[r][queue[r][y][i]]
      BY <1>4, <2>2
    <2> QED
      BY <1>3, <2>1, <2>3 DEF QueueInv
  <1>10. ASSUME NEW d \in Consumer PROVE TakenInv(d)'
    <2>1. CASE d = c
      BY <2>1, <1>5 DEF TakenInv
    <2>2. CASE d # c
      <3>1. TakenInv(d) /\ cur'[d] = cur[d] /\ pc'[d] = pc[d] /\ ServiceOf[d] \in Service
            /\ (cur[d] # Bus!None => cur[d] \in Event)
        BY <2>2, <1>3, <1>5, BusAssumption DEF BusInv, Bus!Parameters
      <3>2. cur[d] # Bus!None => ServiceOf[d] # s \/ cur[d] # e
        BY <2>2, <1>2 DEF TakenBy
      <3>3. cur[d] # Bus!None => delivered'[ServiceOf[d]][cur[d]] = 0
        BY <3>1, <3>2, <1>4 DEF TakenInv
      <3>4. cur[d] # Bus!None => ~InQueue(ServiceOf[d], cur[d])'
        BY <3>1, <1>3 DEF TakenInv, InQueue
      <3>5. cur[d] # Bus!None =>
               \A h \in Consumer : ServiceOf[h] = ServiceOf[d] /\ cur'[h] = cur[d] => h = d
        BY <3>1, <1>5 DEF TakenInv, TakenBy
      <3> QED
        BY <3>1, <3>3, <3>4, <3>5, <1>3 DEF TakenInv, TakenBy
    <2> QED
      BY <2>1, <2>2
  <1>11. DeliveredInv'
    BY <1>2, <1>3, <1>4 DEF BusInv, DeliveredInv
  <1>12. DueInv'
    <2> SUFFICES ASSUME NEW r \in Service, NEW f \in Event, <<r, f>> \in due
                 PROVE  /\ f \in Published
                        /\ InQueue(r, f) \/ (\E d \in Consumer : TakenBy(d, r, f)') \/ delivered'[r][f] = 1
      BY <1>3 DEF DueInv, InQueue
    <2> QED
      BY <1>4, <1>8 DEF BusInv, DueInv
  <1>13. ASSUME NEW r \in Service PROVE ServedInv(r)'
    <2>1. ServedInv(r)
      BY DEF BusInv
    <2>2. \A k \in DOMAIN log : <<r, log[k]>> \in due => log[k] \in Event
      BY DEF BusInv, Bus!TypeOK
    <2>3. \A k \in DOMAIN log : <<r, log[k]>> \in due =>
             /\ delivered[r][log[k]] = 1 => delivered'[r][log[k]] = 1
             /\ delivered'[r][log[k]] = 1 => delivered[r][log[k]] = 1 \/ TakenBy(c, r, log[k])
             /\ \A d \in Consumer : TakenBy(d, r, log[k])' => TakenBy(d, r, log[k])
      <3> SUFFICES ASSUME NEW k \in DOMAIN log, <<r, log[k]>> \in due
                   PROVE  /\ delivered[r][log[k]] = 1 => delivered'[r][log[k]] = 1
                          /\ delivered'[r][log[k]] = 1 => delivered[r][log[k]] = 1 \/ TakenBy(c, r, log[k])
                          /\ \A d \in Consumer : TakenBy(d, r, log[k])' => TakenBy(d, r, log[k])
        OBVIOUS
      <3>1. PICK f \in Event : f = log[k]
        BY <2>2
      <3>2. /\ delivered[r][f] = 1 => delivered'[r][f] = 1
            /\ delivered'[r][f] = 1 => delivered[r][f] = 1 \/ TakenBy(c, r, f)
        BY <1>2, <1>4
      <3>3. \A d \in Consumer : TakenBy(d, r, f)' => TakenBy(d, r, f)
        BY <1>8
      <3> QED
        BY <3>1, <3>2, <3>3 DEF TakenBy
    <2> QED
      BY <1>3, <2>1, <2>3 DEF ServedInv, OneThread
  <1> QED
    BY <1>3, <1>7, <1>9, <1>10, <1>11, <1>12, <1>13 DEF BusInv

\* A thread takes the oldest event e of type y of its service.
TakesHead(c, s, y, e) ==
    /\ s = ServiceOf[c] /\ TypeOf[e] = y
    /\ queue[s][y] # <<>> /\ e = queue[s][y][1] /\ 1 \in DOMAIN queue[s][y]
    /\ pc[c] = "loop" /\ cur[c] = Bus!None
    /\ cur'[c] = e /\ pc'[c] = "dispatch"
    /\ cur' = [cur EXCEPT ![c] = e] /\ pc' = [pc EXCEPT ![c] = "dispatch"]
    /\ queue' \in [Service -> [Type -> Seq(Event)]]
    /\ \A r \in Service, z \in Type : r # s \/ z # y => queue'[r][z] = queue[r][z]
    /\ \A i \in DOMAIN queue'[s][y] :
          /\ i + 1 \in DOMAIN queue[s][y] /\ i \in Nat /\ queue'[s][y][i] = queue[s][y][i + 1]
    /\ Elements(queue[s][y]) = {e} \cup Elements(queue'[s][y])

\* The queue that a thread looks at loses its oldest event.
LEMMA GetFacts ==
    ASSUME BusInv, NEW c \in Consumer, Bus!Get(c)
    PROVE  \E s \in Service, y \in Type, e \in Event : TakesHead(c, s, y, e)
  <1>1. PICK s \in Service : s = ServiceOf[c]
    BY BusAssumption DEF Bus!Parameters
  <1>2. PICK y \in Type : y = Bus!Looked(c)
    <2>1. TypesOf[c] \in Seq(Type) /\ at[c] \in DOMAIN TypesOf[c]
      BY BusAssumption DEF Bus!Parameters, BusInv, Bus!TypeOK
    <2> QED
      BY <2>1 DEF Bus!Looked
  <1>3. PICK q \in Seq(Event) : q = queue[s][y]
    BY DEF BusInv, Bus!TypeOK
  <1>4. /\ pc[c] = "loop" /\ q # <<>>
        /\ cur' = [cur EXCEPT ![c] = Head(q)] /\ pc' = [pc EXCEPT ![c] = "dispatch"]
        /\ queue' = [queue EXCEPT ![s][y] = Tail(@)]
    BY <1>1, <1>2, <1>3 DEF Bus!Get
  <1>5. /\ Len(q) \in Nat /\ Len(q) # 0 /\ DOMAIN q = 1 .. Len(q)
        /\ Head(q) = q[1] /\ Tail(q) \in Seq(Event) /\ DOMAIN Tail(q) = 1 .. Len(q) - 1
        /\ \A i \in 1 .. Len(q) - 1 : Tail(q)[i] = q[i + 1]
    BY <1>3, <1>4
  <1>6. 1 \in DOMAIN q /\ q[1] \in Event
    BY <1>5
  <1>7. \A i \in DOMAIN Tail(q) : i + 1 \in DOMAIN q /\ i \in Nat /\ Tail(q)[i] = q[i + 1]
    BY <1>5
  <1>8. Elements(q) = {q[1]} \cup Elements(Tail(q))
    <2>1. ASSUME NEW k \in DOMAIN q, k # 1 PROVE k - 1 \in DOMAIN Tail(q) /\ Tail(q)[k - 1] = q[k]
      BY <2>1, <1>5
    <2>2. \A k \in DOMAIN Tail(q) : Tail(q)[k] \in Elements(q)
      BY <1>7 DEF Elements
    <2> QED
      <3>1. Elements(q) \subseteq {q[1]} \cup Elements(Tail(q))
        BY <2>1 DEF Elements
      <3>2. q[1] \in Elements(q)
        BY <1>6 DEF Elements
      <3>3. Elements(Tail(q)) \subseteq Elements(q)
        BY <2>2 DEF Elements
      <3> QED
        BY <3>1, <3>2, <3>3
  <1>9. queue \in [Service -> [Type -> Seq(Event)]] /\ cur \in [Consumer -> Event \cup {Bus!None}]
        /\ pc \in [Consumer -> {"absent", "loop", "dispatch", "KeyError"}]
    BY DEF BusInv, Bus!TypeOK
  <1>10. /\ queue'[s][y] = Tail(q) /\ queue' \in [Service -> [Type -> Seq(Event)]]
         /\ \A r \in Service, z \in Type : r # s \/ z # y => queue'[r][z] = queue[r][z]
    BY <1>3, <1>4, <1>5, <1>9
  <1>11. TypeOf[q[1]] = y
    BY <1>3, <1>6 DEF BusInv, QueueInv
  <1>12. cur[c] = Bus!None
    BY <1>4 DEF BusInv, TakenInv
  <1>13. cur'[c] = q[1] /\ pc'[c] = "dispatch"
    BY <1>4, <1>5, <1>9
  <1>14. PICK e \in Event : e = q[1]
    BY <1>6
  <1>15. /\ cur' = [cur EXCEPT ![c] = e] /\ pc' = [pc EXCEPT ![c] = "dispatch"]
    BY <1>4, <1>5, <1>14
  <1>16. TakesHead(c, s, y, e)
    BY <1>1, <1>3, <1>4, <1>6, <1>7, <1>8, <1>10, <1>11, <1>12, <1>13, <1>14, <1>15
       DEF TakesHead
  <1> QED
    BY <1>16

LEMMA GetStep ==
    ASSUME BusInv, log' = log, log \in Seq(Event), \A i, j \in DOMAIN log : i # j => log[i] # log[j],
           NEW c \in Consumer, Bus!Get(c)
    PROVE  BusInv'
  <1>p. PICK s \in Service, y \in Type, e \in Event : TakesHead(c, s, y, e)
    BY GetFacts
  <1>1. /\ s = ServiceOf[c] /\ TypeOf[e] = y
        /\ queue[s][y] # <<>> /\ e = queue[s][y][1] /\ 1 \in DOMAIN queue[s][y]
        /\ pc[c] = "loop" /\ cur[c] = Bus!None
        /\ cur'[c] = e /\ pc'[c] = "dispatch"
        /\ cur' = [cur EXCEPT ![c] = e] /\ pc' = [pc EXCEPT ![c] = "dispatch"]
        /\ queue' \in [Service -> [Type -> Seq(Event)]]
        /\ \A r \in Service, z \in Type : r # s \/ z # y => queue'[r][z] = queue[r][z]
        /\ \A i \in DOMAIN queue'[s][y] :
              /\ i + 1 \in DOMAIN queue[s][y] /\ i \in Nat /\ queue'[s][y][i] = queue[s][y][i + 1]
        /\ Elements(queue[s][y]) = {e} \cup Elements(queue'[s][y])
    BY <1>p DEF TakesHead
  <1>2. /\ delivered' = delivered /\ due' = due /\ resets' = resets /\ subscribed' = subscribed
        /\ Published' = Published /\ Bus!TakeNextType(c)
        /\ cur \in [Consumer -> Event \cup {Bus!None}]
        /\ pc \in [Consumer -> {"absent", "loop", "dispatch", "KeyError"}]
    BY DEF Bus!Get, BusInv, Bus!TypeOK, Published
  <1>3. \A d \in Consumer \ {c} : cur'[d] = cur[d] /\ pc'[d] = pc[d]
    BY <1>1, <1>2
  <1>4. QueueInv(s, y) /\ e \in Published /\ delivered[s][e] = 0 /\ InQueue(s, e) /\ e # Bus!None
    BY <1>1, BusAssumption DEF BusInv, QueueInv, InQueue, Elements, Bus!Parameters
  <1>5. \A k, l \in DOMAIN log : \A j \in DOMAIN queue[s][y] :
           log[k] = e /\ log[l] = queue[s][y][j] /\ j # 1 => k < l
    <2> SUFFICES ASSUME NEW k \in DOMAIN log, NEW l \in DOMAIN log, NEW j \in DOMAIN queue[s][y],
                        log[k] = e, log[l] = queue[s][y][j], j # 1
                 PROVE  k < l
      OBVIOUS
    <2>1. queue[s][y] \in Seq(Event)
      BY DEF BusInv, Bus!TypeOK
    <2>2. 1 < j
      BY <2>1
    <2> QED
      BY <2>2, <1>1, <1>4 DEF QueueInv
  <1>6. ~InQueue(s, e)'
    <2> SUFFICES ASSUME NEW i \in DOMAIN queue'[s][y], queue'[s][y][i] = e PROVE FALSE
      BY <1>1 DEF InQueue, Elements
    <2>1. i + 1 \in DOMAIN queue[s][y] /\ queue[s][y][i + 1] = e /\ i + 1 # 1
      <3>1. i \in Nat /\ i + 1 \in DOMAIN queue[s][y] /\ queue[s][y][i + 1] = e
        BY <1>1
      <3>2. queue[s][y] \in Seq(Event)
        BY DEF BusInv, Bus!TypeOK
      <3>3. i # 0
        BY <1>1, <3>2 DEF BusInv, Bus!TypeOK
      <3> QED
        BY <3>1, <3>3
    <2>2. PICK k \in DOMAIN log : log[k] = e
      BY <1>4 DEF Published, Elements
    <2>3. k < k
      BY <1>5, <2>1, <2>2
    <2>4. k \in Nat
      OBVIOUS
    <2> QED
      BY <2>3, <2>4
  <1>7. \A r \in Service, f \in Event :
           /\ InQueue(r, f)' => InQueue(r, f)
           /\ InQueue(r, f) => InQueue(r, f)' \/ (r = s /\ f = e)
    <2> SUFFICES ASSUME NEW r \in Service, NEW f \in Event
                 PROVE  /\ InQueue(r, f)' => InQueue(r, f)
                        /\ InQueue(r, f) => InQueue(r, f)' \/ (r = s /\ f = e)
      OBVIOUS
    <2>1. TypeOf[f] \in Type
      BY BusAssumption DEF Bus!Parameters
    <2>2. CASE r = s /\ TypeOf[f] = y
      BY <2>2, <1>1 DEF InQueue
    <2>3. CASE r # s \/ TypeOf[f] # y
      <3>1. queue'[r][TypeOf[f]] = queue[r][TypeOf[f]]
        BY <2>1, <2>3, <1>1
      <3> QED
        BY <3>1 DEF InQueue
    <2> QED
      BY <2>2, <2>3
  <1>8. \A r \in Service, f \in Event : \A d \in Consumer :
           TakenBy(d, r, f)' <=> TakenBy(d, r, f) \/ (d = c /\ r = s /\ f = e)
    BY <1>1, <1>3, BusAssumption DEF TakenBy, Bus!Parameters
  <1>9. \A d \in Consumer : ~TakenBy(d, s, e)
    BY <1>4 DEF BusInv, TakenInv, TakenBy
  <1>10. Bus!TypeOK'
    <2>1. \A r \in Service : \A z \in Type \ subscribed[r] : queue'[r][z] = <<>>
      <3> SUFFICES ASSUME NEW r \in Service, NEW z \in Type \ subscribed[r] PROVE queue'[r][z] = <<>>
        OBVIOUS
      <3>1. queue[r][z] = <<>>
        BY DEF BusInv, Bus!TypeOK
      <3>2. r # s \/ z # y
        BY <3>1, <1>1
      <3> QED
        BY <3>1, <3>2, <1>1
    <2>2. cur' \in [Consumer -> Event \cup {Bus!None}]
          /\ pc' \in [Consumer -> {"absent", "loop", "dispatch", "KeyError"}]
      BY <1>1, <1>2
    <2>3. queue' \in [Service -> [Type -> Seq(Event)]]
      BY <1>1
    <2> QED
      BY <1>2, <2>1, <2>2, <2>3, NextTypeInRange DEF BusInv, Bus!TypeOK
  <1>11. ASSUME NEW r \in Service, NEW z \in Type PROVE QueueInv(r, z)'
    <2>1. CASE r # s \/ z # y
      <3>1. queue'[r][z] = queue[r][z] /\ QueueInv(r, z)
        BY <2>1, <1>1 DEF BusInv
      <3> QED
        BY <3>1, <1>2 DEF QueueInv
    <2>2. CASE r = s /\ z = y
      <3>1. \A i, j \in DOMAIN queue'[s][y] : i < j => i + 1 < j + 1
        BY <1>1
      <3>2. \A i \in DOMAIN queue'[s][y] :
               i + 1 \in DOMAIN queue[s][y] /\ queue'[s][y][i] = queue[s][y][i + 1]
        BY <1>1
      <3>3. QueueInv(s, y)'
        BY <1>2, <1>4, <3>1, <3>2 DEF QueueInv
      <3> QED
        BY <2>2, <3>3
    <2> QED
      BY <2>1, <2>2
  <1>12. ASSUME NEW d \in Consumer PROVE TakenInv(d)'
    <2>1. CASE d = c
      <3>1. \A h \in Consumer : TakenBy(h, s, e)' => h = c
        BY <1>8, <1>9
      <3> QED
        BY <2>1, <3>1, <1>1, <1>2, <1>4, <1>6 DEF TakenInv, TakenBy, InQueue
    <2>2. CASE d # c
      <3>1. TakenInv(d) /\ cur'[d] = cur[d] /\ pc'[d] = pc[d] /\ ServiceOf[d] \in Service
            /\ (cur[d] # Bus!None => cur[d] \in Event)
        BY <2>2, <1>2, <1>3, BusAssumption DEF BusInv, Bus!Parameters
      <3>2. cur[d] # Bus!None => ~InQueue(ServiceOf[d], cur[d])'
        <4> SUFFICES ASSUME cur[d] # Bus!None PROVE ~InQueue(ServiceOf[d], cur[d])'
          OBVIOUS
        <4>1. PICK r \in Service, f \in Event : r = ServiceOf[d] /\ f = cur[d] /\ ~InQueue(r, f)
          BY <3>1 DEF TakenInv
        <4>2. ~InQueue(r, f)'
          BY <4>1, <1>7
        <4> QED
          BY <3>1, <4>1, <4>2
      <3>3. cur[d] # Bus!None =>
               \A h \in Consumer : ServiceOf[h] = ServiceOf[d] /\ cur'[h] = cur[d] => h = d
        BY <3>1, <1>1, <1>3, <1>9, <2>2 DEF TakenInv, TakenBy
      <3> QED
        BY <3>1, <3>2, <3>3, <1>2 DEF TakenInv, TakenBy
    <2> QED
      BY <2>1, <2>2
  <1>13. DeliveredInv'
    BY <1>2 DEF BusInv, DeliveredInv
  <1>14. DueInv'
    <2> SUFFICES ASSUME NEW r \in Service, NEW f \in Event, <<r, f>> \in due
                 PROVE  /\ f \in Published
                        /\ InQueue(r, f)' \/ (\E d \in Consumer : TakenBy(d, r, f)') \/ delivered[r][f] = 1
      BY <1>2 DEF DueInv
    <2> QED
      BY <1>7, <1>8 DEF BusInv, DueInv
  <1>15. ASSUME NEW r \in Service PROVE ServedInv(r)'
    <2> SUFFICES ASSUME OneThread(r), NEW k \in DOMAIN log, NEW l \in DOMAIN log,
                        k < l, TypeOf[log[k]] = TypeOf[log[l]],
                        <<r, log[k]>> \in due, <<r, log[l]>> \in due,
                        delivered[r][log[l]] = 1 \/ \E d \in Consumer : TakenBy(d, r, log[l])'
                 PROVE  delivered[r][log[k]] = 1
      BY <1>2 DEF ServedInv, TakenBy, OneThread
    <2>1. ServedInv(r)
      BY DEF BusInv
    <2>2. PICK g \in Event, f \in Event : g = log[k] /\ f = log[l]
      BY DEF BusInv, Bus!TypeOK
    <2>3. CASE delivered[r][f] = 1 \/ \E d \in Consumer : TakenBy(d, r, f)
      BY <2>1, <2>2, <2>3 DEF ServedInv
    <2>4. CASE r = s /\ f = e
      <3>1. InQueue(s, g) \/ (\E d \in Consumer : TakenBy(d, s, g)) \/ delivered[s][g] = 1
        BY <2>2, <2>4 DEF BusInv, DueInv
      <3>2. \A d \in Consumer : ~TakenBy(d, s, g)
        <4> SUFFICES ASSUME NEW d \in Consumer, TakenBy(d, s, g) PROVE FALSE
          OBVIOUS
        <4>1. d = c
          BY <1>1, <2>4 DEF OneThread, TakenBy
        <4> QED
          BY <4>1, <1>1, BusAssumption DEF TakenBy, Bus!Parameters
      <3>3. ~InQueue(s, g)
        <4> SUFFICES ASSUME NEW j \in DOMAIN queue[s][y], queue[s][y][j] = g PROVE FALSE
          <5>1. TypeOf[g] = y
            BY <1>1, <2>2, <2>4
          <5> QED
            BY <5>1 DEF InQueue, Elements
        <4>1. k \in Nat /\ l \in Nat /\ k # l
          OBVIOUS
        <4>2. CASE j # 1
          <5>1. l < k
            BY <1>5, <2>2, <2>4, <4>2
          <5> QED
            BY <5>1, <4>1
        <4>3. CASE j = 1
          <5>1. log[k] = log[l]
            BY <4>3, <1>1, <2>2, <2>4
          <5> QED
            BY <5>1, <4>1
        <4> QED
          BY <4>2, <4>3
      <3> QED
        BY <3>1, <3>2, <3>3, <2>2, <2>4
    <2>5. delivered[r][f] = 1 \/ \E d \in Consumer : TakenBy(d, r, f)'
      BY <1>2, <2>2 DEF TakenBy
    <2> QED
      BY <1>8, <2>3, <2>4, <2>5
  <1> QED
    BY <1>2, <1>10, <1>11, <1>12, <1>13, <1>14, <1>15, NextTypeInRange DEF BusInv

LEMMA QueuedIsInQueue ==
    ASSUME BusInv, NEW s \in Service, NEW e \in Event
    PROVE  e \in Bus!Queued(s) <=> InQueue(s, e)
  <1>1. TypeOf[e] \in Type
    BY BusAssumption DEF Bus!Parameters
  <1>2. \A y \in Type : \A i \in DOMAIN queue[s][y] : TypeOf[queue[s][y][i]] = y
    BY DEF BusInv, QueueInv
  <1>3. e \in Bus!Queued(s) <=> \E y \in Type : \E i \in DOMAIN queue[s][y] : queue[s][y][i] = e
    BY DEF Bus!Queued
  <1>4. InQueue(s, e) <=> \E i \in DOMAIN queue[s][TypeOf[e]] : queue[s][TypeOf[e]][i] = e
    BY DEF InQueue, Elements
  <1> QED
    BY <1>1, <1>2, <1>3, <1>4

LEMMA ResetStep ==
    ASSUME BusInv, log' = log, Bus!Reset
    PROVE  BusInv'
  <1>1. /\ pc' = pc /\ at' = at /\ cur' = cur /\ delivered' = delivered
        /\ Published' = Published /\ resets < MaxResets /\ resets' = resets + 1
        /\ subscribed' = [s \in Service |-> {}]
        /\ queue' = [s \in Service |-> [y \in Type |-> <<>>]]
        /\ due' = {p \in due : p[2] \notin Bus!Queued(p[1])}
    BY DEF Bus!Reset, Bus!NoQueues, Bus!consumers, Published
  <1>2. \A s \in Service, y \in Type : queue'[s][y] = <<>>
    BY <1>1
  <1>3. \A s \in Service, e \in Event : ~InQueue(s, e)'
    <2>1. \A e \in Event : TypeOf[e] \in Type
      BY BusAssumption DEF Bus!Parameters
    <2> QED
      BY <1>2, <2>1 DEF InQueue, Elements
  <1>4. /\ due' \subseteq due
        /\ \A s \in Service, e \in Event : <<s, e>> \in due' => ~InQueue(s, e)
    BY <1>1, QueuedIsInQueue
  <1>5. Bus!TypeOK'
    <2>1. resets' \in 0 .. MaxResets
      BY <1>1, BusAssumption DEF BusInv, Bus!TypeOK, Bus!Parameters
    <2>2. queue' \in [Service -> [Type -> Seq(Event)]] /\ subscribed' \in [Service -> SUBSET Type]
      BY <1>1
    <2> QED
      BY <1>1, <1>2, <1>4, <2>1, <2>2 DEF BusInv, Bus!TypeOK
  <1>6. \A s \in Service, y \in Type : QueueInv(s, y)'
    BY <1>2 DEF QueueInv
  <1>7. ASSUME NEW c \in Consumer PROVE TakenInv(c)'
    <2>1. cur[c] # Bus!None => ServiceOf[c] \in Service /\ cur[c] \in Event
      BY BusAssumption DEF BusInv, Bus!TypeOK, Bus!Parameters
    <2>2. cur[c] # Bus!None => ~InQueue(ServiceOf[c], cur[c])'
      BY <1>1, <1>3, <2>1 DEF InQueue
    <2> QED
      BY <1>1, <2>2 DEF BusInv, TakenInv, TakenBy
  <1>8. DeliveredInv'
    BY <1>1 DEF BusInv, DeliveredInv
  <1>9. DueInv'
    BY <1>1, <1>4 DEF BusInv, DueInv, TakenBy
  <1>10. \A s \in Service : ServedInv(s)'
    BY <1>1, <1>4 DEF BusInv, ServedInv, TakenBy, OneThread
  <1> QED
    BY <1>1, <1>5, <1>6, <1>7, <1>8, <1>9, <1>10 DEF BusInv

LEMMA ProcessBusStep == EmissionInv /\ BusInv /\ [Next]_vars => BusInv'
  <1> SUFFICES ASSUME EmissionInv, BusInv, [Next]_vars PROVE BusInv'
    OBVIOUS
  <1>0. log \in Seq(Event) /\ \A i, j \in DOMAIN log : i # j => log[i] # log[j]
    BY DEF EmissionInv, EmissionTypeOK, DoneInv
  <1>1. ASSUME NEW t \in Emitter, Write(t) \/ HookRaises(t), UNCHANGED bus PROVE BusInv'
    <2>1. log' = log
      BY <1>1 DEF Write, Enter, Commit, RollBack, Send, HookRaises
    <2> QED
      BY <1>1, <2>1, BusStutterStep
  <1>2. ASSUME NEW t \in Emitter, Publish(t) PROVE BusInv'
    <2>1. running[t] # <<>> /\ log' = Append(log, Head(running[t])) /\ Bus!Publish(Head(running[t]))
      BY <1>2 DEF Publish, RunHook, Idle
    <2>2. Head(running[t]) \in Event
      BY <2>1, RunningFacts
    <2> QED
      BY <2>1, <2>2, PublishStep DEF EmissionInv
  <1>3. ASSUME UNCHANGED emission PROVE log' = log
    BY <1>3 DEF emission
  <1>4. ASSUME NEW c \in Consumer, UNCHANGED emission, Bus!Listen(c) \/ Bus!Step(c) PROVE BusInv'
    BY <1>0, <1>3, <1>4, ListenStep, NoQueueStep, GetStep, EmptyStep, DispatchStep DEF Bus!Step
  <1>5. ASSUME UNCHANGED emission, Bus!Reset PROVE BusInv'
    BY <1>3, <1>5, ResetStep
  <1>6. ASSUME UNCHANGED vars PROVE BusInv'
    BY <1>3, <1>6, BusStutterStep DEF vars
  <1> QED
    BY <1>1, <1>2, <1>4, <1>5, <1>6 DEF Next

LEMMA ProcessInv == Spec => [](EmissionInv /\ BusInv)
  <1>1. Init => EmissionInv /\ BusInv
    BY InitEmissionInv, InitBusInv DEF Init
  <1>2. EmissionInv /\ BusInv /\ [Next]_vars => (EmissionInv /\ BusInv)'
    BY EmissionStep, ProcessStep, ProcessBusStep
  <1> QED
    BY <1>1, <1>2, PTL DEF Spec

\* The state of the connections, of LocMemBroker and of its threads is well typed.
THEOREM TypeCorrect == Spec => []TypeOK
  BY ProcessInv, PTL DEF TypeOK, EmissionInv, BusInv

LEMMA SameCardinality == ASSUME NEW S PROVE Bus!Cardinality(S) = Cardinality(S)
  BY DEF Bus!Cardinality, Cardinality

LEMMA QueuedOnce ==
    ASSUME EmissionInv, BusInv, NEW s \in Service, NEW y \in Type,
           NEW i \in DOMAIN queue[s][y], NEW j \in DOMAIN queue[s][y],
           queue[s][y][i] = queue[s][y][j]
    PROVE  i = j
  <1>1. PICK k \in DOMAIN log : log[k] = queue[s][y][i]
    BY DEF BusInv, QueueInv, Published, Elements
  <1>2. i < j => k < k
    BY <1>1 DEF BusInv, QueueInv
  <1>3. j < i => k < k
    BY <1>1 DEF BusInv, QueueInv
  <1>4. k \in Int
    BY DEF EmissionInv, EmissionTypeOK
  <1>5. i \in Int /\ j \in Int
    BY DEF BusInv, Bus!TypeOK
  <1> QED
    BY <1>2, <1>3, <1>4, <1>5

LEMMA InvImpliesOnce == EmissionInv /\ BusInv => OncePerService
  <1> SUFFICES ASSUME EmissionInv, BusInv
               PROVE  \A s \in Service, e \in Event :
                          Bus!Places(s, e) <= 1 /\ (<<s, e>> \in due => Bus!Places(s, e) = 1)
    BY QueuedOnce DEF OncePerService, Bus!OncePerService
  <1> TAKE s \in Service, e \in Event
  <1>1. e # Bus!None
    BY BusAssumption DEF Bus!Parameters
  <1>2. \A c \in Bus!Taken(s, e) : /\ c \in Consumer /\ TakenBy(c, s, e)
                                   /\ delivered[s][e] = 0 /\ ~InQueue(s, e)
                                   /\ \A d \in Bus!Taken(s, e) : d = c
    BY <1>1 DEF BusInv, TakenInv, TakenBy, Bus!Taken
  <1>3. InQueue(s, e) => delivered[s][e] = 0
    BY BusAssumption DEF BusInv, QueueInv, InQueue, Elements, Bus!Parameters
  <1>4. delivered[s][e] \in {0, 1}
    BY DEF BusInv, DeliveredInv
  <1>7. \A n \in Nat : Cardinality(Bus!Taken(s, e)) = n =>
           Bus!Places(s, e) = (IF InQueue(s, e) THEN 1 ELSE 0) + n + delivered[s][e]
    BY QueuedIsInQueue, SameCardinality DEF Bus!Places
  <1>5. CASE Bus!Taken(s, e) = {}
    <2>1. Cardinality(Bus!Taken(s, e)) = 0
      BY <1>5, FS_EmptySet
    <2>2. <<s, e>> \in due => InQueue(s, e) \/ delivered[s][e] = 1
      BY <1>5 DEF BusInv, DueInv, TakenBy, Bus!Taken
    <2> QED
      BY <1>3, <1>4, <1>7, <2>1, <2>2
  <1>6. CASE Bus!Taken(s, e) # {}
    <2>1. PICK c \in Bus!Taken(s, e) : TRUE
      BY <1>6
    <2>2. Bus!Taken(s, e) = {c}
      BY <1>2, <2>1
    <2>3. Cardinality(Bus!Taken(s, e)) = 1
      BY <2>2, FS_Singleton
    <2>4. delivered[s][e] = 0 /\ ~InQueue(s, e)
      BY <1>2, <2>1
    <2> QED
      BY <1>7, <2>3, <2>4
  <1> QED
    BY <1>5, <1>6

\* Each service that listened has an event in one place: in its queue, in one of its
\* threads or delivered, however many threads consume (locmem.py, publish(), _consume()).
THEOREM DeliveredOnce == Spec => []OncePerService
  BY ProcessInv, InvImpliesOnce, PTL

LEMMA InvImpliesServed == EmissionInv /\ BusInv => ServedInSendOrder
  <1> SUFFICES ASSUME EmissionInv, BusInv, NEW s \in Service, NEW t \in Emitter,
                      NEW i \in DOMAIN sent[t], NEW j \in DOMAIN sent[t], i < j,
                      TypeOf[sent[t][i].event] = TypeOf[sent[t][j].event],
                      <<s, sent[t][i].event>> \in due, <<s, sent[t][j].event>> \in due, OneThread(s)
               PROVE  delivered[s][sent[t][j].event] <= delivered[s][sent[t][i].event]
    BY DEF ServedInSendOrder
  <1>1. PICK d \in Event, e \in Event : d = sent[t][i].event /\ e = sent[t][j].event
    BY DEF BusInv, Bus!TypeOK
  <1>2. d \in Published /\ e \in Published
    BY <1>1 DEF BusInv, DueInv
  <1>3. Kept(t, sent[t][i]) /\ d \notin failed \cup skipped
    BY <1>1, <1>2 DEF EmissionInv, DoneInv, Done
  <1>4. Before(d, e)
    BY <1>1, <1>2, <1>3, InvImpliesOrder DEF InSendOrder
  <1>5. PICK k \in DOMAIN log, l \in DOMAIN log : k < l /\ log[k] = d /\ log[l] = e
    BY <1>4 DEF Before
  <1>6. delivered[s][e] = 1 => delivered[s][d] = 1
    BY <1>1, <1>5 DEF BusInv, ServedInv
  <1>7. delivered[s][e] \in {0, 1} /\ delivered[s][d] \in {0, 1}
    BY DEF BusInv, DeliveredInv
  <1> QED
    BY <1>1, <1>6, <1>7

\* A service with one thread is given the events of one type in the order in which the
\* thread that sent them did, as long as nothing is reset (signals.py, send(), and
\* locmem.py, publish() and _consume()).
THEOREM GivenInSendOrder == Spec => []ServedInSendOrder
  BY ProcessInv, InvImpliesServed, PTL
===============================================================================
