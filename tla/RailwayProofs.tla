--------------------------- MODULE RailwayProofs ---------------------------
(***************************************************************************)
(* Safety of the Train's links to the Locals, for every layout of Locals,  *)
(* size of the outbox and number of connection ids, failures and restarts. *)
(*                                                                         *)
(* The invariant has three layers.  LinkInv says which connection belongs  *)
(* to whom; it needs nothing about messages.  OrderInv follows the events  *)
(* of a crossing along their way (hold, Local, sender, outbox, callback):  *)
(* they never overtake each other, although a connection id that was       *)
(* reused may bring one to another Local.  SteadyInv follows the latest    *)
(* event to a Local whose link stays up.                                   *)
(***************************************************************************)
EXTENDS RailwayLink, SequenceTheorems, TLAPS

PC == {"idle", "open", "opened", "link", "coid", "reply", "failed"}

ThreadState ==
  [pc: PC, coid: Coid \cup {NoCoid}, msg: Message \cup {NoMessage}]

\* What thread u may be in the state s.
ThreadOK(u, s) ==
  /\ s \in ThreadState
  /\ s.pc = "idle" => s = Idle
  /\ s.pc # "idle" => s.msg \in Message
  /\ s.pc \in {"coid", "reply", "opened"} => s.coid \in Coid
  /\ u # "connection" => s.pc \notin {"open", "opened"}
  /\ u # "sender" => s.msg.type = "PROBE"

ThreadInv == thread \in [Thread -> ThreadState] /\ \A u \in Thread : ThreadOK(u, thread[u])

\* The connection that the connection thread is about to store.
Opened(k) == thread["connection"].pc = "opened" /\ thread["connection"].coid = k

\* Who has which connection.
LinkInv ==
  /\ \A i \in Local : connected(i) => kernel[link[i]] \in {i, Dead}
  /\ \A i, j \in Local : i # j /\ connected(i) => link[i] # link[j]
  /\ thread["connection"].pc \in {"open", "opened"} =>
       ~connected(thread["connection"].msg.to)
  /\ \A k \in Coid : Opened(k) =>
       /\ kernel[k] \in {thread["connection"].msg.to, Dead}
       /\ \A i \in Local : link[i] # k
  /\ \A k \in Coid : kernel[k] # Free => Opened(k) \/ \E i \in Local : link[i] = k

\* m announces an event of a crossing to one of its Locals.
Announces(m) ==
  /\ m \in Message /\ m.type = "RAILWAY" /\ m.crossing \in Crossing
  /\ m.crossing = CrossingOf(m.to)
  /\ m.n <= events[m.crossing]

\* m is not of a later event than r.
Before(m, r) == m.crossing = r.crossing => m.n <= r.n

\* No Local has seen, or is handling, a later event than m.
NotLate(m) ==
  \A i \in Local :
    /\ comm[i] # NoMessage => Before(comm[i], m)
    /\ CrossingOf(i) = m.crossing => hold[i] <= m.n

Sending == thread["sender"].pc # "idle"

\* The events of a crossing keep their order.
PushInv ==
  \A k \in DOMAIN pushing :
    /\ Announces(pushing[k])
    /\ pushing[k].n = events[pushing[k].crossing]
OutboxInv ==
  \A k \in DOMAIN outbox :
    /\ Announces(outbox[k]) /\ NotLate(outbox[k])
    /\ \A j \in DOMAIN outbox : j <= k => Before(outbox[j], outbox[k])
    /\ Sending => Before(thread["sender"].msg, outbox[k])
SenderInv == Sending => Announces(thread["sender"].msg) /\ NotLate(thread["sender"].msg)
LocalInv ==
  \A i \in Local :
    /\ hold[i] <= events[CrossingOf(i)]
    /\ comm[i] # NoMessage =>
         /\ Announces(comm[i])
         /\ CrossingOf(i) = comm[i].crossing => hold[i] <= comm[i].n
OrderInv == PushInv /\ OutboxInv /\ SenderInv /\ LocalInv

\* m tells Local i its crossing's latest event.
Latest(i, m) == m.to = i /\ m.n = events[CrossingOf(i)]

\* The latest event is on its way to Local i, or Local i acted on it.
Queued(i) ==
  \/ \E k \in DOMAIN pushing : Latest(i, pushing[k])
  \/ \E k \in DOMAIN outbox : Latest(i, outbox[k])
BeingSent(i) ==
  /\ thread["sender"].pc \in {"link", "coid", "failed"}
  /\ Latest(i, thread["sender"].msg)
  /\ thread["sender"].pc = "coid" => thread["sender"].coid = link[i]
BeingHandled(i) ==
  /\ comm[i] # NoMessage
  /\ comm[i].crossing = CrossingOf(i) /\ comm[i].n = events[CrossingOf(i)]
ActedOn(i) == hold[i] = events[CrossingOf(i)]
SteadyAt(i) ==
  /\ connected(i) /\ kernel[link[i]] = i
  /\ Queued(i) \/ BeingSent(i) \/ BeingHandled(i) \/ ActedOn(i)
SteadyInv == \A i \in steady : SteadyAt(i)

\* The inductive invariant.
IInv == TypeOK /\ ThreadInv /\ LinkInv /\ OrderInv /\ SteadyInv
-----------------------------------------------------------------------------
(***************************************************************************)
(* The layout, and the messages.                                           *)
(***************************************************************************)

\* A Local belongs to one crossing, and knows which.
LEMMA Layout ==
  /\ Crossing \subseteq Int /\ Local \subseteq Int
  /\ \A i \in Local : /\ i # 0 /\ i # -1
                      /\ CrossingOf(i) \in Crossing
                      /\ i \in Range(LocalsOf[CrossingOf(i)])
  /\ \A x \in Crossing : \A i \in Range(LocalsOf[x]) : i \in Local /\ CrossingOf(i) = x
  /\ \A i \in Local, x \in Crossing : railway_matches_local(i, x) <=> CrossingOf(i) = x
<1>1. ASSUME NEW x \in Crossing, NEW i \in Range(LocalsOf[x])
      PROVE  i \in {2 * x - 1, 2 * x} /\ i \in Local /\ x \in 1 .. 3
  <2>1. LocalsOf[x] \in Seq({2 * x - 1, 2 * x}) /\ x \in 1 .. 3
    BY RailwayLinkAssumption
  <2>2. LocalsOf[x] \in [1 .. Len(LocalsOf[x]) -> {2 * x - 1, 2 * x}]
    BY <2>1, LenProperties
  <2> QED
    BY <2>1, <2>2 DEF Range, Local
<1>2. ASSUME NEW i \in Local
      PROVE  \E x \in Crossing : i \in Range(LocalsOf[x])
  BY DEF Local
<1>3. ASSUME NEW x \in Crossing, NEW i \in Range(LocalsOf[x])
      PROVE  CrossingOf(i) = x
  <2>1. \E y \in Crossing : i \in Range(LocalsOf[y])
    BY <1>3
  <2>2. CrossingOf(i) \in Crossing /\ i \in Range(LocalsOf[CrossingOf(i)])
    BY <2>1 DEF CrossingOf
  <2>3. i \in {2 * CrossingOf(i) - 1, 2 * CrossingOf(i)} /\ CrossingOf(i) \in 1 .. 3
    BY <1>1, <2>2
  <2>4. i \in {2 * x - 1, 2 * x} /\ x \in 1 .. 3
    BY <1>1, <1>3
  <2> HIDE DEF CrossingOf
  <2> QED
    BY ONLY <2>3, <2>4
<1>4. ASSUME NEW i \in Local
      PROVE  /\ CrossingOf(i) \in Crossing /\ i \in Range(LocalsOf[CrossingOf(i)])
             /\ i \in Int /\ i # 0 /\ i # -1
             /\ \A x \in Crossing : railway_matches_local(i, x) <=> CrossingOf(i) = x
  <2>1. PICK x \in Crossing : i \in Range(LocalsOf[x])
    BY <1>2
  <2>2. i \in {2 * x - 1, 2 * x} /\ x \in 1 .. 3 /\ CrossingOf(i) = x
    BY <1>1, <1>3, <2>1
  <2>3. railway_crossing_for_local(i) = x /\ i \in Int /\ i # 0 /\ i # -1
    BY ONLY <2>2 DEF railway_crossing_for_local
  <2>4. \A y \in Crossing : y # 0
    BY RailwayLinkAssumption
  <2>5. \A y \in Crossing : railway_matches_local(i, y) <=> x = y
    BY <2>3, <2>4 DEF railway_matches_local
  <2> QED
    BY <2>1, <2>2, <2>3, <2>5
<1>5. Crossing \subseteq Int
  BY RailwayLinkAssumption
<1> QED
  BY <1>1, <1>3, <1>4, <1>5

\* Messages to a Local are none of the others.
LEMMA Messages ==
  /\ NoMessage \notin Message /\ NoMessage.type = "PROBE" /\ Idle \in ThreadState
  /\ \A u \in Thread : ThreadOK(u, Idle)
  /\ \A i \in Local : Probe(i) \in Message /\ Probe(i).to = i /\ Probe(i).type = "PROBE"
<1>1. NoMessage \notin Message /\ NoMessage.type = "PROBE"
  BY Layout DEF NoMessage, Probe, Message
<1>2. Idle \in ThreadState /\ Idle.pc = "idle" /\ Idle.msg = NoMessage
  BY DEF Idle, ThreadState, PC
<1>3. \A u \in Thread : ThreadOK(u, Idle)
  BY <1>1, <1>2 DEF ThreadOK
<1>4. \A i \in Local : Probe(i) \in Message /\ Probe(i).to = i /\ Probe(i).type = "PROBE"
  BY DEF Probe, Message
<1> QED
  BY <1>1, <1>2, <1>3, <1>4

-----------------------------------------------------------------------------
(***************************************************************************)
(* What a step has to show when it leaves most things alone.               *)
(***************************************************************************)

MoveTo(s, p) == [s EXCEPT !.pc = p]
MoveWith(s, p, m) == [s EXCEPT !.pc = p, !.msg = m]
MoveOver(s, p, c) == [s EXCEPT !.pc = p, !.coid = c]

\* A thread that moves on stays a thread, with the rest of its locals.
LEMMA Fields ==
  ASSUME NEW s \in ThreadState, NEW p \in PC
  PROVE  /\ /\ MoveTo(s, p) \in ThreadState /\ MoveTo(s, p).pc = p
            /\ MoveTo(s, p).coid = s.coid /\ MoveTo(s, p).msg = s.msg
         /\ \A m \in Message :
              /\ MoveWith(s, p, m) \in ThreadState /\ MoveWith(s, p, m).pc = p
              /\ MoveWith(s, p, m).coid = s.coid /\ MoveWith(s, p, m).msg = m
         /\ \A c \in Coid \cup {NoCoid} :
              /\ MoveOver(s, p, c) \in ThreadState /\ MoveOver(s, p, c).pc = p
              /\ MoveOver(s, p, c).coid = c /\ MoveOver(s, p, c).msg = s.msg
<1>1. /\ MoveTo(s, p) \in ThreadState /\ MoveTo(s, p).pc = p
      /\ MoveTo(s, p).coid = s.coid /\ MoveTo(s, p).msg = s.msg
  BY DEF ThreadState, MoveTo
<1>2. ASSUME NEW m \in Message
      PROVE  /\ MoveWith(s, p, m) \in ThreadState /\ MoveWith(s, p, m).pc = p
             /\ MoveWith(s, p, m).coid = s.coid /\ MoveWith(s, p, m).msg = m
  <2>1. m \in Message \cup {NoMessage}
    OBVIOUS
  <2> QED
    BY <2>1 DEF ThreadState, MoveWith
<1>3. ASSUME NEW c \in Coid \cup {NoCoid}
      PROVE  /\ MoveOver(s, p, c) \in ThreadState /\ MoveOver(s, p, c).pc = p
             /\ MoveOver(s, p, c).coid = c /\ MoveOver(s, p, c).msg = s.msg
  BY DEF ThreadState, MoveOver
<1> QED
  BY <1>1, <1>2, <1>3

\* One thread moves on.
LEMMA OneThread ==
  ASSUME ThreadInv, NEW u \in Thread, NEW s, ThreadOK(u, s),
         thread' = [thread EXCEPT ![u] = s]
  PROVE  /\ ThreadInv' /\ thread'[u] = s
         /\ \A v \in Thread : v # u => thread'[v] = thread[v]
<1>1. s \in ThreadState
  BY DEF ThreadOK
<1>2. /\ thread' \in [Thread -> ThreadState] /\ thread'[u] = s
      /\ \A v \in Thread : v # u => thread'[v] = thread[v]
  BY <1>1 DEF ThreadInv
<1>3. \A v \in Thread : ThreadOK(v, thread'[v])
  BY <1>2 DEF ThreadInv
<1>4. ThreadInv'
  BY <1>2, <1>3 DEF ThreadInv, ThreadOK
<1> QED
  BY <1>2, <1>4

\* The connections stay where they are while the connection thread has none.
LEMMA LinkFrame ==
  ASSUME LinkInv, UNCHANGED <<link, kernel>>,
         \/ thread'["connection"] = thread["connection"]
         \/ /\ thread["connection"].pc # "opened" /\ thread'["connection"].pc # "opened"
            /\ thread'["connection"].pc = "open" =>
                 link[thread'["connection"].msg.to] = NoCoid
  PROVE  LinkInv'
<1>1. CASE thread'["connection"] = thread["connection"]
  BY <1>1 DEF LinkInv, Opened, connected
<1>2. CASE /\ thread["connection"].pc # "opened" /\ thread'["connection"].pc # "opened"
           /\ thread'["connection"].pc = "open" =>
                link[thread'["connection"].msg.to] = NoCoid
  BY <1>2 DEF LinkInv, Opened, connected
<1> QED
  BY <1>1, <1>2

\* Events keep their order while nothing but the sender and the Locals that
\* are done with a message move.
LEMMA OrderFrame ==
  ASSUME OrderInv, UNCHANGED <<events, pushing, outbox>>,
         \A i \in Local : /\ comm'[i] \in {comm[i], NoMessage}
                          /\ hold'[i] = hold[i],
         thread'["sender"].pc # "idle" =>
           thread["sender"].pc # "idle" /\ thread'["sender"].msg = thread["sender"].msg
  PROVE  OrderInv'
<1>1. \A m : Announces(m)' <=> Announces(m)
  BY DEF Announces
<1>2. \A m : NotLate(m) => NotLate(m)'
  BY DEF NotLate, Before
<1>3. Sending' => Sending /\ thread'["sender"].msg = thread["sender"].msg
  BY DEF Sending
<1>4. PushInv'
  BY <1>1 DEF OrderInv, PushInv
<1>5. OutboxInv'
  BY <1>1, <1>2, <1>3 DEF OrderInv, OutboxInv, Before
<1>6. SenderInv'
  BY <1>1, <1>2, <1>3 DEF OrderInv, SenderInv
<1>7. LocalInv'
  BY <1>1 DEF OrderInv, LocalInv
<1> QED
  BY <1>4, <1>5, <1>6, <1>7 DEF OrderInv

\* A steady Local stays so while its link, its event and the way to it do.
LEMMA SteadyFrame ==
  ASSUME SteadyInv, steady' \subseteq steady, UNCHANGED <<events, pushing, outbox>>,
         \A i \in steady' : SteadyAt(i) =>
           /\ link'[i] = link[i] /\ kernel'[link[i]] = kernel[link[i]]
           /\ BeingSent(i) => BeingSent(i)' \/ BeingHandled(i)'
           /\ BeingHandled(i) => BeingHandled(i)' \/ ActedOn(i)'
           /\ ActedOn(i) => ActedOn(i)'
  PROVE  SteadyInv'
<1>1. ASSUME NEW i \in steady' PROVE SteadyAt(i)'
  <2>1. SteadyAt(i)
    BY <1>1 DEF SteadyInv
  <2>2. connected(i)' /\ kernel'[link'[i]] = i
    BY <1>1, <2>1 DEF SteadyAt, connected
  <2>3. Queued(i) => Queued(i)'
    BY DEF Queued, Latest
  <2> QED
    BY <1>1, <2>1, <2>2, <2>3 DEF SteadyAt
<1> QED
  BY <1>1 DEF SteadyInv

\* The same for a step that leaves the messages with the Locals alone.
LEMMA SteadySame ==
  ASSUME SteadyInv, UNCHANGED <<events, pushing, outbox, link, kernel, comm, hold, steady>>,
         thread'["sender"] = thread["sender"]
  PROVE  SteadyInv'
<1>1. \A i : /\ BeingSent(i)' <=> BeingSent(i)
             /\ BeingHandled(i)' <=> BeingHandled(i)
             /\ ActedOn(i)' <=> ActedOn(i)
  BY DEF BeingSent, BeingHandled, ActedOn, Latest
<1> QED
  BY <1>1, SteadyFrame

-----------------------------------------------------------------------------
(***************************************************************************)
(* Queues.                                                                 *)
(***************************************************************************)

\* What leaves a queue, and what stays.
LEMMA Leaves ==
  ASSUME NEW S, NEW q \in Seq(S), q # << >>
  PROVE  /\ DOMAIN q = 1 .. Len(q) /\ Len(q) \in Nat
         /\ Tail(q) \in Seq(S) /\ Len(Tail(q)) = Len(q) - 1
         /\ 1 \in DOMAIN q /\ Head(q) = q[1] /\ Head(q) \in S
         /\ \A k \in DOMAIN Tail(q) : k + 1 \in DOMAIN q /\ Tail(q)[k] = q[k + 1]
         /\ \A k \in DOMAIN q : k = 1 \/ \E j \in DOMAIN Tail(q) : q[k] = Tail(q)[j]
<1>1. /\ DOMAIN q = 1 .. Len(q) /\ Len(q) \in Nat /\ q \in [1 .. Len(q) -> S]
      /\ Tail(q) \in Seq(S) /\ Len(Tail(q)) = Len(q) - 1 /\ Head(q) \in S
      /\ \A k \in 1 .. Len(Tail(q)) : Tail(q)[k] = q[k + 1]
      /\ Len(q) > 0
  BY LenProperties, HeadTailProperties, EmptySeq
<1>2. Head(q) = q[1]
  OBVIOUS
<1>3. DOMAIN Tail(q) = 1 .. Len(Tail(q))
  BY <1>1, LenProperties
<1>4. ASSUME NEW k \in DOMAIN q, k # 1
      PROVE  \E j \in DOMAIN Tail(q) : q[k] = Tail(q)[j]
  <2>1. k - 1 \in DOMAIN Tail(q) /\ (k - 1) + 1 = k
    BY <1>1, <1>3, <1>4
  <2> QED
    BY <1>1, <1>3, <2>1
<1>5. 1 \in DOMAIN q /\ \A k \in DOMAIN Tail(q) : k + 1 \in DOMAIN q
  BY <1>1, <1>3
<1> QED
  BY <1>1, <1>2, <1>3, <1>4, <1>5

\* What enters a queue.
LEMMA Enters ==
  ASSUME NEW S, NEW q \in Seq(S), NEW m \in S
  PROVE  /\ Append(q, m) \in Seq(S) /\ Len(Append(q, m)) = Len(q) + 1 /\ Len(q) \in Nat
         /\ DOMAIN q = 1 .. Len(q) /\ DOMAIN Append(q, m) = 1 .. Len(q) + 1
         /\ \A k \in DOMAIN q : k \in DOMAIN Append(q, m) /\ Append(q, m)[k] = q[k]
         /\ Append(q, m)[Len(q) + 1] = m
<1>1. /\ Append(q, m) \in Seq(S) /\ Len(Append(q, m)) = Len(q) + 1 /\ Len(q) \in Nat
      /\ DOMAIN q = 1 .. Len(q)
      /\ \A k \in 1 .. Len(q) : Append(q, m)[k] = q[k]
      /\ Append(q, m)[Len(q) + 1] = m
  BY AppendProperties, LenProperties
<1>2. DOMAIN Append(q, m) = 1 .. Len(q) + 1
  BY <1>1, LenProperties
<1> QED
  BY <1>1, <1>2

-----------------------------------------------------------------------------
(***************************************************************************)
(* The callbacks and the outbox.                                           *)
(***************************************************************************)

\* A new event is announced to all Locals of its crossing.
LEMMA QueueOK ==
  ASSUME IInv, NEW x \in Crossing, queue_railway_message(x)
  PROVE  IInv'
<1>0. /\ events \in [Crossing -> Nat] /\ x \in Int /\ hold \in [Local -> Nat]
      /\ outbox \in Seq(Message)
  BY Layout DEF IInv, TypeOK
<1>1. /\ events' = [events EXCEPT ![x] = events[x] + 1] /\ pushing = << >>
      /\ pushing' = [k \in DOMAIN LocalsOf[x] |->
           [to |-> LocalsOf[x][k], type |-> "RAILWAY", crossing |-> x, n |-> events'[x]]]
      /\ UNCHANGED <<outbox, dropped, link, thread, kernel, up, comm, hold, failures, steady>>
  BY DEF queue_railway_message, locals
<1>2. /\ events' \in [Crossing -> Nat] /\ events'[x] = events[x] + 1
      /\ \A y \in Crossing : events[y] <= events'[y] /\ (y # x => events'[y] = events[y])
  <2>1. events[x] \in Nat /\ events[x] + 1 \in Nat
    BY <1>0
  <2>2. /\ events' \in [Crossing -> Nat] /\ events'[x] = events[x] + 1
        /\ \A y \in Crossing : y # x => events'[y] = events[y]
    BY <1>0, <1>1, <2>1
  <2>3. \A y \in Crossing : events[y] \in Nat
    BY <1>0
  <2> QED
    BY <2>1, <2>2, <2>3
<1>3. DOMAIN LocalsOf[x] = 1 .. Len(LocalsOf[x]) /\ Len(LocalsOf[x]) \in Nat
  BY RailwayLinkAssumption, LenProperties
<1>4. \A k \in DOMAIN pushing' :
        /\ k \in DOMAIN LocalsOf[x] /\ pushing'[k].to = LocalsOf[x][k]
        /\ pushing'[k].type = "RAILWAY" /\ pushing'[k].crossing = x
        /\ pushing'[k].n = events'[x]
        /\ pushing'[k] \in Message /\ CrossingOf(pushing'[k].to) = x
  <2> SUFFICES ASSUME NEW k \in DOMAIN LocalsOf[x]
               PROVE  /\ pushing'[k].to = LocalsOf[x][k]
                      /\ pushing'[k].type = "RAILWAY" /\ pushing'[k].crossing = x
                      /\ pushing'[k].n = events'[x]
                      /\ pushing'[k] \in Message /\ CrossingOf(pushing'[k].to) = x
    BY <1>1
  <2>1. LocalsOf[x][k] \in Range(LocalsOf[x])
    BY DEF Range
  <2>2. LocalsOf[x][k] \in Local /\ CrossingOf(LocalsOf[x][k]) = x
    BY <2>1, Layout
  <2> DEFINE m == [to |-> LocalsOf[x][k], type |-> "RAILWAY", crossing |-> x, n |-> events'[x]]
  <2>3. pushing'[k] = m
    BY <1>1
  <2>4. m \in Message
    BY <1>2, <2>2 DEF Message
  <2> QED
    BY <2>2, <2>3, <2>4
<1>5. pushing' \in Seq(Message)
  <2>1. pushing' \in [1 .. Len(LocalsOf[x]) -> Message]
    BY <1>1, <1>3, <1>4
  <2> QED
    BY <1>3, <2>1, SeqDef
<1>6. TypeOK'
  BY <1>1, <1>2, <1>5 DEF IInv, TypeOK
<1>7. ThreadInv' /\ LinkInv'
  BY <1>1, LinkFrame DEF IInv, ThreadInv
<1>8. OrderInv'
  <2>1. \A m : Announces(m) => Announces(m)'
    <3> SUFFICES ASSUME NEW m, Announces(m) PROVE Announces(m)'
      OBVIOUS
    <3>1. m.n \in Nat /\ m.crossing \in Crossing
      BY DEF Announces, Message
    <3>2. events[m.crossing] \in Nat /\ events'[m.crossing] \in Nat
      BY <1>0, <1>2, <3>1
    <3> QED
      BY <1>2, <3>1, <3>2 DEF Announces
  <2>2. \A m : NotLate(m)' <=> NotLate(m)
    BY <1>1 DEF NotLate
  <2>3. PushInv'
    <3>1. events'[x] <= events'[x]
      BY <1>2
    <3> QED
      BY <1>4, <3>1 DEF PushInv, Announces
  <2>4. OutboxInv' /\ SenderInv'
    BY <1>1, <2>1, <2>2 DEF IInv, OrderInv, OutboxInv, SenderInv, Sending
  <2>5. LocalInv'
    BY <1>0, <1>1, <1>2, <2>1, Layout DEF IInv, OrderInv, LocalInv
  <2> QED
    BY <2>3, <2>4, <2>5 DEF OrderInv
<1>9. SteadyInv'
  <2>1. ASSUME NEW i \in steady' PROVE SteadyAt(i)'
    <3>1. SteadyAt(i) /\ i \in Local /\ CrossingOf(i) \in Crossing
      BY <1>1, <2>1, Layout DEF IInv, SteadyInv, TypeOK
    <3>2. connected(i)' /\ kernel'[link'[i]] = i
      BY <1>1, <3>1 DEF SteadyAt, connected
    <3>3. CASE CrossingOf(i) = x
      <4>1. i \in Range(LocalsOf[x])
        BY <3>1, <3>3, Layout
      <4>2. PICK k \in DOMAIN LocalsOf[x] : LocalsOf[x][k] = i
        BY <4>1 DEF Range
      <4>3. k \in DOMAIN pushing' /\ Latest(i, pushing[k])'
        BY <1>1, <1>4, <3>3, <4>2 DEF Latest
      <4> QED
        BY <3>2, <4>3 DEF SteadyAt, Queued
    <3>4. CASE CrossingOf(i) # x
      <4>1. events'[CrossingOf(i)] = events[CrossingOf(i)]
        BY <1>2, <3>1, <3>4
      <4>2. ~\E k \in DOMAIN pushing : Latest(i, pushing[k])
        BY <1>1
      <4> QED
        BY <1>1, <3>1, <3>2, <4>1, <4>2
        DEF SteadyAt, Queued, Latest, BeingSent, BeingHandled, ActedOn
    <3> QED
      BY <3>3, <3>4
  <2> QED
    BY <2>1 DEF SteadyInv
<1> QED
  BY <1>6, <1>7, <1>8, <1>9 DEF IInv

\* A message enters the outbox as the latest of its crossing, or is dropped.
LEMMA PushOK ==
  ASSUME IInv, outbox_push
  PROVE  IInv'
<1> DEFINE m == Head(pushing)
<1>0. /\ events \in [Crossing -> Nat] /\ hold \in [Local -> Nat] /\ dropped \in Nat
      /\ outbox \in Seq(Message) /\ pushing \in Seq(Message) /\ Len(outbox) <= OUTBOX_CAPACITY
      /\ OUTBOX_CAPACITY \in Nat /\ steady \subseteq Local
      /\ comm \in [Local -> Message \cup {NoMessage}]
  BY RailwayLinkAssumption DEF IInv, TypeOK
<1>1. /\ pushing # << >> /\ pushing' = Tail(pushing)
      /\ \/ /\ Len(outbox) < OUTBOX_CAPACITY
            /\ outbox' = Append(outbox, m) /\ dropped' = dropped
         \/ dropped' = dropped + 1 /\ outbox' = outbox
      /\ steady' = IF link[m.to] # NoCoid /\ kernel[link[m.to]] = m.to /\ dropped' = dropped
                   THEN steady \cup {m.to} ELSE steady \ {m.to}
      /\ UNCHANGED <<events, link, thread, kernel, up, comm, hold, failures>>
  BY DEF outbox_push, locals
<1>2. /\ pushing' \in Seq(Message) /\ 1 \in DOMAIN pushing /\ m = pushing[1] /\ m \in Message
      /\ \A k \in DOMAIN pushing' : \E j \in DOMAIN pushing : pushing'[k] = pushing[j]
      /\ \A k \in DOMAIN pushing : \/ pushing[k] = m
                                   \/ \E j \in DOMAIN pushing' : pushing[k] = pushing'[j]
  <2>1. /\ Tail(pushing) \in Seq(Message) /\ 1 \in DOMAIN pushing /\ Head(pushing) = pushing[1]
        /\ Head(pushing) \in Message
        /\ \A k \in DOMAIN Tail(pushing) :
             k + 1 \in DOMAIN pushing /\ Tail(pushing)[k] = pushing[k + 1]
        /\ \A k \in DOMAIN pushing :
             k = 1 \/ \E j \in DOMAIN Tail(pushing) : pushing[k] = Tail(pushing)[j]
    BY <1>0, <1>1, Leaves
  <2> QED
    BY <1>1, <2>1
<1>3. /\ Announces(m) /\ m.n = events[m.crossing] /\ m.to \in Local
      /\ m.crossing = CrossingOf(m.to) /\ m.crossing \in Crossing
  BY <1>2 DEF IInv, OrderInv, PushInv, Announces, Message
<1> HIDE DEF m
<1>4. /\ outbox' \in Seq(Message) /\ Len(outbox') <= OUTBOX_CAPACITY /\ dropped' \in Nat
      /\ \A k \in DOMAIN outbox : k \in DOMAIN outbox' /\ outbox'[k] = outbox[k]
      /\ \A k \in DOMAIN outbox' : \/ k \in DOMAIN outbox /\ outbox'[k] = outbox[k]
                                   \/ outbox'[k] = m /\ \A j \in DOMAIN outbox : ~(k <= j)
      /\ dropped' = dropped => \E k \in DOMAIN outbox' : outbox'[k] = m
  <2>1. CASE outbox' = outbox /\ dropped' = dropped + 1
    BY <1>0, <2>1
  <2>2. CASE /\ Len(outbox) < OUTBOX_CAPACITY
             /\ outbox' = Append(outbox, m) /\ dropped' = dropped
    <3>1. /\ outbox' \in Seq(Message) /\ Len(outbox') = Len(outbox) + 1 /\ Len(outbox) \in Nat
          /\ DOMAIN outbox = 1 .. Len(outbox) /\ DOMAIN outbox' = 1 .. Len(outbox) + 1
          /\ \A k \in DOMAIN outbox : k \in DOMAIN outbox' /\ outbox'[k] = outbox[k]
          /\ outbox'[Len(outbox) + 1] = m
      BY <1>0, <1>2, <2>2, Enters
    <3>2. \A k \in 1 .. Len(outbox) + 1 :
            \/ k \in 1 .. Len(outbox)
            \/ k = Len(outbox) + 1 /\ \A j \in 1 .. Len(outbox) : ~(k <= j)
      BY ONLY <3>1
    <3>3. Len(outbox) + 1 \in DOMAIN outbox' /\ Len(outbox') <= OUTBOX_CAPACITY
      BY <1>0, <2>2, <3>1
    <3> QED
      BY <1>0, <2>2, <3>1, <3>2, <3>3
  <2> QED
    BY <1>1, <2>1, <2>2
<1>5. steady' \subseteq Local
  BY <1>0, <1>1, <1>3
<1>6. TypeOK'
  BY <1>1, <1>2, <1>4, <1>5 DEF IInv, TypeOK
<1>7. ThreadInv' /\ LinkInv'
  BY <1>1, LinkFrame DEF IInv, ThreadInv
<1>8. OrderInv'
  <2>1. \A r : (Announces(r)' <=> Announces(r)) /\ (NotLate(r)' <=> NotLate(r))
    BY <1>1 DEF Announces, NotLate
  <2>2. PushInv'
    BY <1>1, <1>2, <2>1 DEF IInv, OrderInv, PushInv
  <2>3. \A r : Announces(r) => Before(r, m)
    BY <1>3 DEF Before, Announces
  <2>4. NotLate(m)
    BY <1>3, <2>3 DEF IInv, OrderInv, LocalInv, NotLate
  <2>5. Sending => Before(thread["sender"].msg, m)
    BY <2>3 DEF IInv, OrderInv, SenderInv
  <2>6. OutboxInv'
    <3>1. ASSUME NEW k \in DOMAIN outbox'
          PROVE  /\ Announces(outbox'[k]) /\ NotLate(outbox'[k])
                 /\ Sending => Before(thread["sender"].msg, outbox'[k])
                 /\ \A j \in DOMAIN outbox' : j <= k => Before(outbox'[j], outbox'[k])
      <4>1. CASE k \in DOMAIN outbox /\ outbox'[k] = outbox[k]
        <5>1. ASSUME NEW j \in DOMAIN outbox', j <= k
              PROVE  Before(outbox'[j], outbox'[k])
          <6>1. j \in DOMAIN outbox /\ outbox'[j] = outbox[j]
            BY <1>4, <4>1, <5>1
          <6> QED
            BY <4>1, <5>1, <6>1 DEF IInv, OrderInv, OutboxInv
        <5> QED
          BY <4>1, <5>1 DEF IInv, OrderInv, OutboxInv
      <4>2. CASE outbox'[k] = m
        <5>1. \A j \in DOMAIN outbox' : Announces(outbox'[j])
          BY <1>3, <1>4 DEF IInv, OrderInv, OutboxInv
        <5> QED
          BY <1>3, <2>3, <2>4, <2>5, <4>2, <5>1
      <4> QED
        BY <1>4, <3>1, <4>1, <4>2
    <3>2. (Sending' <=> Sending) /\ thread' = thread
      BY <1>1 DEF Sending
    <3>3. \A r, s : Before(r, s)' <=> Before(r, s)
      BY DEF Before
    <3> QED
      BY <2>1, <3>1, <3>2, <3>3 DEF OutboxInv, Before
  <2>7. SenderInv' /\ LocalInv'
    BY <1>1, <2>1 DEF IInv, OrderInv, SenderInv, LocalInv, Sending
  <2> QED
    BY <2>2, <2>6, <2>7 DEF OrderInv
<1>9. SteadyInv'
  <2>1. ASSUME NEW i \in steady' PROVE SteadyAt(i)'
    <3>1. CASE i = m.to
      <4>1. connected(i)' /\ kernel'[link'[i]] = i /\ dropped' = dropped
        BY <1>1, <2>1, <3>1 DEF connected
      <4>2. PICK k \in DOMAIN outbox' : outbox'[k] = m
        BY <1>4, <4>1
      <4>3. Latest(i, outbox[k])'
        BY <1>1, <1>3, <3>1, <4>2 DEF Latest
      <4> QED
        BY <4>1, <4>2, <4>3 DEF SteadyAt, Queued
    <3>2. CASE i # m.to
      <4>1. SteadyAt(i)
        BY <1>1, <2>1, <3>2 DEF IInv, SteadyInv
      <4>2. connected(i)' /\ kernel'[link'[i]] = i
        BY <1>1, <4>1 DEF SteadyAt, connected
      <4>3. ASSUME Queued(i) PROVE Queued(i)'
        <5>1. CASE \E k \in DOMAIN pushing : Latest(i, pushing[k])
          BY <1>1, <1>2, <3>2, <5>1 DEF Queued, Latest
        <5>2. CASE \E k \in DOMAIN outbox : Latest(i, outbox[k])
          BY <1>1, <1>4, <5>2 DEF Queued, Latest
        <5> QED
          BY <4>3, <5>1, <5>2 DEF Queued
      <4> QED
        BY <1>1, <4>1, <4>2, <4>3 DEF SteadyAt, BeingSent, BeingHandled, ActedOn, Latest
    <3> QED
      BY <3>1, <3>2
  <2> QED
    BY <2>1 DEF SteadyInv
<1> QED
  BY <1>6, <1>7, <1>8, <1>9 DEF IInv

\* The sender takes the oldest message.
LEMMA SenderOK ==
  ASSUME IInv, sender_thread
  PROVE  IInv'
<1> DEFINE m == Head(outbox)
           s == MoveWith(thread["sender"], "link", m)
<1>0. /\ outbox \in Seq(Message) /\ Len(outbox) <= OUTBOX_CAPACITY /\ OUTBOX_CAPACITY \in Nat
      /\ "sender" \in Thread /\ "connection" \in Thread /\ thread \in [Thread -> ThreadState]
  BY RailwayLinkAssumption DEF IInv, TypeOK, Thread, ThreadInv
<1>1. /\ thread["sender"].pc = "idle" /\ outbox # << >> /\ outbox' = Tail(outbox)
      /\ thread' = [thread EXCEPT !["sender"] = s]
      /\ UNCHANGED <<events, pushing, dropped, link, kernel, up, comm, hold, failures, steady>>
  BY DEF sender_thread, locals, MoveWith
<1>2. /\ outbox' \in Seq(Message) /\ Len(outbox') <= OUTBOX_CAPACITY
      /\ 1 \in DOMAIN outbox /\ m = outbox[1] /\ m \in Message
      /\ DOMAIN outbox = 1 .. Len(outbox) /\ Len(outbox) \in Nat
      /\ DOMAIN outbox' = 1 .. Len(outbox')
      /\ \A k \in DOMAIN outbox' : k + 1 \in DOMAIN outbox /\ outbox'[k] = outbox[k + 1]
      /\ \A k \in DOMAIN outbox : k = 1 \/ \E j \in DOMAIN outbox' : outbox[k] = outbox'[j]
  <2>1. /\ DOMAIN outbox = 1 .. Len(outbox) /\ Len(outbox) \in Nat
        /\ Tail(outbox) \in Seq(Message) /\ Len(Tail(outbox)) = Len(outbox) - 1
        /\ 1 \in DOMAIN outbox /\ Head(outbox) = outbox[1] /\ Head(outbox) \in Message
        /\ \A k \in DOMAIN Tail(outbox) :
             k + 1 \in DOMAIN outbox /\ Tail(outbox)[k] = outbox[k + 1]
        /\ \A k \in DOMAIN outbox :
             k = 1 \/ \E j \in DOMAIN Tail(outbox) : outbox[k] = Tail(outbox)[j]
    BY <1>0, <1>1, Leaves
  <2>2. Len(Tail(outbox)) <= OUTBOX_CAPACITY
    BY <1>0, <2>1
  <2>3. DOMAIN Tail(outbox) = 1 .. Len(Tail(outbox))
    BY <2>1, LenProperties
  <2> QED
    BY <1>1, <2>1, <2>2, <2>3
<1>3. Announces(m) /\ NotLate(m) /\ \A k \in DOMAIN outbox : Before(m, outbox[k])
  BY <1>2 DEF IInv, OrderInv, OutboxInv
<1> HIDE DEF m
<1>4. s \in ThreadState /\ s.pc = "link" /\ s.msg = m
  <2>1. thread["sender"] \in ThreadState /\ "link" \in PC
    BY <1>0 DEF PC
  <2> QED
    BY <1>2, <2>1, Fields
<1>5. ThreadOK("sender", s)
  BY <1>2, <1>4 DEF ThreadOK
<1> HIDE DEF s
<1>6. /\ ThreadInv' /\ thread'["sender"] = s
      /\ thread'["connection"] = thread["connection"]
  BY <1>0, <1>1, <1>5, OneThread DEF IInv
<1>7. TypeOK' /\ LinkInv'
  BY <1>1, <1>2, <1>6, LinkFrame DEF IInv, TypeOK, ThreadInv, ThreadState, PC
<1>8. OrderInv'
  <2>1. \A r : (Announces(r)' <=> Announces(r)) /\ (NotLate(r)' <=> NotLate(r))
    BY <1>1 DEF Announces, NotLate
  <2>2. PushInv' /\ LocalInv'
    BY <1>1, <2>1 DEF IInv, OrderInv, PushInv, LocalInv
  <2>3. SenderInv'
    BY <1>3, <1>4, <1>6, <2>1 DEF SenderInv
  <2>4. ASSUME NEW k \in DOMAIN outbox'
        PROVE  /\ Announces(outbox'[k]) /\ NotLate(outbox'[k]) /\ Before(m, outbox'[k])
               /\ \A j \in DOMAIN outbox' : j <= k => Before(outbox'[j], outbox'[k])
    <3>1. \A j \in DOMAIN outbox' : j <= k => j + 1 <= k + 1
      BY ONLY <1>2, <2>4
    <3> QED
      BY <1>2, <1>3, <2>4, <3>1 DEF IInv, OrderInv, OutboxInv
  <2>5. OutboxInv'
    BY <1>4, <1>6, <2>1, <2>4 DEF OutboxInv, Before
  <2> QED
    BY <2>2, <2>3, <2>5 DEF OrderInv
<1>9. SteadyInv'
  <2>1. ASSUME NEW i \in steady' PROVE SteadyAt(i)'
    <3>1. SteadyAt(i)
      BY <1>1, <2>1 DEF IInv, SteadyInv
    <3>2. connected(i)' /\ kernel'[link'[i]] = i
      BY <1>1, <3>1 DEF SteadyAt, connected
    <3>3. CASE Queued(i)
      <4>1. CASE \E k \in DOMAIN pushing : Latest(i, pushing[k])
        BY <1>1, <3>2, <4>1 DEF SteadyAt, Queued, Latest
      <4>2. CASE \E k \in DOMAIN outbox : Latest(i, outbox[k])
        <5>1. PICK k \in DOMAIN outbox : Latest(i, outbox[k])
          BY <4>2
        <5>2. CASE k = 1
          <6>1. BeingSent(i)'
            BY <1>1, <1>2, <1>4, <1>6, <5>1, <5>2 DEF BeingSent, Latest
          <6> QED
            BY <3>2, <6>1 DEF SteadyAt
        <5>3. CASE k # 1
          <6>1. Queued(i)'
            BY <1>1, <1>2, <5>1, <5>3 DEF Queued, Latest
          <6> QED
            BY <3>2, <6>1 DEF SteadyAt
        <5> QED
          BY <5>2, <5>3
      <4> QED
        BY <3>3, <4>1, <4>2 DEF Queued
    <3>4. CASE BeingHandled(i) \/ ActedOn(i)
      BY <1>1, <3>2, <3>4 DEF SteadyAt, BeingHandled, ActedOn
    <3>5. ~BeingSent(i)
      BY <1>1 DEF BeingSent
    <3> QED
      BY <3>1, <3>3, <3>4, <3>5 DEF SteadyAt
  <2> QED
    BY <2>1 DEF SteadyInv
<1> QED
  BY <1>6, <1>7, <1>8, <1>9 DEF IInv

-----------------------------------------------------------------------------
(***************************************************************************)
(* The threads.                                                            *)
(***************************************************************************)

\* A step of one thread that changes nothing but its own state.
LEMMA ThreadStep ==
  ASSUME IInv, NEW u \in Thread, NEW s, ThreadOK(u, s),
         thread' = [thread EXCEPT ![u] = s],
         UNCHANGED <<events, pushing, outbox, dropped, link, kernel, up, comm, hold, steady>>,
         failures' \in [timeouts: 0 .. MaxTimeouts, restarts: 0 .. MaxRestarts],
         u = "connection" =>
           /\ thread[u].pc # "opened" /\ s.pc # "opened"
           /\ s.pc = "open" => link[s.msg.to] = NoCoid,
         u = "sender" =>
           /\ thread[u].pc # "idle" /\ (s.pc # "idle" => s.msg = thread[u].msg)
           /\ \A i \in steady : SteadyAt(i) /\ BeingSent(i) =>
                /\ s.pc \in {"link", "coid", "failed"}
                /\ s.pc = "coid" => s.coid = link[i]
  PROVE  IInv'
<1>0. "sender" \in Thread /\ "connection" \in Thread
  BY DEF Thread
<1>1. /\ ThreadInv' /\ thread'[u] = s
      /\ \A v \in Thread : v # u => thread'[v] = thread[v]
  BY OneThread DEF IInv
<1>2. TypeOK'
  BY <1>1 DEF IInv, TypeOK, ThreadInv, ThreadState, PC
<1>3. LinkInv'
  BY <1>0, <1>1, LinkFrame DEF IInv
<1>4. OrderInv'
  BY <1>0, <1>1, OrderFrame DEF IInv
<1>5. SteadyInv'
  <2>1. CASE u # "sender"
    BY <1>0, <1>1, <2>1, SteadySame DEF IInv
  <2>2. CASE u = "sender"
    <3>1. ASSUME NEW i \in steady, SteadyAt(i)
          PROVE  /\ BeingSent(i) => BeingSent(i)'
                 /\ BeingHandled(i) => BeingHandled(i)'
                 /\ ActedOn(i) => ActedOn(i)'
      BY <1>1, <2>2, <3>1 DEF BeingSent, BeingHandled, ActedOn, Latest
    <3> QED
      BY <3>1, SteadyFrame DEF IInv
  <2> QED
    BY <2>1, <2>2
<1> QED
  BY <1>1, <1>2, <1>3, <1>4, <1>5 DEF IInv

\* The heartbeat thread and the connection thread turn to a link.
LEMMA TurnOK ==
  ASSUME IInv, NEW i \in Local, heartbeat_thread(i) \/ connection_try_connect(i)
  PROVE  IInv'
<1>0. /\ thread \in [Thread -> ThreadState] /\ link \in [Local -> Coid \cup {NoCoid}]
      /\ Probe(i) \in Message /\ Probe(i).to = i /\ Probe(i).type = "PROBE"
      /\ "heartbeat" \in Thread /\ "connection" \in Thread
      /\ failures \in [timeouts: 0 .. MaxTimeouts, restarts: 0 .. MaxRestarts]
  BY Messages DEF IInv, TypeOK, ThreadInv, Thread
<1>1. CASE heartbeat_thread(i)
  <2> DEFINE s == [pc |-> "coid", coid |-> link[i], msg |-> Probe(i)]
  <2>1. /\ thread' = [thread EXCEPT !["heartbeat"] = s] /\ link[i] # NoCoid
        /\ UNCHANGED <<events, pushing, outbox, dropped, link, kernel, up, comm, hold,
                       failures, steady>>
    BY <1>1 DEF heartbeat_thread, train, locals, connected
  <2>2. ThreadOK("heartbeat", s)
    BY <1>0, <2>1 DEF ThreadOK, ThreadState, PC
  <2> HIDE DEF s
  <2> QED
    BY <1>0, <2>1, <2>2, ThreadStep
<1>2. CASE connection_try_connect(i)
  <2> DEFINE s == MoveWith(thread["connection"], "open", Probe(i))
  <2>1. /\ thread' = [thread EXCEPT !["connection"] = s] /\ link[i] = NoCoid
        /\ thread["connection"].pc = "idle"
        /\ UNCHANGED <<events, pushing, outbox, dropped, link, kernel, up, comm, hold,
                       failures, steady>>
    BY <1>2 DEF connection_try_connect, train, locals, connected, MoveWith
  <2>2. s \in ThreadState /\ s.pc = "open" /\ s.msg = Probe(i)
    <3>1. thread["connection"] \in ThreadState /\ "open" \in PC
      BY <1>0 DEF PC
    <3> QED
      BY <1>0, <3>1, Fields
  <2> HIDE DEF s
  <2>3. ThreadOK("connection", s)
    BY <1>0, <2>2 DEF ThreadOK
  <2> QED
    BY <1>0, <2>1, <2>2, <2>3, ThreadStep
<1> QED
  BY <1>1, <1>2

\* A thread reads the connection id of its link, or finds none.
LEMMA GetCoidOK ==
  ASSUME IInv, NEW t \in Thread, connection_get_coid(t)
  PROVE  IInv'
<1> DEFINE c == link[thread[t].msg.to]
           s == IF c = NoCoid THEN Idle ELSE MoveOver(thread[t], "coid", c)
<1>0. /\ thread \in [Thread -> ThreadState] /\ link \in [Local -> Coid \cup {NoCoid}]
      /\ failures \in [timeouts: 0 .. MaxTimeouts, restarts: 0 .. MaxRestarts]
      /\ ThreadOK(t, thread[t])
  BY DEF IInv, TypeOK, ThreadInv
<1>1. /\ thread' = [thread EXCEPT ![t] = s] /\ thread[t].pc = "link"
      /\ UNCHANGED <<events, pushing, outbox, dropped, link, kernel, up, comm, hold,
                     failures, steady>>
  BY DEF connection_get_coid, train, locals, MoveOver
<1>2. c \in Coid \cup {NoCoid}
  BY <1>0, <1>1 DEF ThreadOK, Message
<1> HIDE DEF c
<1>3. CASE c = NoCoid
  <2>1. s = Idle /\ ThreadOK(t, s) /\ s.pc = "idle"
    BY <1>3, Messages DEF Idle
  <2>2. \A i : Latest(i, thread[t].msg) => ~connected(i)
    BY <1>3 DEF c, Latest, connected
  <2> HIDE DEF s
  <2> QED
    BY <1>0, <1>1, <2>1, <2>2, ThreadStep DEF SteadyAt, BeingSent
<1>4. CASE c # NoCoid
  <2>1. s = MoveOver(thread[t], "coid", c)
    BY <1>4
  <2> HIDE DEF s
  <2>2. s \in ThreadState /\ s.pc = "coid" /\ s.coid = c /\ s.msg = thread[t].msg
    <3>1. thread[t] \in ThreadState /\ "coid" \in PC
      BY <1>0 DEF PC
    <3> QED
      BY <1>2, <2>1, <3>1, Fields
  <2>3. ThreadOK(t, s)
    BY <1>0, <1>1, <1>2, <1>4, <2>2 DEF ThreadOK
  <2>4. \A i : Latest(i, thread[t].msg) => c = link[i]
    BY DEF c, Latest
  <2> QED
    BY <1>0, <1>1, <2>2, <2>3, <2>4, ThreadStep DEF BeingSent
<1> QED
  BY <1>3, <1>4

\* A call times out.
LEMMA TimeoutOK ==
  ASSUME IInv, NEW t \in Thread, Timeout(t)
  PROVE  IInv'
<1> DEFINE s == MoveTo(thread[t], "failed")
<1>0. /\ thread \in [Thread -> ThreadState] /\ ThreadOK(t, thread[t])
      /\ failures \in [timeouts: 0 .. MaxTimeouts, restarts: 0 .. MaxRestarts]
      /\ MaxTimeouts \in Nat
  BY RailwayLinkAssumption DEF IInv, TypeOK, ThreadInv
<1>1. /\ thread' = [thread EXCEPT ![t] = s] /\ thread[t].pc \in {"coid", "reply"}
      /\ failures.timeouts < MaxTimeouts
      /\ failures' = [failures EXCEPT !.timeouts = failures.timeouts + 1]
      /\ UNCHANGED <<events, pushing, outbox, dropped, link, kernel, up, comm, hold, steady>>
  BY DEF Timeout, train, locals, MoveTo
<1>2. s \in ThreadState /\ s.pc = "failed" /\ s.msg = thread[t].msg
  BY <1>0, Fields DEF PC
<1> HIDE DEF s
<1>3. ThreadOK(t, s)
  BY <1>0, <1>1, <1>2 DEF ThreadOK
<1>4. failures' \in [timeouts: 0 .. MaxTimeouts, restarts: 0 .. MaxRestarts]
  <2>1. failures.timeouts + 1 \in 0 .. MaxTimeouts
    BY <1>0, <1>1
  <2> QED
    BY <1>0, <1>1, <2>1
<1> QED
  BY <1>0, <1>1, <1>2, <1>3, <1>4, ThreadStep

\* A railway message comes to the Local its connection leads to, in order.
LEMMA ReceivedOK ==
  ASSUME IInv, NEW t \in Thread, NEW i \in Local,
         thread[t].pc = "coid", kernel[thread[t].coid] = i,
         thread[t].msg.type = "RAILWAY", comm[i] = NoMessage,
         comm' = [comm EXCEPT ![i] = thread[t].msg],
         thread' = [thread EXCEPT ![t] = MoveTo(thread[t], "reply")],
         UNCHANGED <<events, pushing, outbox, dropped, link, kernel, up, hold, failures, steady>>
  PROVE  IInv'
<1> DEFINE m == thread["sender"].msg
           s == MoveTo(thread[t], "reply")
<1>0. /\ thread \in [Thread -> ThreadState] /\ ThreadOK(t, thread[t])
      /\ comm \in [Local -> Message \cup {NoMessage}] /\ "connection" \in Thread
      /\ events \in [Crossing -> Nat]
  BY DEF IInv, TypeOK, ThreadInv, Thread
<1>1. t = "sender" /\ Sending
  BY <1>0 DEF ThreadOK, Sending
<1>2. s \in ThreadState /\ s.pc = "reply" /\ s.msg = m /\ s.coid = thread[t].coid
  <2>1. thread[t] \in ThreadState /\ "reply" \in PC
    BY <1>0 DEF PC
  <2> QED
    BY <1>1, <2>1, Fields
<1>3. ThreadOK(t, s)
  BY <1>0, <1>1, <1>2 DEF ThreadOK
<1> HIDE DEF s
<1>4. /\ ThreadInv' /\ thread'["sender"] = s
      /\ thread'["connection"] = thread["connection"]
  BY <1>0, <1>1, <1>3, OneThread DEF IInv, s
<1>5. /\ Announces(m) /\ NotLate(m) /\ m \in Message /\ m.n <= m.n /\ m # NoMessage
      /\ m.crossing = CrossingOf(m.to) /\ m.n \in Nat
  <2>1. Announces(m) /\ NotLate(m)
    BY <1>1 DEF IInv, OrderInv, SenderInv
  <2>2. m \in Message /\ m.crossing = CrossingOf(m.to)
    BY <2>1 DEF Announces
  <2>3. m.n \in Nat
    BY <2>2 DEF Message
  <2>4. m # NoMessage
    BY <2>2, Messages
  <2>5. m.n <= m.n
    BY <2>3
  <2> QED
    BY <2>1, <2>2, <2>3, <2>4, <2>5
<1> HIDE DEF m
<1>6. /\ comm' \in [Local -> Message \cup {NoMessage}] /\ comm'[i] = m
      /\ \A j \in Local : j # i => comm'[j] = comm[j]
  BY <1>0, <1>1, <1>5 DEF m
<1>7. TypeOK'
  BY <1>4, <1>6 DEF IInv, TypeOK, ThreadInv, ThreadState, PC
<1>8. LinkInv'
  BY <1>4, LinkFrame DEF IInv
<1>9. OrderInv'
  <2>1. \A r : Announces(r)' <=> Announces(r)
    BY DEF Announces
  <2>2. \A r : NotLate(r) /\ Before(m, r) => NotLate(r)'
    BY <1>6 DEF NotLate, Before
  <2>3. PushInv'
    BY <2>1 DEF IInv, OrderInv, PushInv
  <2>4. OutboxInv'
    <3>1. \A k \in DOMAIN outbox : Before(m, outbox[k])
      BY <1>1 DEF IInv, OrderInv, OutboxInv, m
    <3>2. Sending' /\ thread'["sender"].msg = m
      BY <1>2, <1>4 DEF Sending
    <3> QED
      BY <2>1, <2>2, <3>1, <3>2 DEF IInv, OrderInv, OutboxInv, Before
  <2>5. SenderInv'
    <3>1. Before(m, m)
      BY <1>5 DEF Before
    <3> QED
      BY <1>2, <1>4, <1>5, <2>1, <2>2, <3>1 DEF SenderInv
  <2>6. LocalInv'
    BY <1>5, <1>6, <2>1 DEF IInv, OrderInv, LocalInv, NotLate
  <2> QED
    BY <2>3, <2>4, <2>5, <2>6 DEF OrderInv
<1>10. SteadyInv'
  <2>1. ASSUME NEW j \in steady, SteadyAt(j)
        PROVE  /\ BeingSent(j) => BeingHandled(j)'
               /\ BeingHandled(j) => BeingHandled(j)'
               /\ ActedOn(j) => ActedOn(j)'
    <3>0. j \in Local
      BY DEF IInv, TypeOK
    <3>1. ASSUME BeingSent(j) PROVE BeingHandled(j)'
      <4>1. /\ m.to = j /\ m.n = events[CrossingOf(j)]
            /\ thread["sender"].coid = link[j]
        BY <1>1, <3>1 DEF BeingSent, Latest, m
      <4>2. j = i
        BY <1>1, <2>1, <4>1 DEF SteadyAt
      <4> QED
        BY <1>5, <1>6, <4>1, <4>2 DEF BeingHandled
    <3>2. BeingHandled(j) => BeingHandled(j)'
      BY <1>6, <3>0 DEF BeingHandled
    <3>3. ActedOn(j) => ActedOn(j)'
      BY DEF ActedOn
    <3> QED
      BY <3>1, <3>2, <3>3
  <2> QED
    BY <2>1, SteadyFrame DEF IInv
<1> QED
  BY <1>4, <1>7, <1>8, <1>9, <1>10 DEF IInv

\* MsgSend with each of its outcomes.
LEMMA MsgSendOK ==
  ASSUME IInv, NEW t \in Thread, MsgSend(t)
  PROVE  IInv'
<1>0. /\ thread \in [Thread -> ThreadState] /\ ThreadOK(t, thread[t])
      /\ failures \in [timeouts: 0 .. MaxTimeouts, restarts: 0 .. MaxRestarts]
  BY DEF IInv, TypeOK, ThreadInv
<1>1. /\ thread[t].pc = "coid"
      /\ UNCHANGED <<events, pushing, outbox, dropped, link, kernel, up, hold, failures, steady>>
  BY DEF MsgSend, train
<1>2. CASE /\ comm' = comm
           /\ thread' = [thread EXCEPT ![t] = MoveTo(thread[t], "failed")]
  <2> DEFINE s == MoveTo(thread[t], "failed")
  <2>1. s \in ThreadState /\ s.pc = "failed" /\ s.msg = thread[t].msg
    <3>1. thread[t] \in ThreadState /\ "failed" \in PC
      BY <1>0 DEF PC
    <3> QED
      BY <3>1, Fields
  <2>2. thread' = [thread EXCEPT ![t] = s]
    BY <1>2
  <2> HIDE DEF s
  <2>3. ThreadOK(t, s)
    BY <1>0, <1>1, <2>1 DEF ThreadOK
  <2> QED
    BY <1>0, <1>1, <1>2, <2>1, <2>2, <2>3, ThreadStep
<1>3. CASE /\ thread[t].msg.type = "PROBE" /\ comm' = comm
           /\ thread' = [thread EXCEPT ![t] = Idle]
  <2>1. t # "sender"
    BY <1>1, <1>3 DEF IInv, OrderInv, SenderInv, Sending, Announces
  <2>2. ThreadOK(t, Idle) /\ Idle.pc = "idle"
    BY Messages DEF Idle
  <2> QED
    BY <1>0, <1>1, <1>3, <2>1, <2>2, ThreadStep
<1>4. CASE /\ kernel[thread[t].coid] \in Local /\ thread[t].msg.type = "RAILWAY"
           /\ comm[kernel[thread[t].coid]] = NoMessage
           /\ comm' = [comm EXCEPT ![kernel[thread[t].coid]] = thread[t].msg]
           /\ thread' = [thread EXCEPT ![t] = MoveTo(thread[t], "reply")]
  BY <1>1, <1>4, ReceivedOK
<1> QED
  BY <1>2, <1>3, <1>4 DEF MsgSend, MoveTo

\* The connection thread opens a connection, which nobody else has.
LEMMA NameOpenOK ==
  ASSUME IInv, name_open
  PROVE  IInv'
<1> DEFINE i == thread["connection"].msg.to
<1>0. /\ thread \in [Thread -> ThreadState]
      /\ ThreadOK("connection", thread["connection"])
      /\ kernel \in [Coid -> Local \cup {Free, Dead}]
      /\ failures \in [timeouts: 0 .. MaxTimeouts, restarts: 0 .. MaxRestarts]
      /\ "connection" \in Thread /\ "sender" \in Thread
  BY DEF IInv, TypeOK, ThreadInv, Thread
<1>1. /\ thread["connection"].pc = "open" /\ i \in Local /\ link[i] = NoCoid
      /\ UNCHANGED <<events, pushing, outbox, dropped, link, up, comm, hold, failures, steady>>
  BY <1>0 DEF name_open, train, locals, ThreadOK, Message, IInv, LinkInv, connected
<1>2. CASE kernel' = kernel /\ thread' = [thread EXCEPT !["connection"] = Idle]
  <2>1. ThreadOK("connection", Idle) /\ Idle.pc = "idle"
    BY <1>0, Messages DEF Idle
  <2> QED
    BY <1>0, <1>1, <1>2, <2>1, ThreadStep
<1>3. ASSUME NEW c \in Coid, kernel[c] = Free, kernel' = [kernel EXCEPT ![c] = i],
             thread' = [thread EXCEPT !["connection"] =
                          MoveOver(thread["connection"], "opened", c)]
      PROVE  IInv'
  <2> DEFINE s == MoveOver(thread["connection"], "opened", c)
  <2>1. s \in ThreadState /\ s.pc = "opened" /\ s.coid = c /\ s.msg = thread["connection"].msg
    <3>1. thread["connection"] \in ThreadState /\ "opened" \in PC /\ c \in Coid \cup {NoCoid}
      BY <1>0 DEF PC
    <3> QED
      BY <3>1, Fields
  <2>2. thread' = [thread EXCEPT !["connection"] = s]
    BY <1>3
  <2> HIDE DEF s
  <2>3. ThreadOK("connection", s)
    BY <1>0, <1>1, <2>1 DEF ThreadOK
  <2>4. /\ ThreadInv' /\ thread'["connection"] = s /\ thread'["sender"] = thread["sender"]
    BY <1>0, <2>2, <2>3, OneThread DEF IInv
  <2>5. /\ kernel' \in [Coid -> Local \cup {Free, Dead}] /\ kernel'[c] = i
        /\ \A k \in Coid : k # c => kernel'[k] = kernel[k]
    BY <1>0, <1>1, <1>3
  <2>6. \A j \in Local : link[j] # c
    <3>1. \A j \in Local : j # Free
      BY Layout DEF Free
    <3>2. Dead # Free
      BY DEF Dead, Free
    <3>3. c # NoCoid
      BY RailwayLinkAssumption
    <3> QED
      BY <1>3, <3>1, <3>2, <3>3 DEF IInv, LinkInv, connected
  <2>7. TypeOK'
    BY <1>1, <2>4, <2>5 DEF IInv, TypeOK, ThreadInv, ThreadState, PC
  <2>8. LinkInv'
    <3>0. link \in [Local -> Coid \cup {NoCoid}]
      BY DEF IInv, TypeOK
    <3>1. \A j \in Local : connected(j)' <=> connected(j)
      BY <1>1 DEF connected
    <3>2. \A j \in Local : connected(j) => kernel'[link[j]] = kernel[link[j]]
      BY <2>5, <2>6, <3>0 DEF connected
    <3>3. \A k : Opened(k)' <=> k = c
      BY <2>1, <2>4 DEF Opened
    <3>4. \A k : ~Opened(k)
      BY <1>1 DEF Opened
    <3>5. /\ \A j \in Local : connected(j)' => kernel'[link'[j]] \in {j, Dead}
          /\ \A j, k \in Local : j # k /\ connected(j)' => link'[j] # link'[k]
      BY <1>1, <3>1, <3>2 DEF IInv, LinkInv
    <3>6. \A k \in Coid : Opened(k)' =>
            /\ kernel'[k] \in {thread'["connection"].msg.to, Dead}
            /\ \A j \in Local : link'[j] # k
      BY <1>1, <2>1, <2>4, <2>5, <2>6, <3>3
    <3>7. \A k \in Coid : kernel'[k] # Free => Opened(k)' \/ \E j \in Local : link'[j] = k
      BY <1>1, <2>5, <3>3, <3>4 DEF IInv, LinkInv
    <3>8. link'[thread'["connection"].msg.to] = NoCoid
      BY <1>1, <2>1, <2>4
    <3> QED
      BY <3>5, <3>6, <3>7, <3>8 DEF LinkInv, connected
  <2>9. OrderInv'
    BY <1>1, <2>4, OrderFrame DEF IInv
  <2>10. SteadyInv'
    <3>1. ASSUME NEW j \in steady, SteadyAt(j)
          PROVE  /\ kernel'[link[j]] = kernel[link[j]]
                 /\ BeingSent(j) => BeingSent(j)'
                 /\ BeingHandled(j) => BeingHandled(j)'
                 /\ ActedOn(j) => ActedOn(j)'
      <4>1. link[j] \in Coid /\ link[j] # c
        BY <2>6, <3>1 DEF IInv, TypeOK, SteadyAt, connected
      <4> QED
        BY <1>1, <2>4, <2>5, <4>1 DEF BeingSent, BeingHandled, ActedOn, Latest
    <3> QED
      BY <1>1, <3>1, SteadyFrame DEF IInv
  <2> QED
    BY <2>4, <2>7, <2>8, <2>9, <2>10 DEF IInv
<1>4. CASE i \in up
  <2>1. PICK c \in Coid :
          /\ kernel[c] = Free /\ kernel' = [kernel EXCEPT ![c] = i]
          /\ thread' = [thread EXCEPT !["connection"].pc = "opened",
                                      !["connection"].coid = c]
    BY <1>4 DEF name_open
  <2>2. thread' = [thread EXCEPT !["connection"] =
                                   MoveOver(thread["connection"], "opened", c)]
    BY <2>1 DEF MoveOver
  <2> QED
    BY <1>3, <2>1, <2>2
<1>5. CASE i \notin up
  BY <1>2, <1>5 DEF name_open
<1> QED
  BY <1>4, <1>5

\* The link gets the connection that was opened for it.
LEMMA ConnectedOK ==
  ASSUME IInv, Connected
  PROVE  IInv'
<1> DEFINE i == thread["connection"].msg.to
           c == thread["connection"].coid
           s == MoveOver(thread["connection"], "link", NoCoid)
<1>0. /\ thread \in [Thread -> ThreadState]
      /\ ThreadOK("connection", thread["connection"])
      /\ link \in [Local -> Coid \cup {NoCoid}]
      /\ "connection" \in Thread /\ "sender" \in Thread
  BY DEF IInv, TypeOK, ThreadInv, Thread
<1>1. /\ thread["connection"].pc = "opened"
      /\ link' = [link EXCEPT ![i] = c] /\ thread' = [thread EXCEPT !["connection"] = s]
      /\ UNCHANGED <<events, pushing, outbox, dropped, kernel, up, comm, hold, failures, steady>>
  BY DEF Connected, train, locals, MoveOver
<1>2. /\ i \in Local /\ c \in Coid /\ c # NoCoid /\ link[i] = NoCoid
      /\ kernel[c] \in {i, Dead} /\ \A j \in Local : link[j] # c
  BY <1>0, <1>1, RailwayLinkAssumption
  DEF ThreadOK, Message, IInv, LinkInv, connected, Opened
<1>3. s \in ThreadState /\ s.pc = "link" /\ s.msg = thread["connection"].msg
  <2>1. /\ thread["connection"] \in ThreadState /\ "link" \in PC
        /\ NoCoid \in Coid \cup {NoCoid}
    BY <1>0 DEF PC
  <2> QED
    BY <2>1, Fields
<1> HIDE DEF s
<1>4. ThreadOK("connection", s)
  BY <1>0, <1>1, <1>3 DEF ThreadOK
<1>5. /\ ThreadInv' /\ thread'["connection"] = s /\ thread'["sender"] = thread["sender"]
  BY <1>0, <1>1, <1>4, OneThread DEF IInv
<1>6. /\ link' \in [Local -> Coid \cup {NoCoid}] /\ link'[i] = c
      /\ \A j \in Local : j # i => link'[j] = link[j]
  BY <1>0, <1>1, <1>2
<1>7. TypeOK'
  BY <1>1, <1>5, <1>6 DEF IInv, TypeOK, ThreadInv, ThreadState, PC
<1>8. LinkInv'
  <2>1. \A k : ~Opened(k)'
    BY <1>3, <1>5 DEF Opened
  <2>2. \A j \in Local : link'[j] # NoCoid => kernel'[link'[j]] \in {j, Dead}
    BY <1>1, <1>2, <1>6 DEF IInv, LinkInv, connected
  <2>3. \A j, k \in Local : j # k /\ link'[j] # NoCoid => link'[j] # link'[k]
    BY <1>2, <1>6 DEF IInv, LinkInv, connected
  <2>4. \A k \in Coid : kernel'[k] # Free => \E j \in Local : link'[j] = k
    <3> SUFFICES ASSUME NEW k \in Coid, kernel[k] # Free
                 PROVE  \E j \in Local : link'[j] = k
      BY <1>1
    <3>1. k # NoCoid
      BY RailwayLinkAssumption
    <3>2. CASE Opened(k)
      BY <1>2, <1>6, <3>2 DEF Opened
    <3>3. CASE \E j \in Local : link[j] = k
      BY <1>2, <1>6, <3>1, <3>3
    <3> QED
      BY <3>2, <3>3 DEF IInv, LinkInv
  <2> QED
    BY <1>3, <1>5, <2>1, <2>2, <2>3, <2>4 DEF LinkInv, connected
<1>9. OrderInv'
  BY <1>1, <1>5, OrderFrame DEF IInv
<1>10. SteadyInv'
  <2>1. ASSUME NEW j \in steady, SteadyAt(j)
        PROVE  /\ link'[j] = link[j] /\ kernel'[link[j]] = kernel[link[j]]
               /\ BeingSent(j) => BeingSent(j)'
               /\ BeingHandled(j) => BeingHandled(j)'
               /\ ActedOn(j) => ActedOn(j)'
    <3>1. j \in Local /\ j # i
      BY <1>2, <2>1 DEF IInv, TypeOK, SteadyAt, connected
    <3>2. link'[j] = link[j]
      BY <1>6, <3>1
    <3> QED
      BY <1>1, <1>5, <3>2 DEF BeingSent, BeingHandled, ActedOn, Latest
  <2> QED
    BY <1>1, <2>1, SteadyFrame DEF IInv
<1> QED
  BY <1>5, <1>7, <1>8, <1>9, <1>10 DEF IInv

\* A sender whose connection goes away fails, and keeps what it was sending.
LEMMA UnblockedOK ==
  ASSUME ThreadInv, NEW coids
  PROVE  /\ Unblocked(coids) \in [Thread -> ThreadState]
         /\ \A v \in Thread :
              LET r == Unblocked(coids)[v]
              IN  /\ ThreadOK(v, r)
                  /\ \/ r = thread[v]
                     \/ thread[v].pc = "reply" /\ r.pc = "failed" /\ r.msg = thread[v].msg
<1>1. ASSUME NEW v \in Thread, thread[v].pc = "reply"
      PROVE  LET r == MoveTo(thread[v], "failed")
             IN  r \in ThreadState /\ ThreadOK(v, r) /\ r.pc = "failed" /\ r.msg = thread[v].msg
  <2> DEFINE r == MoveTo(thread[v], "failed")
  <2>1. thread[v] \in ThreadState /\ "failed" \in PC /\ ThreadOK(v, thread[v])
    BY DEF ThreadInv, PC
  <2>2. r \in ThreadState /\ r.pc = "failed" /\ r.msg = thread[v].msg
    BY <2>1, Fields
  <2> HIDE DEF r
  <2>3. ThreadOK(v, r)
    BY <1>1, <2>1, <2>2 DEF ThreadOK
  <2> QED
    BY <2>2, <2>3 DEF r
<1>2. ASSUME NEW v \in Thread
      PROVE  \/ Unblocked(coids)[v] = thread[v]
             \/ thread[v].pc = "reply" /\ Unblocked(coids)[v] = MoveTo(thread[v], "failed")
  BY DEF Unblocked, MoveTo
<1>3. \A v \in Thread : thread[v] \in ThreadState /\ ThreadOK(v, thread[v])
  BY DEF ThreadInv
<1>4. \A v \in Thread : Unblocked(coids)[v] \in ThreadState
  BY <1>1, <1>2, <1>3
<1>5. Unblocked(coids) = [v \in Thread |-> Unblocked(coids)[v]]
  BY DEF Unblocked
<1> QED
  BY <1>1, <1>2, <1>3, <1>4, <1>5

\* A link is closed after a failed send.
LEMMA CloseOK ==
  ASSUME IInv, NEW t \in Thread, connection_close(t)
  PROVE  IInv'
<1> DEFINE i == thread[t].msg.to
           c == link[i]
           w == Unblocked({c})
<1>0. /\ thread \in [Thread -> ThreadState] /\ ThreadOK(t, thread[t])
      /\ link \in [Local -> Coid \cup {NoCoid}] /\ kernel \in [Coid -> Local \cup {Free, Dead}]
      /\ "connection" \in Thread /\ "sender" \in Thread /\ steady \subseteq Local
      /\ NoCoid \notin Coid
  BY RailwayLinkAssumption DEF IInv, TypeOK, ThreadInv, Thread
<1>1. /\ thread[t].pc = "failed" /\ i \in Local /\ c \in Coid \cup {NoCoid}
      /\ link' = [link EXCEPT ![i] = NoCoid]
      /\ kernel' = IF c = NoCoid THEN kernel ELSE [kernel EXCEPT ![c] = Free]
      /\ thread' = [w EXCEPT ![t] = Idle] /\ steady' = steady \ {i}
      /\ UNCHANGED <<events, pushing, outbox, dropped, up, comm, hold, failures>>
  BY <1>0 DEF connection_close, train, locals, ThreadOK, Message
<1>2. /\ w \in [Thread -> ThreadState]
      /\ \A v \in Thread :
           /\ ThreadOK(v, w[v])
           /\ \/ w[v] = thread[v]
              \/ thread[v].pc = "reply" /\ w[v].pc = "failed" /\ w[v].msg = thread[v].msg
  BY UnblockedOK DEF IInv
<1> HIDE DEF w
<1>3. /\ thread' \in [Thread -> ThreadState] /\ thread'[t] = Idle
      /\ \A v \in Thread : v # t => thread'[v] = w[v]
  BY <1>1, <1>2, Messages
<1>4. ThreadInv'
  BY <1>2, <1>3, Messages DEF ThreadInv, ThreadOK
<1>5. /\ link' \in [Local -> Coid \cup {NoCoid}] /\ link'[i] = NoCoid
      /\ \A j \in Local : j # i => link'[j] = link[j]
  BY <1>0, <1>1
<1>6. /\ kernel' \in [Coid -> Local \cup {Free, Dead}]
      /\ \A k \in Coid : kernel'[k] = IF k = c THEN Free ELSE kernel[k]
  <2>1. CASE c = NoCoid
    BY <1>0, <1>1, <2>1
  <2>2. CASE c # NoCoid
    BY <1>0, <1>1, <2>2
  <2> QED
    BY <2>1, <2>2
<1>7. TypeOK'
  BY <1>0, <1>1, <1>3, <1>5, <1>6 DEF IInv, TypeOK, ThreadState, PC
<1>8. \/ thread'["connection"] = thread["connection"]
      \/ /\ thread["connection"].pc \notin {"open", "opened"}
         /\ thread'["connection"].pc \notin {"open", "opened"}
  <2>1. Idle.pc = "idle"
    BY DEF Idle
  <2> QED
    BY <1>0, <1>1, <1>2, <1>3, <2>1
<1>9. LinkInv'
  <2>1. \A k : Opened(k)' <=> Opened(k)
    BY <1>8 DEF Opened
  <2>2. \A j \in Local : link'[j] # NoCoid => j # i /\ link'[j] = link[j] /\ link[j] # c
    BY <1>1, <1>5 DEF IInv, LinkInv, connected
  <2>3. \A j \in Local : link'[j] # NoCoid => kernel'[link'[j]] \in {j, Dead}
    BY <1>0, <1>6, <2>2 DEF IInv, LinkInv, connected
  <2>4. \A j, k \in Local : j # k /\ link'[j] # NoCoid => link'[j] # link'[k]
    BY <1>5, <2>2 DEF IInv, LinkInv, connected
  <2>5. thread'["connection"].pc \in {"open", "opened"} =>
          link'[thread'["connection"].msg.to] = NoCoid
    <3> SUFFICES ASSUME thread'["connection"].pc \in {"open", "opened"}
                 PROVE  link'[thread'["connection"].msg.to] = NoCoid
      OBVIOUS
    <3>1. /\ thread'["connection"] = thread["connection"]
          /\ link[thread["connection"].msg.to] = NoCoid
          /\ thread["connection"].msg.to \in Local
      BY <1>8 DEF IInv, LinkInv, connected, ThreadInv, ThreadOK, Thread, Message
    <3> QED
      BY <1>5, <3>1
  <2>6. \A k \in Coid : Opened(k)' =>
          /\ kernel'[k] \in {thread'["connection"].msg.to, Dead}
          /\ \A j \in Local : link'[j] # k
    <3> SUFFICES ASSUME NEW k \in Coid, Opened(k)
                 PROVE  /\ kernel'[k] \in {thread'["connection"].msg.to, Dead}
                        /\ \A j \in Local : link'[j] # k
      BY <2>1
    <3>1. thread'["connection"] = thread["connection"]
      BY <1>8 DEF Opened
    <3>2. /\ kernel[k] \in {thread["connection"].msg.to, Dead}
          /\ \A j \in Local : link[j] # k
      BY DEF IInv, LinkInv
    <3> QED
      BY <1>0, <1>1, <1>5, <1>6, <3>1, <3>2
  <2>7. \A k \in Coid : kernel'[k] # Free => Opened(k)' \/ \E j \in Local : link'[j] = k
    <3> SUFFICES ASSUME NEW k \in Coid, kernel'[k] # Free
                 PROVE  Opened(k) \/ \E j \in Local : link'[j] = k
      BY <2>1
    <3>1. k # c /\ kernel[k] # Free
      BY <1>6
    <3>2. Opened(k) \/ \E j \in Local : link[j] = k
      BY <3>1 DEF IInv, LinkInv
    <3> QED
      BY <1>5, <3>1, <3>2
  <2> QED
    BY <2>3, <2>4, <2>5, <2>6, <2>7 DEF LinkInv, connected
<1>10. \/ t = "sender" /\ thread'["sender"].pc = "idle"
       \/ thread'["sender"] = thread["sender"]
       \/ /\ thread["sender"].pc = "reply" /\ thread'["sender"].pc = "failed"
          /\ thread'["sender"].msg = thread["sender"].msg
  <2>1. Idle.pc = "idle"
    BY DEF Idle
  <2> QED
    BY <1>0, <1>2, <1>3, <2>1
<1>11. OrderInv'
  BY <1>1, <1>10, OrderFrame DEF IInv
<1>12. SteadyInv'
  <2>1. ASSUME NEW j \in steady', SteadyAt(j)
        PROVE  /\ link'[j] = link[j] /\ kernel'[link[j]] = kernel[link[j]]
               /\ BeingSent(j) => BeingSent(j)'
               /\ BeingHandled(j) => BeingHandled(j)'
               /\ ActedOn(j) => ActedOn(j)'
    <3>1. j \in Local /\ j # i /\ link[j] # NoCoid
      BY <1>0, <1>1, <2>1 DEF SteadyAt, connected
    <3>2. link'[j] = link[j] /\ link[j] \in Coid /\ link[j] # c
      BY <1>0, <1>1, <1>5, <3>1 DEF IInv, LinkInv, connected
    <3>3. kernel'[link[j]] = kernel[link[j]]
      BY <1>6, <3>2
    <3>4. ASSUME BeingSent(j) PROVE BeingSent(j)'
      <4>1. t # "sender"
        BY <3>1, <3>4 DEF BeingSent, Latest
      <4>2. thread'["sender"] = thread["sender"]
        BY <1>10, <3>4, <4>1 DEF BeingSent
      <4> QED
        BY <1>1, <3>2, <3>4, <4>2 DEF BeingSent, Latest
    <3> QED
      BY <1>1, <3>2, <3>3, <3>4 DEF BeingHandled, ActedOn
  <2>2. steady' \subseteq steady
    BY <1>1
  <2> QED
    BY <1>1, <2>1, <2>2, SteadyFrame DEF IInv
<1> QED
  BY <1>4, <1>7, <1>9, <1>11, <1>12 DEF IInv

-----------------------------------------------------------------------------
(***************************************************************************)
(* The Locals.                                                             *)
(***************************************************************************)

\* A Local handles a message: it acts on a newer event of its crossing, or
\* refuses one of another crossing.
LEMMA HandleOK ==
  ASSUME IInv, NEW i \in Local, Handle(i)
  PROVE  /\ IInv'
         /\ \A j \in Local : hold'[j] # hold[j] =>
              hold[j] < hold'[j] /\ hold'[j] <= events[CrossingOf(j)]
<1> DEFINE m == comm[i]
           x == CrossingOf(i)
<1>0. /\ thread \in [Thread -> ThreadState] /\ comm \in [Local -> Message \cup {NoMessage}]
      /\ hold \in [Local -> Nat] /\ events \in [Crossing -> Nat]
      /\ "connection" \in Thread /\ "sender" \in Thread /\ steady \subseteq Local
      /\ x \in Crossing /\ hold[i] \in Nat /\ events[x] \in Nat
  BY Layout DEF IInv, TypeOK, ThreadInv, Thread
<1>1. /\ m # NoMessage /\ comm' = [comm EXCEPT ![i] = NoMessage]
      /\ hold' = IF railway_matches_local(i, m.crossing) THEN [hold EXCEPT ![i] = m.n] ELSE hold
      /\ thread' = [t \in Thread |->
           IF thread[t].pc = "reply" /\ kernel[thread[t].coid] = i THEN Idle ELSE thread[t]]
      /\ UNCHANGED <<events, pushing, outbox, dropped, link, kernel, up, failures, steady>>
  BY DEF Handle, train
<1>2. /\ m \in Message /\ m.crossing \in Crossing /\ m.n \in Nat /\ Announces(m)
      /\ m.crossing = x => hold[i] <= m.n /\ m.n <= events[x]
  <2>1. Announces(m) /\ (m.crossing = x => hold[i] <= m.n)
    BY <1>1 DEF IInv, OrderInv, LocalInv
  <2> QED
    BY <2>1 DEF Announces, Message
<1>3. /\ comm' \in [Local -> Message \cup {NoMessage}] /\ comm'[i] = NoMessage
      /\ \A j \in Local : j # i => comm'[j] = comm[j]
  BY <1>0, <1>1
<1>4. railway_matches_local(i, m.crossing) <=> m.crossing = x
  BY <1>2, Layout
<1> HIDE DEF m, x
<1>5. /\ hold' \in [Local -> Nat]
      /\ \A j \in Local : j # i => hold'[j] = hold[j]
      /\ hold'[i] = IF m.crossing = x THEN m.n ELSE hold[i]
  <2>1. CASE m.crossing = x
    BY <1>0, <1>1, <1>2, <1>4, <2>1
  <2>2. CASE m.crossing # x
    BY <1>0, <1>1, <1>4, <2>2
  <2> QED
    BY <2>1, <2>2
<1>6. hold[i] <= hold'[i] /\ hold'[i] <= events[x] /\ hold'[i] \in Nat
  <2>1. hold[i] <= events[x]
    BY DEF IInv, OrderInv, LocalInv, x
  <2> QED
    BY <1>0, <1>2, <1>5, <2>1
<1>7. /\ thread' \in [Thread -> ThreadState]
      /\ \A v \in Thread : \/ thread'[v] = thread[v]
                           \/ thread[v].pc = "reply" /\ thread'[v] = Idle
  <2>1. \A v \in Thread : \/ thread'[v] = thread[v]
                          \/ thread[v].pc = "reply" /\ thread'[v] = Idle
    BY <1>1
  <2>2. \A v \in Thread : thread'[v] \in ThreadState
    BY <1>0, <2>1, Messages
  <2> QED
    BY <1>1, <2>1, <2>2
<1>8. ThreadInv'
  BY <1>7, Messages DEF IInv, ThreadInv, ThreadOK
<1>9. TypeOK'
  BY <1>1, <1>3, <1>5, <1>7 DEF IInv, TypeOK, ThreadState, PC
<1>10. Idle.pc = "idle"
  BY DEF Idle
<1>11. LinkInv'
  BY <1>0, <1>1, <1>7, <1>10, LinkFrame DEF IInv
<1>12. OrderInv'
  <2>1. \A r : Announces(r)' <=> Announces(r)
    BY <1>1 DEF Announces
  <2>2. \A r : r.n \in Nat /\ NotLate(r) => NotLate(r)'
    <3> SUFFICES ASSUME NEW r, r.n \in Nat, NotLate(r) PROVE NotLate(r)'
      OBVIOUS
    <3>1. x = r.crossing => hold'[i] <= r.n
      BY <1>0, <1>1, <1>2, <1>5 DEF NotLate, Before, m, x
    <3> QED
      BY <1>3, <1>5, <3>1 DEF NotLate, Before, x
  <2>3. \A r : Announces(r) => r.n \in Nat
    BY DEF Announces, Message
  <2>4. Sending' => Sending /\ thread'["sender"].msg = thread["sender"].msg
    BY <1>0, <1>7, <1>10 DEF Sending
  <2>5. PushInv'
    BY <1>1, <2>1 DEF IInv, OrderInv, PushInv
  <2>6. OutboxInv'
    BY <1>1, <2>1, <2>2, <2>3, <2>4 DEF IInv, OrderInv, OutboxInv, Before
  <2>7. SenderInv'
    BY <2>1, <2>2, <2>3, <2>4 DEF IInv, OrderInv, SenderInv
  <2>8. LocalInv'
    BY <1>1, <1>3, <1>5, <1>6, <2>1 DEF IInv, OrderInv, LocalInv, x
  <2> QED
    BY <2>5, <2>6, <2>7, <2>8 DEF OrderInv
<1>13. SteadyInv'
  <2>1. ASSUME NEW j \in steady, SteadyAt(j)
        PROVE  /\ BeingSent(j) => BeingSent(j)'
               /\ BeingHandled(j) => BeingHandled(j)' \/ ActedOn(j)'
               /\ ActedOn(j) => ActedOn(j)'
    <3>0. j \in Local
      BY <1>0
    <3>1. BeingSent(j) => BeingSent(j)'
      BY <1>0, <1>1, <1>7 DEF BeingSent, Latest
    <3>2. CASE j # i
      BY <1>1, <1>3, <1>5, <3>0, <3>1, <3>2 DEF BeingHandled, ActedOn
    <3>3. CASE j = i
      <4>1. BeingHandled(i) => hold'[i] = events[x]
        BY <1>5 DEF BeingHandled, m, x
      <4>2. ActedOn(i) => hold'[i] = events[x]
        BY <1>0, <1>6 DEF ActedOn, x
      <4> QED
        BY <1>1, <3>1, <3>3, <4>1, <4>2 DEF ActedOn, x
    <3> QED
      BY <3>2, <3>3
  <2> QED
    BY <1>1, <2>1, SteadyFrame DEF IInv
<1>14. \A j \in Local : hold'[j] # hold[j] =>
         hold[j] < hold'[j] /\ hold'[j] <= events[CrossingOf(j)]
  <2>1. hold'[i] # hold[i] => hold[i] < hold'[i]
    BY <1>0, <1>6
  <2> QED
    BY <1>5, <1>6, <2>1 DEF x
<1> QED
  BY <1>8, <1>9, <1>11, <1>12, <1>13, <1>14 DEF IInv

\* The comm process of a Local ends: its connections lead nowhere.
LEMMA CommEndsOK ==
  ASSUME IInv, NEW i \in Local, CommEnds(i)
  PROVE  IInv'
<1> DEFINE coids == {c \in Coid : kernel[c] = i}
           w == Unblocked(coids)
<1>0. /\ thread \in [Thread -> ThreadState] /\ comm \in [Local -> Message \cup {NoMessage}]
      /\ link \in [Local -> Coid \cup {NoCoid}] /\ kernel \in [Coid -> Local \cup {Free, Dead}]
      /\ failures \in [timeouts: 0 .. MaxTimeouts, restarts: 0 .. MaxRestarts]
      /\ MaxRestarts \in Nat /\ steady \subseteq Local /\ up \subseteq Local
      /\ "connection" \in Thread /\ "sender" \in Thread
  BY RailwayLinkAssumption DEF IInv, TypeOK, ThreadInv, Thread
<1>1. /\ up' = up \ {i} /\ failures.restarts < MaxRestarts
      /\ kernel' = [c \in Coid |-> IF c \in coids THEN Dead ELSE kernel[c]]
      /\ thread' = w /\ comm' = [comm EXCEPT ![i] = NoMessage]
      /\ failures' = [failures EXCEPT !.restarts = failures.restarts + 1]
      /\ steady' = steady \ {i}
      /\ UNCHANGED <<events, pushing, outbox, dropped, link, hold>>
  BY DEF CommEnds, train
<1>2. /\ w \in [Thread -> ThreadState]
      /\ \A v \in Thread :
           /\ ThreadOK(v, w[v])
           /\ \/ w[v] = thread[v]
              \/ thread[v].pc = "reply" /\ w[v].pc = "failed" /\ w[v].msg = thread[v].msg
  BY UnblockedOK DEF IInv
<1> HIDE DEF w
<1>3. ThreadInv'
  BY <1>1, <1>2 DEF ThreadInv, ThreadOK
<1>4. /\ comm' \in [Local -> Message \cup {NoMessage}] /\ comm'[i] = NoMessage
      /\ \A j \in Local : j # i => comm'[j] = comm[j]
  BY <1>0, <1>1
<1>5. /\ kernel' \in [Coid -> Local \cup {Free, Dead}]
      /\ \A k \in Coid : kernel'[k] = IF kernel[k] = i THEN Dead ELSE kernel[k]
  BY <1>0, <1>1
<1>6. failures' \in [timeouts: 0 .. MaxTimeouts, restarts: 0 .. MaxRestarts]
  <2>1. failures.restarts + 1 \in 0 .. MaxRestarts
    BY <1>0, <1>1
  <2> QED
    BY <1>0, <1>1, <2>1
<1>7. TypeOK'
  BY <1>0, <1>1, <1>2, <1>4, <1>5, <1>6 DEF IInv, TypeOK, ThreadState, PC
<1>8. \/ thread'["connection"] = thread["connection"]
      \/ /\ thread["connection"].pc \notin {"open", "opened"}
         /\ thread'["connection"].pc \notin {"open", "opened"}
  BY <1>0, <1>1, <1>2
<1>9. LinkInv'
  <2>1. \A k : Opened(k)' <=> Opened(k)
    BY <1>8 DEF Opened
  <2>2. i # Free /\ Dead # Free
    BY Layout DEF Free, Dead
  <2>3. \A j \in Local : link'[j] # NoCoid => kernel'[link'[j]] \in {j, Dead}
    BY <1>0, <1>1, <1>5 DEF IInv, LinkInv, connected
  <2>4. \A j, k \in Local : j # k /\ link'[j] # NoCoid => link'[j] # link'[k]
    BY <1>1 DEF IInv, LinkInv, connected
  <2>5. thread'["connection"].pc \in {"open", "opened"} =>
          link'[thread'["connection"].msg.to] = NoCoid
    BY <1>1, <1>8 DEF IInv, LinkInv, connected
  <2>6. \A k \in Coid : Opened(k)' =>
          /\ kernel'[k] \in {thread'["connection"].msg.to, Dead}
          /\ \A j \in Local : link'[j] # k
    <3> SUFFICES ASSUME NEW k \in Coid, Opened(k)
                 PROVE  /\ kernel'[k] \in {thread'["connection"].msg.to, Dead}
                        /\ \A j \in Local : link'[j] # k
      BY <2>1
    <3>1. thread'["connection"] = thread["connection"]
      BY <1>8 DEF Opened
    <3> QED
      BY <1>1, <1>5, <3>1 DEF IInv, LinkInv
  <2>7. \A k \in Coid : kernel'[k] # Free => Opened(k)' \/ \E j \in Local : link'[j] = k
    BY <1>1, <1>5, <2>1, <2>2 DEF IInv, LinkInv
  <2> QED
    BY <2>3, <2>4, <2>5, <2>6, <2>7 DEF LinkInv, connected
<1>10. \/ thread'["sender"] = thread["sender"]
       \/ /\ thread["sender"].pc = "reply" /\ thread'["sender"].pc = "failed"
          /\ thread'["sender"].msg = thread["sender"].msg
  BY <1>0, <1>1, <1>2
<1>11. OrderInv'
  BY <1>1, <1>4, <1>10, OrderFrame DEF IInv
<1>12. SteadyInv'
  <2>1. ASSUME NEW j \in steady', SteadyAt(j)
        PROVE  /\ link'[j] = link[j] /\ kernel'[link[j]] = kernel[link[j]]
               /\ BeingSent(j) => BeingSent(j)'
               /\ BeingHandled(j) => BeingHandled(j)'
               /\ ActedOn(j) => ActedOn(j)'
    <3>1. j \in Local /\ j # i /\ link[j] \in Coid /\ kernel[link[j]] = j
      BY <1>0, <1>1, <2>1 DEF SteadyAt, connected
    <3>2. kernel'[link[j]] = kernel[link[j]]
      BY <1>5, <3>1
    <3>3. BeingSent(j) => BeingSent(j)'
      BY <1>1, <1>10 DEF BeingSent, Latest
    <3> QED
      BY <1>1, <1>4, <3>1, <3>2, <3>3 DEF BeingHandled, ActedOn
  <2>2. steady' \subseteq steady
    BY <1>1
  <2> QED
    BY <1>1, <2>1, <2>2, SteadyFrame DEF IInv
<1> QED
  BY <1>3, <1>7, <1>9, <1>11, <1>12 DEF IInv

\* A comm process starts; a core starts anew, without an event.
LEMMA RestartOK ==
  ASSUME IInv, NEW i \in Local, CommStarts(i) \/ CoreRestarts(i)
  PROVE  IInv'
<1>0. /\ hold \in [Local -> Nat] /\ up \subseteq Local /\ steady \subseteq Local
      /\ failures \in [timeouts: 0 .. MaxTimeouts, restarts: 0 .. MaxRestarts]
      /\ MaxRestarts \in Nat /\ events \in [Crossing -> Nat]
  BY RailwayLinkAssumption DEF IInv, TypeOK
<1>1. CASE CommStarts(i)
  <2>1. /\ up' \subseteq Local
        /\ UNCHANGED <<events, pushing, outbox, dropped, link, thread, kernel, comm, hold,
                       failures, steady>>
    BY <1>0, <1>1 DEF CommStarts, train
  <2>2. TypeOK' /\ ThreadInv'
    BY <2>1 DEF IInv, TypeOK, ThreadInv
  <2>3. LinkInv' /\ OrderInv' /\ SteadyInv'
    BY <2>1, LinkFrame, OrderFrame, SteadySame DEF IInv
  <2> QED
    BY <2>2, <2>3 DEF IInv
<1>2. CASE CoreRestarts(i)
  <2>1. /\ hold' = [hold EXCEPT ![i] = 0] /\ failures.restarts < MaxRestarts
        /\ failures' = [failures EXCEPT !.restarts = failures.restarts + 1]
        /\ steady' = steady \ {i}
        /\ UNCHANGED <<events, pushing, outbox, dropped, link, thread, kernel, up, comm>>
    BY <1>2 DEF CoreRestarts, train
  <2>2. /\ hold' \in [Local -> Nat] /\ hold'[i] = 0
        /\ \A j \in Local : j # i => hold'[j] = hold[j]
    BY <1>0, <2>1
  <2>3. failures' \in [timeouts: 0 .. MaxTimeouts, restarts: 0 .. MaxRestarts]
    <3>1. failures.restarts + 1 \in 0 .. MaxRestarts
      BY <1>0, <2>1
    <3> QED
      BY <1>0, <2>1, <3>1
  <2>4. TypeOK' /\ ThreadInv' /\ LinkInv'
    BY <1>0, <2>1, <2>2, <2>3, LinkFrame DEF IInv, TypeOK, ThreadInv
  <2>5. OrderInv'
    <3>1. \A r : Announces(r)' <=> Announces(r)
      BY <2>1 DEF Announces
    <3>2. \A r : r.n \in Nat /\ NotLate(r) => NotLate(r)'
      BY <2>1, <2>2 DEF NotLate
    <3>3. \A r : Announces(r) => r.n \in Nat
      BY DEF Announces, Message
    <3>4. PushInv'
      BY <2>1, <3>1 DEF IInv, OrderInv, PushInv
    <3>5. OutboxInv' /\ SenderInv'
      BY <2>1, <3>1, <3>2, <3>3 DEF IInv, OrderInv, OutboxInv, SenderInv, Sending
    <3>6. \A j \in Local : events[CrossingOf(j)] \in Nat
      BY <1>0, Layout
    <3>7. LocalInv'
      BY <2>1, <2>2, <3>1, <3>3, <3>6 DEF IInv, OrderInv, LocalInv
    <3> QED
      BY <3>4, <3>5, <3>7 DEF OrderInv
  <2>6. SteadyInv'
    <3>1. ASSUME NEW j \in steady'
          PROVE  /\ BeingSent(j) => BeingSent(j)'
                 /\ BeingHandled(j) => BeingHandled(j)'
                 /\ ActedOn(j) => ActedOn(j)'
      <4>1. j \in Local /\ j # i
        BY <1>0, <2>1, <3>1
      <4> QED
        BY <2>1, <2>2, <4>1 DEF BeingSent, BeingHandled, ActedOn, Latest
    <3>2. steady' \subseteq steady
      BY <2>1
    <3> QED
      BY <2>1, <3>1, <3>2, SteadyFrame DEF IInv
  <2> QED
    BY <2>4, <2>5, <2>6 DEF IInv
<1> QED
  BY <1>1, <1>2

-----------------------------------------------------------------------------
(***************************************************************************)
(* The invariant holds, and what follows from it.                          *)
(***************************************************************************)

\* The Train starts with no link, an empty outbox and no event asked for.
LEMMA InitOK == Init => IInv
<1> SUFFICES ASSUME Init PROVE IInv
  OBVIOUS
<1> DEFINE zero == 0
<1>1. /\ events = [x \in Crossing |-> zero] /\ pushing = << >> /\ outbox = << >> /\ dropped = zero
      /\ link = [i \in Local |-> NoCoid] /\ thread = [t \in Thread |-> Idle]
      /\ kernel = [c \in Coid |-> Free] /\ up = Local
      /\ comm = [i \in Local |-> NoMessage] /\ hold = [i \in Local |-> zero]
      /\ steady = {} /\ zero \in Nat /\ zero <= zero
      /\ failures = [timeouts |-> 0, restarts |-> 0]
  BY DEF Init
<1>2. << >> \in Seq(Message) /\ Len(<< >>) <= OUTBOX_CAPACITY
  BY RailwayLinkAssumption, EmptySeq
<1>3. failures \in [timeouts: 0 .. MaxTimeouts, restarts: 0 .. MaxRestarts]
  BY <1>1, RailwayLinkAssumption
<1> HIDE DEF zero
<1>4. ThreadInv
  BY <1>1, Messages DEF ThreadInv
<1>5. TypeOK
  <2>1. thread \in [Thread -> [pc: {"idle", "open", "opened", "link", "coid", "reply", "failed"},
                               coid: Coid \cup {NoCoid}, msg: Message \cup {NoMessage}]]
    BY <1>4 DEF ThreadInv, ThreadState, PC
  <2> QED
    BY <1>1, <1>2, <1>3, <2>1 DEF TypeOK
<1>6. LinkInv
  <2>1. thread["connection"].pc = "idle"
    BY <1>1 DEF Thread, Idle
  <2> QED
    BY <1>1, <2>1 DEF LinkInv, Opened, connected
<1>7. OrderInv
  <2>1. thread["sender"].pc = "idle"
    BY <1>1 DEF Thread, Idle
  <2>2. DOMAIN pushing = {} /\ DOMAIN outbox = {}
    BY <1>1, EmptySeq
  <2>3. PushInv /\ OutboxInv /\ SenderInv
    BY <2>1, <2>2 DEF PushInv, OutboxInv, SenderInv, Sending
  <2>4. LocalInv
    BY <1>1, Layout DEF LocalInv
  <2> QED
    BY <2>3, <2>4 DEF OrderInv
<1> QED
  BY <1>1, <1>4, <1>5, <1>6, <1>7 DEF IInv, SteadyInv

\* Every step keeps the invariant.
LEMMA StepOK == IInv /\ [Next]_vars => IInv'
<1> SUFFICES ASSUME IInv, [Next]_vars PROVE IInv'
  OBVIOUS
<1>1. CASE \E x \in Crossing : queue_railway_message(x)
  BY <1>1, QueueOK
<1>2. CASE outbox_push
  BY <1>2, PushOK
<1>3. CASE sender_thread
  BY <1>3, SenderOK
<1>4. CASE name_open
  BY <1>4, NameOpenOK
<1>5. CASE Connected
  BY <1>5, ConnectedOK
<1>6. CASE \E t \in Thread :
             connection_get_coid(t) \/ MsgSend(t) \/ connection_close(t) \/ Timeout(t)
  BY <1>6, GetCoidOK, MsgSendOK, CloseOK, TimeoutOK
<1>7. CASE \E i \in Local : heartbeat_thread(i) \/ connection_try_connect(i)
  BY <1>7, TurnOK
<1>8. CASE \E i \in Local : Handle(i)
  BY <1>8, HandleOK
<1>9. CASE \E i \in Local : CommEnds(i)
  BY <1>9, CommEndsOK
<1>10. CASE \E i \in Local : CommStarts(i) \/ CoreRestarts(i)
  BY <1>10, RestartOK
<1>11. CASE UNCHANGED vars
  <2>1. UNCHANGED <<events, pushing, outbox, dropped, link, thread, kernel, up, comm, hold,
                    failures, steady>>
    BY <1>11 DEF vars, train, locals
  <2>2. TypeOK' /\ ThreadInv'
    BY <2>1 DEF IInv, TypeOK, ThreadInv
  <2>3. LinkInv' /\ OrderInv' /\ SteadyInv'
    BY <2>1, LinkFrame, OrderFrame, SteadySame DEF IInv
  <2> QED
    BY <2>2, <2>3 DEF IInv
<1> QED
  BY <1>1, <1>2, <1>3, <1>4, <1>5, <1>6, <1>7, <1>8, <1>9, <1>10, <1>11 DEF Next

\* Whatever the three threads, the Locals and the failures do, the invariant holds.
THEOREM RailwayInvariant == Spec => []IInv
<1> QED
  BY InitOK, StepOK, PTL DEF Spec

\* No thread leaks a connection or makes two links share one, and the outbox
\* keeps to its size: connection_close and connection_try_connect between them
\* account for every connection id that the kernel has given out.
THEOREM LinksAccounted == Spec => []NoLeak
<1>1. IInv => NoLeak
  <2> SUFFICES ASSUME IInv PROVE NoLeak
    OBVIOUS
  <2> DEFINE opening == IF thread["connection"].pc = "opened"
                        THEN {thread["connection"].coid} ELSE {}
             held == {link[i] : i \in Local} \ {NoCoid}
  <2>1. /\ link \in [Local -> Coid \cup {NoCoid}] /\ NoCoid \notin Coid
        /\ \A i \in Local : i # Free /\ Dead # Free
    BY RailwayLinkAssumption, Layout DEF IInv, TypeOK, Free, Dead
  <2>2. thread["connection"].pc = "opened" =>
          /\ thread["connection"].coid \in Coid
          /\ thread["connection"].msg.to \in Local
    BY DEF IInv, ThreadInv, ThreadOK, Thread, Message
  <2>3. ASSUME NEW c \in Coid, kernel[c] # Free PROVE c \in held \cup opening
    <3>1. CASE Opened(c)
      BY <3>1 DEF Opened
    <3>2. CASE \E i \in Local : link[i] = c
      BY <2>1, <3>2
    <3> QED
      BY <2>3, <3>1, <3>2 DEF IInv, LinkInv
  <2>4. ASSUME NEW c \in held PROVE c \in Coid /\ kernel[c] # Free /\ c \notin opening
    <3>1. PICK i \in Local : link[i] = c /\ c # NoCoid
      OBVIOUS
    <3>2. c \in Coid /\ kernel[c] \in {i, Dead}
      BY <2>1, <3>1 DEF IInv, LinkInv, connected
    <3>3. c \notin opening
      BY <3>1, <3>2 DEF IInv, LinkInv, Opened
    <3> QED
      BY <2>1, <3>1, <3>2, <3>3
  <2>5. ASSUME NEW c \in opening PROVE c \in Coid /\ kernel[c] # Free
    <3>1. c \in Coid /\ Opened(c)
      BY <2>2 DEF Opened
    <3>2. kernel[c] \in {thread["connection"].msg.to, Dead}
      BY <3>1 DEF IInv, LinkInv
    <3> QED
      BY <2>1, <2>2, <3>1, <3>2 DEF Opened
  <2>6. {c \in Coid : kernel[c] # Free} = held \cup opening /\ held \cap opening = {}
    <3> HIDE DEF held, opening
    <3> QED
      BY <2>3, <2>4, <2>5
  <2>7. /\ \A i, j \in Local : i # j /\ connected(i) => link[i] # link[j]
        /\ \A i \in Local : connected(i) => kernel[link[i]] \in {i, Dead}
    BY DEF IInv, LinkInv
  <2>8. TypeOK
    BY DEF IInv
  <2> QED
    BY <2>6, <2>7, <2>8 DEF NoLeak
<1> QED
  BY <1>1, RailwayInvariant, PTL

\* A Local whose link and processes stay well acts on its crossing's latest
\* event, or the event is still on its way: deliver loses nothing of its own.
THEOREM SteadyDelivered == Spec => []Delivered
<1>1. IInv => Delivered
  <2> SUFFICES ASSUME IInv, NEW i \in Local \cap steady
               PROVE  Underway(i) \/ hold[i] = events[CrossingOf(i)]
    BY DEF Delivered
  <2>1. Queued(i) \/ BeingSent(i) \/ BeingHandled(i) \/ ActedOn(i)
    BY DEF IInv, SteadyInv, SteadyAt
  <2>2. ASSUME Queued(i) PROVE Underway(i)
    BY <2>2 DEF Queued, Latest, Underway, Range
  <2>3. ASSUME BeingSent(i) PROVE Underway(i)
    BY <2>3 DEF BeingSent, Latest, Underway
  <2>4. ASSUME BeingHandled(i) PROVE Underway(i)
    BY <2>4 DEF BeingHandled, Underway, IInv, OrderInv, LocalInv, Announces
  <2> QED
    BY <2>1, <2>2, <2>3, <2>4 DEF ActedOn
<1> QED
  BY <1>1, RailwayInvariant, PTL

\* A Local never goes back to an older event, and never acts on one that its
\* crossing did not ask for, however links fail and connection ids are reused;
\* only the restart of its core clears it.
THEOREM EventsInOrder == Spec => InOrder
<1> DEFINE Forward == \A i \in Local : hold'[i] # hold[i] =>
                        \/ hold'[i] = 0
                        \/ hold[i] < hold'[i] /\ hold'[i] <= events[CrossingOf(i)]
<1>1. IInv /\ [Next]_vars => [Forward]_vars
  <2> SUFFICES ASSUME IInv, Next PROVE Forward
    OBVIOUS
  <2>1. CASE \E i \in Local : Handle(i)
    BY <2>1, HandleOK
  <2>2. CASE \E i \in Local : CoreRestarts(i)
    <3>1. PICK j \in Local : CoreRestarts(j)
      BY <2>2
    <3>2. hold' = [hold EXCEPT ![j] = 0] /\ hold \in [Local -> Nat]
      BY <3>1 DEF CoreRestarts, IInv, TypeOK
    <3> QED
      BY <3>2
  <2>3. CASE UNCHANGED hold
    BY <2>3
  <2>4. \/ UNCHANGED hold
        \/ \E i \in Local : Handle(i) \/ CoreRestarts(i)
    BY DEF Next, queue_railway_message, outbox_push, sender_thread, name_open, Connected,
           connection_get_coid, MsgSend, connection_close, Timeout, heartbeat_thread,
           connection_try_connect, CommEnds, CommStarts, locals
  <2> HIDE DEF Forward
  <2> QED
    BY <2>1, <2>2, <2>3, <2>4
<1> QED
  BY <1>1, RailwayInvariant, PTL DEF Spec, InOrder
============================================================================
