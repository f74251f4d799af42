----------------------------- MODULE RailwayLink -----------------------------
(***************************************************************************)
(* How PREEMPT and CLEAR reach the Locals (train_controller.c and          *)
(* common/communication): the crossings' callbacks queue them, a sender    *)
(* thread delivers them, and a heartbeat and a connection thread use the   *)
(* same links.  A step is what a thread does under one hold of a mutex, or *)
(* one kernel call: the connection id is read under the lock and used      *)
(* after it, when the link may have been closed and the id reused.         *)
(*                                                                         *)
(* A railway message says only which event of which crossing it announces: *)
(* a Local that acted on the crossing's latest event is up to date.        *)
(***************************************************************************)
EXTENDS Integers, Sequences, FiniteSets, Functions

CONSTANTS
  Crossing,               \* the crossings
  LocalsOf,               \* per crossing, the Locals it affects (1 to 6), in order
  Coid, NoCoid,           \* connection ids, and -1
  OUTBOX_CAPACITY,        \* messages that can wait for the sender
  MaxEvents,              \* bound: per crossing, the messages it asks for
  MaxTimeouts, MaxRestarts \* bounds: calls that time out, processes that end

Local == UNION {Range(LocalsOf[x]) : x \in Crossing}
Thread == {"sender", "heartbeat", "connection"}

\* The crossing that affects a Local, as the Train knows it.
CrossingOf(i) == CHOOSE x \in Crossing : i \in Range(LocalsOf[x])

ASSUME RailwayLinkAssumption ==
  /\ NoCoid \notin Coid
  /\ OUTBOX_CAPACITY \in Nat \ {0}
  /\ MaxEvents \in [Crossing -> Nat] /\ {MaxTimeouts, MaxRestarts} \subseteq Nat
  /\ Crossing \subseteq 1 .. 3
  /\ \A x \in Crossing : LocalsOf[x] \in Seq({2 * x - 1, 2 * x})

VARIABLES
  events,                 \* per crossing, how many PREEMPTs and CLEARs it asked for
  pushing,                \* what a callback still has to queue
  outbox, dropped,        \* the queue of the sender, and what did not fit
  link,                   \* the connection of each link, NoCoid when not connected
  thread,                 \* where each thread is
  kernel,                 \* the Local each connection id leads to, or Free, or Dead
  up,                     \* the Locals that have published their name
  comm,                   \* the message each Local is handling
  hold,                   \* the last event each Local acted on
  failures,               \* failures so far
  steady                  \* Locals whose link and processes were well since they were
                          \* last sent something (for the properties only)

train == <<events, pushing, outbox, dropped>>
locals == <<up, comm, hold>>
vars == <<train, link, thread, kernel, locals, failures, steady>>

-----------------------------------------------------------------------------
Free == 0                 \* a connection id not in use
Dead == -1                \* one whose server has ended

Message == [to: Local, type: {"RAILWAY", "PROBE"}, crossing: Crossing \cup {0},
            n: Nat]

\* A heartbeat or a test message.
Probe(i) == [to |-> i, type |-> "PROBE", crossing |-> 0, n |-> 0]
NoMessage == Probe(0)

Idle == [pc |-> "idle", coid |-> NoCoid, msg |-> NoMessage]

Init ==
  /\ events = [x \in Crossing |-> 0]
  /\ pushing = << >> /\ outbox = << >> /\ dropped = 0
  /\ link = [i \in Local |-> NoCoid]
  /\ thread = [t \in Thread |-> Idle]
  /\ kernel = [c \in Coid |-> Free]
  /\ up = Local
  /\ comm = [i \in Local |-> NoMessage]
  /\ hold = [i \in Local |-> 0]
  /\ failures = [timeouts |-> 0, restarts |-> 0]
  /\ steady = {}

-----------------------------------------------------------------------------
(***************************************************************************)
(* Callbacks of the simulator, which run under its lock.                   *)
(***************************************************************************)
queue_railway_message(x) ==
  /\ pushing = << >> /\ events[x] < MaxEvents[x]
  /\ events' = [events EXCEPT ![x] = @ + 1]
  /\ pushing' = [k \in DOMAIN LocalsOf[x] |->
       [to |-> LocalsOf[x][k], type |-> "RAILWAY", crossing |-> x, n |-> events'[x]]]
  /\ UNCHANGED <<outbox, dropped, link, thread, kernel, locals, failures, steady>>

outbox_push ==
  /\ pushing # << >>
  /\ pushing' = Tail(pushing)
  /\ IF Len(outbox) < OUTBOX_CAPACITY
     THEN outbox' = Append(outbox, Head(pushing)) /\ UNCHANGED dropped
     ELSE dropped' = dropped + 1 /\ UNCHANGED outbox
  /\ steady' = LET i == Head(pushing).to
               IN  IF link[i] # NoCoid /\ kernel[link[i]] = i /\ dropped' = dropped
                   THEN steady \cup {i} ELSE steady \ {i}
  /\ UNCHANGED <<events, link, thread, kernel, locals, failures>>

-----------------------------------------------------------------------------
(***************************************************************************)
(* Where the threads begin to use a link.                                  *)
(***************************************************************************)
connected(i) == link[i] # NoCoid

sender_thread ==
  /\ thread["sender"].pc = "idle" /\ outbox # << >>
  /\ outbox' = Tail(outbox)
  /\ thread' = [thread EXCEPT !["sender"].pc = "link", !["sender"].msg = Head(outbox)]
  /\ UNCHANGED <<events, pushing, dropped, link, kernel, locals, failures, steady>>

\* The heartbeat, or send-local of the console.
heartbeat_thread(i) ==
  /\ thread["heartbeat"].pc = "idle" /\ connected(i)
  /\ thread' = [thread EXCEPT !["heartbeat"] = [pc |-> "coid", coid |-> link[i], msg |-> Probe(i)]]
  /\ UNCHANGED <<train, link, kernel, locals, failures, steady>>

\* connection_try_connect, called by the connection thread only
connection_try_connect(i) ==
  /\ thread["connection"].pc = "idle" /\ ~connected(i)
  /\ thread' = [thread EXCEPT !["connection"].pc = "open", !["connection"].msg = Probe(i)]
  /\ UNCHANGED <<train, link, kernel, locals, failures, steady>>

name_open ==
  LET i == thread["connection"].msg.to
  IN  /\ thread["connection"].pc = "open"
      /\ \/ /\ i \in up
            /\ \E c \in Coid :
                 /\ kernel[c] = Free
                 /\ kernel' = [kernel EXCEPT ![c] = i]
                 /\ thread' = [thread EXCEPT !["connection"].pc = "opened",
                                             !["connection"].coid = c]
         \/ /\ i \notin up
            /\ thread' = [thread EXCEPT !["connection"] = Idle]
            /\ UNCHANGED kernel
      /\ UNCHANGED <<train, link, locals, failures, steady>>

\* The link is up, and a test message goes over it.
Connected ==
  /\ thread["connection"].pc = "opened"
  /\ link' = [link EXCEPT ![thread["connection"].msg.to] = thread["connection"].coid]
  /\ thread' = [thread EXCEPT !["connection"].pc = "link", !["connection"].coid = NoCoid]
  /\ UNCHANGED <<train, kernel, locals, failures, steady>>

-----------------------------------------------------------------------------
(***************************************************************************)
(* send_message_timeout                                                    *)
(***************************************************************************)
\* deliver and connection_get_coid: without a link the message is gone.
connection_get_coid(t) ==
  LET c == link[thread[t].msg.to]
  IN  /\ thread[t].pc = "link"
      /\ thread' = [thread EXCEPT ![t] = IF c = NoCoid THEN Idle
                                         ELSE [@ EXCEPT !.pc = "coid", !.coid = c]]
      /\ UNCHANGED <<train, link, kernel, locals, failures, steady>>

\* Mutant: a failed send leaves the link as it is.
MsgSend_NoClose(t) ==
  LET i == kernel[thread[t].coid]
      m == thread[t].msg
  IN  /\ thread[t].pc = "coid"
      /\ \/ /\ i \notin Local \/ m.type = "PROBE"
            /\ thread' = [thread EXCEPT ![t] = Idle]
            /\ UNCHANGED comm
         \/ /\ i \in Local /\ m.type = "RAILWAY" /\ comm[i] = NoMessage
            /\ comm' = [comm EXCEPT ![i] = m]
            /\ thread' = [thread EXCEPT ![t].pc = "reply"]
      /\ UNCHANGED <<train, link, kernel, up, hold, failures, steady>>

\* A connection that leads nowhere is an error.  A probe is answered at once; a
\* railway message waits until the Local is free for it and has handled it.
MsgSend(t) ==
  LET i == kernel[thread[t].coid]
      m == thread[t].msg
  IN  /\ thread[t].pc = "coid"
      /\ \/ /\ i \notin Local
            /\ thread' = [thread EXCEPT ![t].pc = "failed"]
            /\ UNCHANGED comm
         \/ /\ i \in Local /\ m.type = "PROBE"
            /\ thread' = [thread EXCEPT ![t] = Idle]
            /\ UNCHANGED comm
         \/ /\ i \in Local /\ m.type = "RAILWAY" /\ comm[i] = NoMessage
            /\ comm' = [comm EXCEPT ![i] = m]
            /\ thread' = [thread EXCEPT ![t].pc = "reply"]
      /\ UNCHANGED <<train, link, kernel, up, hold, failures, steady>>

\* A sender whose connection goes away gets an error.
Unblocked(coids) ==
  [t \in Thread |-> IF thread[t].pc = "reply" /\ thread[t].coid \in coids
                    THEN [thread[t] EXCEPT !.pc = "failed"] ELSE thread[t]]

\* SEND_TIMEOUT_MS have passed; a message already received is still handled.
Timeout(t) ==
  /\ thread[t].pc \in {"coid", "reply"} /\ failures.timeouts < MaxTimeouts
  /\ thread' = [thread EXCEPT ![t].pc = "failed"]
  /\ failures' = [failures EXCEPT !.timeouts = @ + 1]
  /\ UNCHANGED <<train, link, kernel, locals, steady>>

\* Mutant: name_close is forgotten.
connection_close_Leaks(t) ==
  LET i == thread[t].msg.to
  IN  /\ thread[t].pc = "failed"
      /\ link' = [link EXCEPT ![i] = NoCoid]
      /\ thread' = [thread EXCEPT ![t] = Idle]
      /\ steady' = steady \ {i}
      /\ UNCHANGED <<train, kernel, locals, failures>>

\* Mutant: a railway message that failed goes to the end of the queue.
connection_close_Requeues(t) ==
  LET i == thread[t].msg.to
      c == link[i]
  IN  /\ thread[t].pc = "failed"
      /\ link' = [link EXCEPT ![i] = NoCoid]
      /\ kernel' = IF c = NoCoid THEN kernel ELSE [kernel EXCEPT ![c] = Free]
      /\ thread' = [Unblocked({c}) EXCEPT ![t] = Idle]
      /\ outbox' = IF t = "sender" THEN Append(outbox, thread[t].msg) ELSE outbox
      /\ steady' = steady \ {i}
      /\ UNCHANGED <<events, pushing, dropped, locals, failures>>

connection_close(t) ==
  LET i == thread[t].msg.to
      c == link[i]
  IN  /\ thread[t].pc = "failed"
      /\ link' = [link EXCEPT ![i] = NoCoid]
      /\ kernel' = IF c = NoCoid THEN kernel ELSE [kernel EXCEPT ![c] = Free]
      /\ thread' = [Unblocked({c}) EXCEPT ![t] = Idle]
      /\ steady' = steady \ {i}
      /\ UNCHANGED <<train, locals, failures>>

-----------------------------------------------------------------------------
(***************************************************************************)
(* The Locals: run_comm and run_core handle one message at a time.         *)
(***************************************************************************)
railway_crossing_for_local(i) == IF i <= 2 THEN 1 ELSE IF i <= 4 THEN 2 ELSE 3

\* Mutant: the Train's ids, 1 to 3, are taken for the protocol's, 0 to 2.
railway_matches_local_ZeroBased(i, x) == x + 1 = railway_crossing_for_local(i)

\* Also accepts 0 at the first crossing, which the Train never sends.
railway_matches_local(i, x) ==
  LET crossing == railway_crossing_for_local(i)
  IN  x = crossing \/ (crossing = 1 /\ x = 0)

\* A Local of another crossing refuses, but the sender ignores the reply.
Handle(i) ==
  LET m == comm[i]
  IN  /\ m # NoMessage
      /\ comm' = [comm EXCEPT ![i] = NoMessage]
      /\ hold' = IF railway_matches_local(i, m.crossing) THEN [hold EXCEPT ![i] = m.n] ELSE hold
      /\ thread' = [t \in Thread |->
           IF thread[t].pc = "reply" /\ kernel[thread[t].coid] = i THEN Idle ELSE thread[t]]
      /\ UNCHANGED <<train, link, kernel, up, failures, steady>>

\* The comm process of a Local ends, and its connections with it.
CommEnds(i) ==
  LET coids == {c \in Coid : kernel[c] = i}
  IN  /\ i \in up /\ failures.restarts < MaxRestarts
      /\ up' = up \ {i}
      /\ kernel' = [c \in Coid |-> IF c \in coids THEN Dead ELSE kernel[c]]
      /\ thread' = Unblocked(coids)
      /\ comm' = [comm EXCEPT ![i] = NoMessage]
      /\ failures' = [failures EXCEPT !.restarts = @ + 1]
      /\ steady' = steady \ {i}
      /\ UNCHANGED <<train, link, hold>>

CommStarts(i) ==
  /\ i \notin up
  /\ up' = up \cup {i}
  /\ UNCHANGED <<train, link, thread, kernel, comm, hold, failures, steady>>

\* The core of a Local is restarted, and with it its signals.
CoreRestarts(i) ==
  /\ failures.restarts < MaxRestarts /\ hold[i] # 0
  /\ hold' = [hold EXCEPT ![i] = 0]
  /\ failures' = [failures EXCEPT !.restarts = @ + 1]
  /\ steady' = steady \ {i}
  /\ UNCHANGED <<train, link, thread, kernel, up, comm>>

-----------------------------------------------------------------------------
Next ==
  \/ \E x \in Crossing : queue_railway_message(x)
  \/ outbox_push \/ sender_thread \/ name_open \/ Connected
  \/ \E t \in Thread : connection_get_coid(t) \/ MsgSend(t) \/ connection_close(t) \/ Timeout(t)
  \/ \E i \in Local :
       \/ heartbeat_thread(i) \/ connection_try_connect(i)
       \/ Handle(i) \/ CommEnds(i) \/ CommStarts(i) \/ CoreRestarts(i)

(***************************************************************************)
(* Every thread runs, and MsgSend ends: a Local answers, or the call times *)
(* out.  The heartbeat and the connection thread visit all links in turn,  *)
(* so each link gets its turn whenever it keeps needing one.               *)
(***************************************************************************)
Fairness ==
  /\ WF_vars(outbox_push) /\ WF_vars(sender_thread)
  /\ WF_vars(name_open) /\ WF_vars(Connected)
  /\ \A t \in Thread : WF_vars(connection_get_coid(t) \/ MsgSend(t) \/ connection_close(t))
  /\ \A i \in Local : /\ WF_vars(Handle(i))
                      /\ SF_vars(heartbeat_thread(i)) /\ SF_vars(connection_try_connect(i))

Spec == Init /\ [][Next]_vars /\ Fairness

-----------------------------------------------------------------------------
\* Every variable has its type.
TypeOK ==
  /\ events \in [Crossing -> Nat]
  /\ pushing \in Seq(Message)
  /\ outbox \in Seq(Message) /\ Len(outbox) <= OUTBOX_CAPACITY /\ dropped \in Nat
  /\ link \in [Local -> Coid \cup {NoCoid}]
  /\ thread \in [Thread -> [pc: {"idle", "open", "opened", "link", "coid",
                                 "reply", "failed"},
                            coid: Coid \cup {NoCoid}, msg: Message \cup {NoMessage}]]
  /\ kernel \in [Coid -> Local \cup {Free, Dead}]
  /\ up \subseteq Local /\ steady \subseteq Local
  /\ comm \in [Local -> Message \cup {NoMessage}]
  /\ hold \in [Local -> Nat]
  /\ failures \in [timeouts: 0 .. MaxTimeouts, restarts: 0 .. MaxRestarts]

\* Links that close and open under the hands of three threads neither leak a
\* connection nor share one, and the outbox keeps to its size (connection.c).
NoLeak ==
  LET opening == IF thread["connection"].pc = "opened" THEN {thread["connection"].coid} ELSE {}
      held == {link[i] : i \in Local} \ {NoCoid}
  IN  /\ TypeOK
      /\ {c \in Coid : kernel[c] # Free} = held \cup opening
      /\ held \cap opening = {}
      /\ \A i, j \in Local : i # j /\ connected(i) => link[i] # link[j]
      /\ \A i \in Local : connected(i) => kernel[link[i]] \in {i, Dead}

Underway(i) ==
  \/ \E m \in Range(pushing) \cup Range(outbox) : m.to = i
  \/ thread["sender"].pc # "idle" /\ thread["sender"].msg.to = i
  \/ comm[i].type = "RAILWAY"

\* A railway message is lost only by a full outbox, a failed send or a link
\* that was down: otherwise its Local acts on it (deliver has no retry).
Delivered ==
  \A i \in Local \cap steady :
    Underway(i) \/ hold[i] = events[CrossingOf(i)]

\* Whatever is lost, sent late or sent to the wrong Local over a reused
\* connection id, a Local never goes back to an older event of its crossing.
InOrder ==
  [][\A i \in Local : hold'[i] # hold[i] =>
       \/ hold'[i] = 0
       \/ hold[i] < hold'[i] /\ hold'[i] <= events[CrossingOf(i)]]_vars

\* A link that broke is noticed and opened again once its Local is back.
LinkComesBack ==
  \A i \in Local : <>[](i \in up) => []<>(connected(i) /\ kernel[link[i]] = i)
=============================================================================
