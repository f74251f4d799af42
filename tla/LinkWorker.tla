----------------------------- MODULE LinkWorker -----------------------------
(***************************************************************************)
(* A link of Central to one peer (central_controller/src/ipc.c): blocking  *)
(* kernel calls run in a worker thread, so that the thread that uses the   *)
(* link (peer_thread in central_controller.c) waits 500 ms at the most.    *)
(* At the end the main thread destroys the link.                           *)
(*                                                                         *)
(* A step is what one thread does under one hold of the link's mutex.  The *)
(* worker lets go of it for name_open, MsgSend and name_close; each of     *)
(* these ends in the step that takes the mutex again.  The peer's wait is  *)
(* timed, so it may give up at any moment; the worker's is not, so it      *)
(* sleeps until a broadcast.                                               *)
(***************************************************************************)
EXTENDS Integers, Sequences

CONSTANTS
  Coid,                   \* connection ids the kernel may hand out
  NoCoid,                 \* -1
  CommandId,              \* ids of commands, each a pair of bytes
  MaxCalls                \* bound: how many requests are made

Byte == 0 .. 255
NoId == << 0, 0 >>        \* the id of a heartbeat
Heartbeat == [kind |-> "HEARTBEAT", id |-> NoId]
Request == {Heartbeat} \cup [kind: {"COMMAND", "SIM"}, id: CommandId]

ASSUME LinkAssumption ==
  /\ NoCoid \notin Coid /\ Coid # {}
  /\ CommandId \subseteq (Byte \X Byte) \ {NoId}
  /\ MaxCalls \in Nat

VARIABLES
  link,                   \* central_link_state_t
  worker,                 \* link_worker: where it is and its locals
  peer,                   \* the thread that uses the link
  main,                   \* the thread that destroys it
  endpoint_connected,     \* what Central believes of the link
  calls,                  \* the requests made and their fates
  open                    \* the connections open in the kernel

vars == <<link, worker, peer, main, endpoint_connected, calls, open>>

Job == {"NONE", "CONNECT", "SEND"}
LinkState ==
  [coid: Coid \cup {NoCoid}, connected: BOOLEAN, close_requested: BOOLEAN,
   stopping: BOOLEAN, exited: BOOLEAN, detached: BOOLEAN, busy: BOOLEAN,
   done: BOOLEAN, abandoned: BOOLEAN, job: Job, generation: Nat,
   job_generation: Nat, result: {"OK", "REJECTED", "PROTOCOL", "TRANSPORT"}]

Init ==
  /\ link = [coid |-> NoCoid, connected |-> FALSE, close_requested |-> FALSE,
             stopping |-> FALSE, exited |-> FALSE, detached |-> FALSE, busy |-> FALSE,
             done |-> FALSE, abandoned |-> FALSE, job |-> "NONE", generation |-> 0,
             job_generation |-> 0, result |-> "TRANSPORT"]
  /\ worker = [pc |-> "top", job |-> "NONE", generation |-> 0, coid |-> NoCoid, call |-> 0]
  /\ peer = [pc |-> "idle", ready |-> FALSE]
  /\ main = "running"
  /\ endpoint_connected = FALSE
  /\ calls = << >>
  /\ open = {}

\* pthread_cond_broadcast, as far as the worker is concerned
Woken == IF worker.pc = "wait" THEN [worker EXCEPT !.pc = "top"] ELSE worker

-----------------------------------------------------------------------------
(***************************************************************************)
(* The answer to a request.  MsgSend does not tell how much of the reply   *)
(* the peer wrote: "written" of the two id bytes.  The others keep what    *)
(* prepare_reply put there.                                                *)
(***************************************************************************)
\* Mutant: the pattern 0xa5 also where the id itself has that byte.
prepare_reply_Fixed(id) == [i \in 1 .. 2 |-> 165]

prepare_reply(id) == [i \in 1 .. 2 |-> IF id[i] = 165 THEN 90 ELSE 165]

Reply(id) == [status: {0, -1, 1}, id: {id, NoId}, written: 0 .. 2]

ReceivedId(request, reply) ==
  [i \in 1 .. 2 |-> IF i <= reply.written THEN reply.id[i]
                    ELSE prepare_reply(request.id)[i]]

validate_reply(request, reply) ==
  LET id == ReceivedId(request, reply)
      refuses == {request.id} \cup (IF request.kind = "SIM" THEN {} ELSE {NoId})
  IN  CASE reply.status = -1 /\ id \in refuses -> "REJECTED"
        [] reply.status = 0 /\ id = request.id -> "OK"
        [] OTHER -> "PROTOCOL"

\* What the peer really said (external).
Said(request, reply) ==
  LET about == reply.written = 2 /\ reply.id = request.id
  IN  CASE reply.status = 0 /\ about -> "ack"
        [] reply.status = -1 /\ (about \/ (reply.written = 2 /\ request.kind # "SIM")) -> "nack"
        [] OTHER -> "garbled"

-----------------------------------------------------------------------------

\* link_worker from the test of "stopping" to the next release of the mutex.
Proceed(s) ==
  \/ /\ s.stopping
     /\ link' = [s EXCEPT !.exited = TRUE]
     /\ worker' = [worker EXCEPT !.pc = IF s.detached THEN "free" ELSE "ended"]
  \/ /\ ~s.stopping /\ s.job = "NONE"
     /\ link' = s
     /\ worker' = [worker EXCEPT !.pc = "wait"]
  \/ /\ ~s.stopping /\ s.job # "NONE"
     /\ link' = [s EXCEPT !.job = "NONE"]
     /\ worker' = [pc |-> "job", job |-> s.job, generation |-> s.job_generation,
                   coid |-> s.coid, call |-> Len(calls)]

WorkerTop ==
  LET closing == link.close_requested \/ link.stopping
      s == IF closing THEN [link EXCEPT !.coid = NoCoid, !.connected = FALSE,
                                        !.close_requested = FALSE]
           ELSE link
  IN  /\ worker.pc = "top"
      /\ IF closing /\ link.coid # NoCoid
         THEN /\ link' = s
              /\ worker' = [worker EXCEPT !.pc = "close", !.coid = link.coid]
         ELSE Proceed(s)
      /\ UNCHANGED <<peer, main, endpoint_connected, calls, open>>

WorkerClosed ==
  /\ worker.pc = "close"
  /\ open' = open \ {worker.coid}
  /\ Proceed(link)
  /\ UNCHANGED <<peer, main, endpoint_connected, calls>>

\* The peer's process receives the message (external).
PeerReceives ==
  /\ worker.pc = "job" /\ worker.job = "SEND" /\ ~calls[worker.call].got
  /\ calls' = [calls EXCEPT ![worker.call].got = TRUE]
  /\ UNCHANGED <<link, worker, peer, main, endpoint_connected, open>>

Current ==
  /\ ~link.stopping /\ ~link.close_requested
  /\ worker.generation = link.generation


\* The result goes to the caller, or frees the link when the caller gave up.
Finished(s, result) ==
  IF s.abandoned THEN [s EXCEPT !.result = result, !.busy = FALSE, !.abandoned = FALSE]
  ELSE [s EXCEPT !.result = result, !.done = TRUE]

\* Mutant: the connection of a caller that gave up is kept.
WorkerConnects_Keeps ==
  /\ worker.pc = "job" /\ worker.job = "CONNECT"
  /\ \/ /\ link' = Finished(link, "TRANSPORT")
        /\ worker' = [worker EXCEPT !.pc = "top"]
        /\ UNCHANGED open
     \/ \E coid \in Coid \ open :
          /\ open' = open \cup {coid}
          /\ IF Current
             THEN /\ link' = Finished([link EXCEPT !.coid = coid, !.connected = TRUE], "OK")
                  /\ worker' = [worker EXCEPT !.pc = "top"]
             ELSE /\ worker' = [worker EXCEPT !.pc = "discard", !.coid = coid]
                  /\ UNCHANGED link
  /\ UNCHANGED <<peer, main, endpoint_connected, calls>>

\* name_open fails, or succeeds and the connection is kept or closed again.
WorkerConnects ==
  /\ worker.pc = "job" /\ worker.job = "CONNECT"
  /\ \/ /\ link' = Finished(link, "TRANSPORT")
        /\ worker' = [worker EXCEPT !.pc = "top"]
        /\ UNCHANGED open
     \/ \E coid \in Coid \ open :
          /\ open' = open \cup {coid}
          /\ IF Current /\ ~link.abandoned
             THEN /\ link' = Finished([link EXCEPT !.coid = coid, !.connected = TRUE], "OK")
                  /\ worker' = [worker EXCEPT !.pc = "top"]
             ELSE /\ worker' = [worker EXCEPT !.pc = "discard", !.coid = coid]
                  /\ UNCHANGED link
  /\ UNCHANGED <<peer, main, endpoint_connected, calls>>

\* Mutant: the connection is not closed.
WorkerDiscards_Leaks ==
  /\ worker.pc = "discard"
  /\ link' = Finished(link, "TRANSPORT")
  /\ worker' = [worker EXCEPT !.pc = "top"]
  /\ UNCHANGED <<peer, main, endpoint_connected, calls, open>>

WorkerDiscards ==
  /\ worker.pc = "discard"
  /\ open' = open \ {worker.coid}
  /\ link' = Finished(link, "TRANSPORT")
  /\ worker' = [worker EXCEPT !.pc = "top"]
  /\ UNCHANGED <<peer, main, endpoint_connected, calls>>

\* MsgSend returns an answer, or -1: timed out, or no such connection.
WorkerSent ==
  LET call == worker.call
      request == calls[call].request
      Takes(result) == link' = Finished(link, IF Current THEN result ELSE "TRANSPORT")
  IN  /\ worker.pc = "job" /\ worker.job = "SEND"
      /\ \/ Takes("TRANSPORT") /\ UNCHANGED calls
         \/ /\ calls[call].got
            /\ \E reply \in Reply(request.id) :
                 /\ calls' = [calls EXCEPT ![call].answer = Said(request, reply)]
                 /\ Takes(validate_reply(request, reply))
      /\ worker' = [worker EXCEPT !.pc = "top"]
      /\ UNCHANGED <<peer, main, endpoint_connected, open>>

\* A detached worker owns the state.
WorkerFrees ==
  /\ worker.pc = "free"
  /\ worker' = [worker EXCEPT !.pc = "freed"]
  /\ UNCHANGED <<link, peer, main, endpoint_connected, calls, open>>

-----------------------------------------------------------------------------
(***************************************************************************)
(* The peer thread: run_job, in the two halves around its wait.            *)
(***************************************************************************)
Admits(job) ==
  /\ ~link.stopping /\ ~link.busy /\ ~link.close_requested
  /\ IF job = "CONNECT" THEN ~link.connected ELSE link.connected

Submit(job) ==
  /\ link' = [link EXCEPT !.busy = TRUE, !.done = FALSE, !.abandoned = FALSE,
                          !.job = job, !.job_generation = link.generation]
  /\ worker' = Woken

Idle == main = "running" /\ peer.pc = "idle"

\* A tick of peer_thread without a connection; a refusal changes nothing.
CallConnect ==
  /\ Idle /\ ~link.connected /\ Admits("CONNECT")
  /\ Submit("CONNECT")
  /\ peer' = [pc |-> "connect", ready |-> FALSE]
  /\ UNCHANGED <<main, endpoint_connected, calls, open>>

\* A probe, or a command while the last probe and all since were answered.
CallSend(request) ==
  LET Called(outcome) == calls' = Append(calls,
        [request |-> request, outcome |-> outcome, got |-> FALSE, answer |-> "none"])
      probe == request = Heartbeat
  IN  /\ Idle /\ link.connected /\ (probe \/ peer.ready)
      /\ Len(calls) < MaxCalls
      /\ IF Admits("SEND")
         THEN /\ Submit("SEND") /\ Called("pending")
              /\ peer' = [pc |-> "send", ready |-> FALSE]
         ELSE /\ Called("TRANSPORT")
              /\ peer' = [pc |-> IF probe THEN "missed" ELSE "idle", ready |-> FALSE]
              /\ UNCHANGED <<link, worker>>
      /\ UNCHANGED <<main, endpoint_connected, open>>

\* What peer_thread does with the result: the link counts as connected after
\* a connect, an answered probe allows commands, an unanswered one is a miss.
Returns(result, s) ==
  LET call == Len(calls)
      probe == calls[call].request = Heartbeat
      ready == result = "OK" \/ (~probe /\ result = "REJECTED")
  IN  IF peer.pc = "connect"
      THEN /\ peer' = [pc |-> "idle", ready |-> FALSE]
           /\ endpoint_connected' = (endpoint_connected \/ s.connected)
           /\ UNCHANGED calls
      ELSE /\ calls' = [calls EXCEPT ![call].outcome = result]
           /\ peer' = [pc |-> IF probe /\ ~ready THEN "missed" ELSE "idle", ready |-> ready]
           /\ UNCHANGED endpoint_connected

Waiting == peer.pc \in {"connect", "send"}

CallReturns ==
  LET s == [link EXCEPT !.busy = FALSE, !.done = FALSE]
  IN  /\ Waiting /\ link.done
      /\ link' = s
      /\ Returns(link.result, s)
      /\ UNCHANGED <<worker, main, open>>

\* Mutant: a request that has not been started stays for the worker.
GivenUp_Leaves(s) ==
  IF s.job # "NONE" THEN [s EXCEPT !.busy = FALSE] ELSE [s EXCEPT !.abandoned = TRUE]

\* A request not started is withdrawn, one under way is abandoned.
GivenUp(s) ==
  IF s.job # "NONE" THEN [s EXCEPT !.job = "NONE", !.busy = FALSE]
  ELSE [s EXCEPT !.abandoned = TRUE]

CallTimesOut ==
  /\ Waiting /\ ~link.done
  /\ link' = GivenUp(link)
  /\ Returns("TRANSPORT", link)
  /\ UNCHANGED <<worker, main, open>>

\* Enough misses: the link is closed, and an unstarted job (there is none)
\* would be cancelled.
central_link_close ==
  /\ peer.pc = "missed"
  /\ LET s == [link EXCEPT !.connected = FALSE, !.close_requested = TRUE,
                           !.generation = @ + 1]
     IN  link' = IF s.job = "NONE" THEN s
                 ELSE [s EXCEPT !.result = "TRANSPORT", !.job = "NONE", !.done = TRUE]
  /\ worker' = Woken
  /\ peer' = [peer EXCEPT !.pc = "idle"]
  /\ endpoint_connected' = FALSE
  /\ UNCHANGED <<main, calls, open>>

\* Not enough misses yet (HEARTBEAT_MISS_LIMIT), so the next tick probes again.
MissTolerated ==
  /\ peer.pc = "missed"
  /\ peer' = [peer EXCEPT !.pc = "idle"]
  /\ UNCHANGED <<link, worker, main, endpoint_connected, calls, open>>

-----------------------------------------------------------------------------
(***************************************************************************)
(* The end: main has joined the peer thread and destroys the link.         *)
(***************************************************************************)
LinkDestroy ==
  /\ Idle
  /\ main' = "joining"
  /\ link' = [link EXCEPT !.stopping = TRUE, !.connected = FALSE, !.generation = @ + 1]
  /\ worker' = Woken
  /\ UNCHANGED <<peer, endpoint_connected, calls, open>>

DestroyTimesOut ==
  /\ main = "joining" /\ ~link.exited
  /\ main' = "detached"
  /\ link' = [link EXCEPT !.detached = TRUE]
  /\ UNCHANGED <<worker, peer, endpoint_connected, calls, open>>

DestroyFrees ==
  /\ main = "joining" /\ link.exited
  /\ main' = "freed"
  /\ UNCHANGED <<link, worker, peer, endpoint_connected, calls, open>>

Worker ==
  \/ WorkerTop \/ WorkerClosed \/ WorkerConnects \/ WorkerDiscards
  \/ WorkerSent \/ WorkerFrees

\* The process goes on to its exit.
Ended ==
  /\ main \in {"freed", "detached"} /\ worker.pc \in {"ended", "freed"}
  /\ UNCHANGED vars

Next ==
  \/ Worker \/ PeerReceives
  \/ CallConnect \/ CallReturns \/ CallTimesOut
  \/ \E request \in Request : CallSend(request)
  \/ central_link_close \/ MissTolerated
  \/ LinkDestroy \/ DestroyTimesOut \/ DestroyFrees
  \/ Ended

(***************************************************************************)
(* The worker runs whenever it can, and kernel calls return: MsgSend and   *)
(* name_open have a timeout.  A destroyed link is waited for or given up.  *)
(***************************************************************************)
Fairness == WF_vars(Worker) /\ WF_vars(DestroyTimesOut \/ DestroyFrees)

Spec == Init /\ [][Next]_vars /\ Fairness

-----------------------------------------------------------------------------
Promise == INSTANCE LinkCall

\* Every variable has its type.
TypeOK ==
  /\ link \in LinkState
  /\ worker \in [pc: {"top", "wait", "close", "job", "discard", "ended", "free", "freed"},
                 job: Job, generation: Nat, coid: Coid \cup {NoCoid}, call: 0 .. MaxCalls]
  /\ peer \in [pc: {"idle", "connect", "send", "missed"}, ready: BOOLEAN]
  /\ main \in {"running", "joining", "detached", "freed"}
  /\ endpoint_connected \in BOOLEAN
  /\ calls \in Seq(Promise!Call)
  /\ open \subseteq Coid

\* The link keeps the promise of LinkCall although callers give up while the
\* worker is blocked: no result of an earlier request, and no reply that was
\* cut short, passes for the receipt of this one.
KeepsPromise == Promise!Spec

\* The kernel's connections are accounted for: one that is open is the link's
\* or on its way to be closed, the link and the worker use no closed one, and
\* none outlives the worker.  The link's own memory is freed by one thread,
\* when the other is through with it.
NoLeak ==
  LET held == {link.coid} \cup (IF worker.pc \in {"close", "discard"} THEN {worker.coid} ELSE {})
  IN  /\ TypeOK
      /\ open = held \ {NoCoid}
      /\ link.connected => link.coid \in open /\ ~link.close_requested
      /\ worker.pc = "job" /\ worker.job = "SEND" => worker.coid \in open
      /\ worker.pc \in {"ended", "free", "freed"} => open = {}
      /\ main = "freed" => worker.pc = "ended"
      /\ worker.pc \in {"free", "freed"} => main = "detached"

\* "A request that never reached the worker must not execute later"
\* (ipc.c:476): what waits for the worker has its caller waiting too.
NeverRunsLater ==
  link.job # "NONE" => Waiting /\ link.busy /\ ~link.abandoned

\* Central knows of every connection: peer_thread sets endpoint_connected only
\* after a connect of its own, so one that came too late must not count.
LinkKnown ==
  link.connected /\ ~Waiting => endpoint_connected


=============================================================================
