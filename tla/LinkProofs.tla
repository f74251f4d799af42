----------------------------- MODULE LinkProofs -----------------------------
(***************************************************************************)
(* Safety of Central's link to a peer, for every set of connections and    *)
(* command ids and any number of requests, whenever the caller gives up.   *)
(*                                                                         *)
(* The invariant follows the one job the link admits: it waits for the     *)
(* worker (link.job), is under way (UnderWay), or is done, and whether its *)
(* caller still waits decides who clears "busy".  From it follow NoLeak,   *)
(* NeverRunsLater and LinkKnown, and that every step of the link is a step *)
(* that LinkCall allows.                                                   *)
(***************************************************************************)
EXTENDS LinkWorker, SequenceTheorems, TLAPS

UnderWay == worker.pc \in {"job", "discard"}

\* The job of a caller that waits is the one that is submitted or under way.
Awaits(job) == peer.pc = IF job = "CONNECT" THEN "connect" ELSE "send"

\* Who ends the link: main's state, the worker's and the flags agree.
EndInv ==
  /\ link.stopping <=> main # "running"
  /\ link.stopping => ~link.connected
  /\ main # "running" => peer.pc = "idle"
  /\ link.detached <=> main = "detached"
  /\ link.exited <=> worker.pc \in {"ended", "free", "freed"}
  /\ link.exited => link.stopping /\ link.coid = NoCoid
  /\ worker.pc = "ended" => ~link.detached
  /\ worker.pc \in {"free", "freed"} => link.detached
  /\ main = "freed" => link.exited

\* At most one job, and one place where it is.
JobInv ==
  /\ link.job # "NONE" =>
       /\ link.busy /\ ~link.done /\ ~link.abandoned
       /\ ~UnderWay
       /\ Awaits(link.job)
  /\ UnderWay =>
       /\ link.busy /\ ~link.done /\ worker.job # "NONE"
       /\ ~link.abandoned => Awaits(worker.job)
       /\ link.abandoned => ~Waiting
  /\ worker.pc = "discard" => worker.job = "CONNECT"
  /\ link.done => Waiting /\ link.busy
  /\ link.abandoned => UnderWay
  /\ link.busy => link.job # "NONE" \/ UnderWay \/ link.done
  /\ Waiting => link.busy /\ ~link.abandoned

\* Connections: the link's is known to be usable or is to be closed.
OpenInv ==
  /\ open = ({link.coid} \cup (IF worker.pc \in {"close", "discard"}
                               THEN {worker.coid} ELSE {})) \ {NoCoid}
  /\ link.connected => link.coid # NoCoid /\ ~link.close_requested
  /\ link.coid # NoCoid => link.connected \/ link.close_requested \/ link.stopping
  /\ worker.pc \in {"close", "discard"} => worker.coid # NoCoid /\ link.coid = NoCoid
  /\ link.job = "SEND" => link.connected
  /\ link.job = "CONNECT" => link.coid = NoCoid
  /\ UnderWay /\ worker.job = "CONNECT" => link.coid = NoCoid
  /\ worker.pc = "job" /\ worker.job = "SEND" =>
       worker.coid # NoCoid /\ worker.coid = link.coid
  /\ link.connected /\ peer.pc # "connect" => endpoint_connected

Fresh(call) == call.outcome = "pending" /\ ~call.got /\ call.answer = "none"

\* Only the last request can be pending, and is while its caller waits.
PendingInv ==
  /\ Len(calls) <= MaxCalls
  /\ \A i \in DOMAIN calls :
       calls[i].outcome = "pending" => i = Len(calls) /\ peer.pc = "send"
  /\ peer.pc = "send" => Len(calls) > 0 /\ calls[Len(calls)].outcome = "pending"

\* The request under way is in doubt, and no later one has reached the peer.
SendInv ==
  /\ link.job = "SEND" => Fresh(calls[Len(calls)])
  /\ worker.pc = "job" /\ worker.job = "SEND" =>
       /\ worker.call \in 1 .. Len(calls)
       /\ calls[worker.call].answer = "none"
       /\ \A j \in DOMAIN calls : j > worker.call => ~calls[j].got
       /\ IF link.abandoned THEN calls[worker.call].outcome = "TRANSPORT"
          ELSE worker.call = Len(calls)

\* A result that waits for its caller is what the peer answered.
ResultInv ==
  link.done /\ peer.pc = "send" =>
    \/ link.result = "TRANSPORT"
    \/ /\ calls[Len(calls)].answer # "none"
       /\ link.result = Promise!Meaning[calls[Len(calls)].answer]

CallInv == PendingInv /\ SendInv /\ ResultInv

\* The inductive invariant of the link.
IInv == TypeOK /\ EndInv /\ JobInv /\ OpenInv /\ CallInv

-----------------------------------------------------------------------------
(***************************************************************************)
(* The operators.                                                          *)
(***************************************************************************)

\* A reply that was not written completely carries neither the id of the
\* request nor that of a heartbeat, so what validate_reply makes of a reply
\* is what the peer said.
LEMMA ReplyMeaning ==
  ASSUME NEW request \in Request, NEW reply \in Reply(request.id)
  PROVE  /\ Said(request, reply) \in {"ack", "nack", "garbled"}
         /\ validate_reply(request, reply) = Promise!Meaning[Said(request, reply)]
<1> DEFINE id == ReceivedId(request, reply)
<1>1. /\ request.id \in Byte \X Byte /\ reply.id \in Byte \X Byte
      /\ reply.id \in {request.id, NoId}
      /\ reply.written \in 0 .. 2 /\ reply.status \in {0, -1, 1}
  BY LinkAssumption DEF Request, Heartbeat, NoId, Reply, Byte
<1>2. CASE reply.written < 2
  <2>1. id[2] = IF request.id[2] = 165 THEN 90 ELSE 165
    BY <1>1, <1>2 DEF ReceivedId, prepare_reply
  <2>2. id # request.id /\ id # NoId
    BY <2>1 DEF NoId
  <2>3. Said(request, reply) = "garbled"
    BY <1>2 DEF Said
  <2>4. validate_reply(request, reply) = "PROTOCOL"
    BY <2>2 DEF validate_reply
  <2> QED
    BY <2>3, <2>4 DEF Promise!Meaning
<1>3. CASE reply.written = 2
  <2>1. id = reply.id
    <3>1. id = [i \in 1 .. 2 |-> reply.id[i]]
      BY <1>3 DEF ReceivedId
    <3> QED
      BY <1>1, <3>1
  <2> QED
    BY <1>1, <1>3, <2>1 DEF validate_reply, Said, Promise!Meaning
<1> QED
  BY <1>1, <1>2, <1>3
-----------------------------------------------------------------------------
(***************************************************************************)
(* The steps of the worker.                                                *)
(***************************************************************************)

\* What is known of a call in a sequence of calls.
LEMMA CallAt ==
  ASSUME TypeOK, NEW i \in DOMAIN calls
  PROVE  /\ i \in 1 .. Len(calls)
         /\ calls[i] \in Promise!Call
BY DEF TypeOK

\* A record of a call may be updated in place.
LEMMA UpdateCall ==
  ASSUME TypeOK, NEW i \in 1 .. Len(calls), NEW c \in Promise!Call,
         calls' = [calls EXCEPT ![i] = c]
  PROVE  /\ calls' \in Seq(Promise!Call)
         /\ Len(calls') = Len(calls)
         /\ DOMAIN calls' = DOMAIN calls
         /\ \A j \in DOMAIN calls : calls'[j] = IF j = i THEN c ELSE calls[j]
BY ExceptSeq DEF TypeOK

\* PendingInv depends on the outcomes only.
LEMMA PendingKept ==
  ASSUME TypeOK, PendingInv, Len(calls') = Len(calls), DOMAIN calls' = DOMAIN calls,
         \A i \in DOMAIN calls : calls'[i].outcome = calls[i].outcome,
         peer' = peer
  PROVE  PendingInv'
<1>1. DOMAIN calls = 1 .. Len(calls) /\ Len(calls) \in Nat
  BY LenProperties DEF TypeOK
<1>2. \A i \in DOMAIN calls' :
        calls'[i].outcome = "pending" => i = Len(calls') /\ peer'.pc = "send"
  BY DEF PendingInv
<1>3. peer'.pc = "send" => Len(calls') > 0 /\ calls'[Len(calls')].outcome = "pending"
  <2>1. Len(calls) > 0 => Len(calls) \in 1 .. Len(calls)
    BY ONLY <1>1
  <2> QED
    BY <1>1, <2>1 DEF PendingInv
<1> QED
  BY <1>2, <1>3 DEF PendingInv

\* The worker at its loop: it may end, sleep or take the job.
LEMMA ProceedOK ==
  ASSUME IInv, NEW s \in LinkState, Proceed(s),
         worker.pc \in {"top", "close"},
         \/ s = link /\ (link.close_requested \/ link.stopping => link.coid = NoCoid)
         \/ s = [link EXCEPT !.coid = NoCoid, !.connected = FALSE,
                             !.close_requested = FALSE]
            /\ (link.close_requested \/ link.stopping),
         open' = {s.coid} \ {NoCoid},
         UNCHANGED <<peer, main, endpoint_connected, calls>>
  PROVE  IInv'
<1> USE DEF IInv
<1>0. /\ link \in LinkState
      /\ s.stopping = link.stopping /\ s.exited = link.exited
      /\ s.detached = link.detached /\ s.busy = link.busy /\ s.done = link.done
      /\ s.abandoned = link.abandoned /\ s.job = link.job /\ s.result = link.result
      /\ s.coid \in {link.coid, NoCoid} /\ (s.connected => s = link)
      /\ link.connected => s.connected
      /\ (s.stopping => s.coid = NoCoid)
      /\ s.coid # NoCoid => s.connected
  <2>1. CASE s = link /\ (link.close_requested \/ link.stopping => link.coid = NoCoid)
    BY <2>1 DEF TypeOK, LinkState, OpenInv, EndInv
  <2>2. CASE /\ s = [link EXCEPT !.coid = NoCoid, !.connected = FALSE,
                                 !.close_requested = FALSE]
             /\ link.close_requested \/ link.stopping
    BY <2>2 DEF TypeOK, LinkState, OpenInv, EndInv
  <2> QED
    BY <2>1, <2>2
<1> DEFINE Ends == /\ s.stopping
                   /\ link' = [s EXCEPT !.exited = TRUE]
                   /\ worker' = [worker EXCEPT !.pc = IF s.detached THEN "free" ELSE "ended"]
           Sleeps == /\ ~s.stopping /\ s.job = "NONE"
                     /\ link' = s
                     /\ worker' = [worker EXCEPT !.pc = "wait"]
           Starts == /\ ~s.stopping /\ s.job # "NONE"
                     /\ link' = [s EXCEPT !.job = "NONE"]
                     /\ worker' = [pc |-> "job", job |-> s.job,
                                    generation |-> s.job_generation,
                                    coid |-> s.coid, call |-> Len(calls)]
<1>1. Ends \/ Sleeps \/ Starts
  BY DEF Proceed
<1>2. CASE Ends
  <2>1. TypeOK'
    <3>1. link' \in LinkState /\ open' \subseteq Coid
      BY <1>2 DEF LinkState
    <3>2. CASE s.detached
      BY <1>2, <3>1, <3>2 DEF TypeOK
    <3>3. CASE ~s.detached
      BY <1>2, <3>1, <3>3 DEF TypeOK
    <3> QED
      BY <3>2, <3>3
  <2>2. EndInv'
    BY <1>0, <1>2 DEF EndInv, TypeOK, LinkState
  <2>3. JobInv'
    BY <1>0, <1>2 DEF JobInv, TypeOK, LinkState, UnderWay, Awaits, Waiting, EndInv
  <2>4. OpenInv'
    BY <1>0, <1>2 DEF OpenInv, JobInv, TypeOK, LinkState, UnderWay
  <2>5. CallInv'
    BY <1>0, <1>2 DEF CallInv, PendingInv, SendInv, ResultInv, TypeOK, LinkState, Fresh
  <2> QED
    BY <2>1, <2>2, <2>3, <2>4, <2>5
<1>3. CASE Sleeps
  <2>1. TypeOK'
    BY <1>3 DEF TypeOK, LinkState
  <2>2. EndInv'
    BY <1>0, <1>3 DEF EndInv, TypeOK, LinkState
  <2>3. JobInv'
    BY <1>0, <1>3 DEF JobInv, TypeOK, LinkState, UnderWay, Awaits, Waiting
  <2>4. OpenInv'
    BY <1>0, <1>3 DEF OpenInv, JobInv, TypeOK, LinkState, UnderWay
  <2>5. CallInv'
    BY <1>0, <1>3 DEF CallInv, PendingInv, SendInv, ResultInv, TypeOK, LinkState, Fresh
  <2> QED
    BY <2>1, <2>2, <2>3, <2>4, <2>5
<1>4. CASE Starts
  <2>1. TypeOK'
    <3>1. /\ s.job \in Job /\ s.job_generation \in Nat /\ s.coid \in Coid \cup {NoCoid}
          /\ link' \in LinkState /\ open' \subseteq Coid
      BY <1>4 DEF LinkState, Job
    <3>2. Len(calls) \in 0 .. MaxCalls
      BY LinkAssumption DEF TypeOK, CallInv, PendingInv
    <3> HIDE DEF IInv
    <3>3. worker' \in [pc: {"top", "wait", "close", "job", "discard", "ended", "free", "freed"},
                        job: Job, generation: Nat, coid: Coid \cup {NoCoid}, call: 0 .. MaxCalls]
      BY <1>4, <3>1, <3>2
    <3> QED
      BY <3>1, <3>3 DEF TypeOK, IInv
  <2>2. EndInv'
    BY <1>0, <1>4 DEF EndInv, TypeOK, LinkState
  <2>3. JobInv'
    BY <1>0, <1>4 DEF JobInv, TypeOK, LinkState, UnderWay, Awaits, Waiting, Job
  <2>4. OpenInv'
    BY <1>0, <1>4 DEF OpenInv, JobInv, TypeOK, LinkState, UnderWay
  <2>5. CallInv'
    <3>1. calls' = calls /\ peer' = peer /\ Len(calls) \in Nat
      BY DEF TypeOK
    <3>2. link'.job = "NONE" /\ ~link'.done /\ ~link'.abandoned /\ ~link.abandoned
      BY <1>0, <1>4 DEF JobInv, LinkState
    <3>3. ASSUME worker'.job = "SEND"
          PROVE  /\ worker'.call = Len(calls) /\ Len(calls) > 0
                 /\ Fresh(calls[Len(calls)])
      BY <1>0, <1>4, <3>1, <3>3 DEF JobInv, Awaits, CallInv, PendingInv, SendInv, ResultInv
    <3> QED
      BY <3>1, <3>2, <3>3 DEF CallInv, PendingInv, SendInv, ResultInv, Fresh, TypeOK
  <2> QED
    BY <2>1, <2>2, <2>3, <2>4, <2>5
<1> QED
  BY <1>1, <1>2, <1>3, <1>4

\* link_worker's loop from its top.
LEMMA WorkerTopOK ==
  ASSUME IInv, WorkerTop
  PROVE  IInv'
<1> USE DEF IInv
<1> DEFINE closing == link.close_requested \/ link.stopping
           s == IF closing THEN [link EXCEPT !.coid = NoCoid, !.connected = FALSE,
                                             !.close_requested = FALSE]
                ELSE link
<1>1. CASE closing /\ link.coid # NoCoid
  <2>1. /\ link' = [link EXCEPT !.coid = NoCoid, !.connected = FALSE,
                                !.close_requested = FALSE]
        /\ worker' = [worker EXCEPT !.pc = "close", !.coid = link.coid]
        /\ worker.pc = "top" /\ open' = open
        /\ UNCHANGED <<peer, main, endpoint_connected, calls>>
    BY <1>1 DEF WorkerTop
  <2>2. TypeOK'
    BY <2>1 DEF TypeOK, LinkState
  <2>3. EndInv'
    BY <2>1 DEF EndInv, TypeOK, LinkState
  <2>4. JobInv'
    BY <2>1 DEF JobInv, TypeOK, LinkState, UnderWay, Awaits, Waiting
  <2>5. OpenInv'
    BY <1>1, <2>1 DEF OpenInv, EndInv, TypeOK, LinkState, UnderWay
  <2>6. CallInv'
    BY <2>1 DEF CallInv, PendingInv, SendInv, ResultInv, TypeOK, LinkState, Fresh
  <2> QED
    BY <2>2, <2>3, <2>4, <2>5, <2>6
<1>2. CASE ~(closing /\ link.coid # NoCoid)
  <2>1. Proceed(s) /\ worker.pc = "top" /\ open' = open
        /\ UNCHANGED <<peer, main, endpoint_connected, calls>>
    BY <1>2 DEF WorkerTop
  <2>2. s \in LinkState
    <3>1. link \in LinkState
      BY DEF TypeOK
    <3>2. [link EXCEPT !.coid = NoCoid, !.connected = FALSE, !.close_requested = FALSE]
            \in LinkState
      BY ONLY <3>1 DEF LinkState
    <3> QED
      BY <3>1, <3>2
  <2>3. open' = {s.coid} \ {NoCoid}
    <3>1. s.coid = link.coid /\ open = {link.coid} \ {NoCoid}
      BY <1>2, <2>1 DEF OpenInv, TypeOK, LinkState
    <3> QED
      BY <2>1, <3>1
  <2> HIDE DEF s
  <2>4. \/ s = link /\ (closing => link.coid = NoCoid)
        \/ /\ s = [link EXCEPT !.coid = NoCoid, !.connected = FALSE,
                               !.close_requested = FALSE]
           /\ closing
    BY <1>2 DEF s
  <2> QED
    BY <2>1, <2>2, <2>3, <2>4, ProceedOK
<1> QED
  BY <1>1, <1>2

\* name_close has returned.
LEMMA WorkerClosedOK ==
  ASSUME IInv, WorkerClosed
  PROVE  IInv'
<1>1. link \in LinkState /\ link.coid = NoCoid /\ open' = {link.coid} \ {NoCoid}
  BY DEF IInv, WorkerClosed, OpenInv, TypeOK
<1> QED
  BY <1>1, ProceedOK DEF WorkerClosed

\* The worker is through with its job: the result goes to the caller that
\* waits for it, and otherwise the link becomes free.
LEMMA FinishedOK ==
  ASSUME IInv, UnderWay, NEW s \in LinkState, NEW result,
         result \in {"OK", "REJECTED", "PROTOCOL", "TRANSPORT"},
         link' = Finished(s, result),
         worker' = [worker EXCEPT !.pc = "top"],
         \/ s = link /\ open' = {link.coid} \ {NoCoid}
         \/ /\ worker.job = "CONNECT" /\ Current /\ ~link.abandoned
            /\ \E coid \in Coid :
                 /\ s = [link EXCEPT !.coid = coid, !.connected = TRUE]
                 /\ open' = {coid},
         UNCHANGED <<peer, main, endpoint_connected>>,
         calls' \in Seq(Promise!Call), Len(calls') = Len(calls),
         \A i \in DOMAIN calls : calls'[i].outcome = calls[i].outcome,
         worker.job = "SEND" /\ ~link.abandoned =>
           \/ result = "TRANSPORT"
           \/ /\ calls'[worker.call].answer # "none"
              /\ result = Promise!Meaning[calls'[worker.call].answer]
  PROVE  IInv'
<1> USE DEF IInv
<1>0. /\ link \in LinkState /\ link.job = "NONE" /\ link.busy /\ ~link.done
      /\ worker.pc \in {"job", "discard"} /\ worker.job \in {"CONNECT", "SEND"}
      /\ ~link.abandoned => Awaits(worker.job)
      /\ link.abandoned => ~Waiting
  BY DEF TypeOK, JobInv, UnderWay, LinkState, Job
<1>1. /\ s.stopping = link.stopping /\ s.exited = link.exited
      /\ s.detached = link.detached /\ s.busy = link.busy /\ s.done = link.done
      /\ s.abandoned = link.abandoned /\ s.job = link.job
      /\ s.close_requested = link.close_requested
      /\ s.coid # NoCoid => s.connected \/ s.close_requested \/ s.stopping
      /\ s.connected => s.coid # NoCoid /\ ~s.close_requested /\ ~s.stopping
      /\ s.connected /\ peer.pc # "connect" => endpoint_connected
      /\ s.exited => s.coid = NoCoid
      /\ open' = {s.coid} \ {NoCoid} /\ open' \subseteq Coid
  <2>1. CASE s = link /\ open' = {link.coid} \ {NoCoid}
    BY <1>0, <2>1 DEF TypeOK, LinkState, OpenInv, EndInv
  <2>2. CASE /\ worker.job = "CONNECT" /\ Current /\ ~link.abandoned
             /\ \E coid \in Coid :
                  /\ s = [link EXCEPT !.coid = coid, !.connected = TRUE]
                  /\ open' = {coid}
    <3>1. PICK coid \in Coid : /\ s = [link EXCEPT !.coid = coid, !.connected = TRUE]
                              /\ open' = {coid}
      BY <2>2
    <3>2. ~link.stopping /\ ~link.close_requested /\ peer.pc = "connect" /\ ~link.exited
      BY <1>0, <2>2 DEF Current, Awaits, EndInv
    <3>3. s.coid = coid /\ s.connected /\ coid # NoCoid
      BY <1>0, <3>1, LinkAssumption DEF LinkState
    <3>4. /\ s.stopping = link.stopping /\ s.exited = link.exited
          /\ s.detached = link.detached /\ s.busy = link.busy /\ s.done = link.done
          /\ s.abandoned = link.abandoned /\ s.job = link.job
          /\ s.close_requested = link.close_requested
      BY <1>0, <3>1 DEF LinkState
    <3>5. open' = {s.coid} \ {NoCoid} /\ open' \subseteq Coid
      BY <3>1, <3>3
    <3> QED
      BY <3>2, <3>3, <3>4, <3>5
  <2> QED
    BY <2>1, <2>2
<1>2. /\ link' \in LinkState
      /\ link'.stopping = s.stopping /\ link'.exited = s.exited
      /\ link'.detached = s.detached /\ link'.job = "NONE" /\ ~link'.abandoned
      /\ link'.coid = s.coid /\ link'.connected = s.connected
      /\ link'.close_requested = s.close_requested /\ link'.result = result
      /\ IF link.abandoned THEN ~link'.busy /\ ~link'.done ELSE link'.busy /\ link'.done
  <2> HIDE DEF IInv
  <2>1. CASE link.abandoned
    <3>1. link' = [s EXCEPT !.result = result, !.busy = FALSE, !.abandoned = FALSE]
      BY <1>1, <2>1 DEF Finished
    <3>2. link' \in LinkState
      <4>1. s \in LinkState /\ result \in {"OK", "REJECTED", "PROTOCOL", "TRANSPORT"}
        OBVIOUS
      <4> QED
        BY ONLY <3>1, <4>1 DEF LinkState
    <3>3. /\ link'.stopping = s.stopping /\ link'.exited = s.exited
          /\ link'.detached = s.detached /\ link'.job = s.job
          /\ link'.coid = s.coid /\ link'.connected = s.connected
          /\ link'.close_requested = s.close_requested /\ link'.result = result
      BY <3>1 DEF LinkState
    <3>4. ~link'.abandoned /\ ~link'.busy /\ ~link'.done
      BY <1>0, <1>1, <2>1, <3>1 DEF LinkState
    <3> QED
      BY <1>0, <1>1, <2>1, <3>2, <3>3, <3>4
  <2>2. CASE ~link.abandoned
    <3>1. link' = [s EXCEPT !.result = result, !.done = TRUE]
      BY <1>1, <2>2 DEF Finished
    <3>2. link' \in LinkState
      <4>1. s \in LinkState /\ result \in {"OK", "REJECTED", "PROTOCOL", "TRANSPORT"}
        OBVIOUS
      <4> QED
        BY ONLY <3>1, <4>1 DEF LinkState
    <3>3. /\ link'.stopping = s.stopping /\ link'.exited = s.exited
          /\ link'.detached = s.detached /\ link'.job = s.job
          /\ link'.coid = s.coid /\ link'.connected = s.connected
          /\ link'.close_requested = s.close_requested /\ link'.result = result
      BY <3>1 DEF LinkState
    <3>4. ~link'.abandoned /\ link'.busy /\ link'.done
      BY <1>0, <1>1, <2>2, <3>1 DEF LinkState
    <3> QED
      BY <1>0, <1>1, <2>2, <3>2, <3>3, <3>4
  <2> QED
    BY <2>1, <2>2
<1>3. TypeOK'
  BY <1>1, <1>2 DEF TypeOK
<1>4. EndInv'
  BY <1>0, <1>1, <1>2 DEF EndInv, TypeOK
<1>5. JobInv'
  BY <1>0, <1>1, <1>2 DEF JobInv, TypeOK, UnderWay, Awaits, Waiting
<1>6. OpenInv'
  BY <1>0, <1>1, <1>2 DEF OpenInv, TypeOK, UnderWay
<1>7. CallInv'
  <2>1. DOMAIN calls' = DOMAIN calls /\ DOMAIN calls = 1 .. Len(calls) /\ Len(calls) \in Nat
    <3>1. calls \in Seq(Promise!Call)
      BY DEF TypeOK
    <3>2. DOMAIN calls = 1 .. Len(calls) /\ Len(calls) \in Nat
      BY <3>1, LenProperties
    <3>3. DOMAIN calls' = 1 .. Len(calls')
      BY LenProperties
    <3> QED
      BY <3>2, <3>3
  <2>2. ASSUME ~link.abandoned, peer.pc = "send"
        PROVE  worker.job = "SEND" /\ worker.pc = "job" /\ worker.call = Len(calls)
    BY <1>0, <2>2 DEF Awaits, JobInv, CallInv, PendingInv, SendInv, ResultInv
  <2>3. link'.job = "NONE" /\ worker'.pc = "top" /\ peer' = peer
    BY <1>2 DEF TypeOK
  <2>4. ASSUME link'.done, peer.pc = "send"
        PROVE  \/ link'.result = "TRANSPORT"
               \/ /\ calls'[Len(calls)].answer # "none"
                  /\ link'.result = Promise!Meaning[calls'[Len(calls)].answer]
    BY <1>0, <1>2, <2>2, <2>4
  <2>5. PendingInv'
    BY <2>1, <2>3, PendingKept DEF CallInv
  <2>6. SendInv' /\ ResultInv'
    BY <2>3, <2>4 DEF SendInv, ResultInv
  <2> QED
    BY <2>5, <2>6 DEF CallInv
<1> QED
  BY <1>3, <1>4, <1>5, <1>6, <1>7

\* name_open fails, or its connection is kept or goes to be closed.
LEMMA WorkerConnectsOK ==
  ASSUME IInv, WorkerConnects
  PROVE  IInv'
<1> USE DEF IInv
<1>0. /\ worker.pc = "job" /\ worker.job = "CONNECT" /\ UnderWay
      /\ link \in LinkState /\ link.coid = NoCoid /\ open = {}
      /\ calls \in Seq(Promise!Call)
      /\ UNCHANGED <<peer, main, endpoint_connected, calls>>
  BY DEF WorkerConnects, UnderWay, OpenInv, TypeOK
<1>1. CASE /\ link' = Finished(link, "TRANSPORT")
           /\ worker' = [worker EXCEPT !.pc = "top"]
           /\ UNCHANGED open
  BY <1>0, <1>1, FinishedOK
<1>2. ASSUME NEW coid \in Coid \ open,
             open' = open \cup {coid},
             Current /\ ~link.abandoned,
             link' = Finished([link EXCEPT !.coid = coid, !.connected = TRUE], "OK"),
             worker' = [worker EXCEPT !.pc = "top"]
      PROVE  IInv'
  <2> DEFINE s == [link EXCEPT !.coid = coid, !.connected = TRUE]
  <2>1. s \in LinkState
    BY <1>0 DEF LinkState
  <2>2. open' = {coid}
    BY <1>0, <1>2
  <2> HIDE DEF s
  <2>3. \E c \in Coid : /\ s = [link EXCEPT !.coid = c, !.connected = TRUE]
                        /\ open' = {c}
    BY <2>2 DEF s
  <2>4. link' = Finished(s, "OK")
    BY <1>2 DEF s
  <2> QED
    BY <1>0, <1>2, <2>1, <2>3, <2>4, FinishedOK
<1>3. ASSUME NEW coid \in Coid \ open,
             open' = open \cup {coid},
             worker' = [worker EXCEPT !.pc = "discard", !.coid = coid],
             UNCHANGED link
      PROVE  IInv'
  <2>1. TypeOK'
    BY <1>0, <1>3 DEF TypeOK
  <2>2. EndInv'
    BY <1>0, <1>3 DEF EndInv, TypeOK
  <2>3. JobInv'
    BY <1>0, <1>3 DEF JobInv, TypeOK, UnderWay, Awaits, Waiting
  <2>4. OpenInv'
    BY <1>0, <1>3, LinkAssumption DEF OpenInv, TypeOK, UnderWay
  <2>5. CallInv'
    BY <1>0, <1>3 DEF CallInv, PendingInv, SendInv, ResultInv, TypeOK
  <2> QED
    BY <2>1, <2>2, <2>3, <2>4, <2>5
<1> QED
  BY <1>1, <1>2, <1>3 DEF WorkerConnects

\* A connection that came too late is closed.
LEMMA WorkerDiscardsOK ==
  ASSUME IInv, WorkerDiscards
  PROVE  IInv'
<1>1. /\ UnderWay /\ worker.job = "CONNECT" /\ link \in LinkState
      /\ open' = {link.coid} \ {NoCoid} /\ calls \in Seq(Promise!Call)
  BY DEF IInv, WorkerDiscards, UnderWay, OpenInv, JobInv, TypeOK
<1> QED
  BY <1>1, FinishedOK DEF WorkerDiscards

\* MsgSend has returned.
LEMMA WorkerSentOK ==
  ASSUME IInv, WorkerSent
  PROVE  IInv'
<1> USE DEF IInv
<1> DEFINE call == worker.call
           request == calls[call].request
           Takes(result) == link' = Finished(link, IF Current THEN result ELSE "TRANSPORT")
<1>0. /\ UnderWay /\ worker.job = "SEND" /\ worker.pc = "job" /\ link \in LinkState
      /\ open' = {link.coid} \ {NoCoid} /\ calls \in Seq(Promise!Call)
      /\ worker' = [worker EXCEPT !.pc = "top"]
      /\ UNCHANGED <<peer, main, endpoint_connected>>
  BY DEF WorkerSent, UnderWay, OpenInv, TypeOK
<1>1. call \in 1 .. Len(calls) /\ call \in DOMAIN calls
  BY <1>0 DEF CallInv, SendInv
<1>2. calls[call] \in Promise!Call
  BY <1>1, CallAt
<1>3. CASE Takes("TRANSPORT") /\ UNCHANGED calls
  <2>1. link' = Finished(link, "TRANSPORT")
    BY <1>3
  <2> QED
    BY <1>0, <1>3, <2>1, FinishedOK
<1>4. ASSUME NEW reply \in Reply(request.id),
             calls' = [calls EXCEPT ![call].answer = Said(request, reply)],
             Takes(validate_reply(request, reply))
      PROVE  IInv'
  <2> DEFINE c == [calls[call] EXCEPT !.answer = Said(request, reply)]
             result == IF Current THEN validate_reply(request, reply) ELSE "TRANSPORT"
  <2>1. request \in Request
    BY <1>2 DEF Promise!Call
  <2>2. /\ Said(request, reply) \in {"ack", "nack", "garbled"}
        /\ validate_reply(request, reply) = Promise!Meaning[Said(request, reply)]
    BY <2>1, ReplyMeaning
  <2>3. c \in Promise!Call /\ c.answer = Said(request, reply)
        /\ c.outcome = calls[call].outcome
    BY <1>2, <2>2 DEF Promise!Call
  <2>4. result \in {"OK", "REJECTED", "PROTOCOL", "TRANSPORT"}
    BY <2>2 DEF Promise!Meaning
  <2> HIDE DEF c, result
  <2>5. calls' = [calls EXCEPT ![call] = c]
    BY <1>4 DEF c
  <2>6. /\ calls' \in Seq(Promise!Call) /\ Len(calls') = Len(calls)
        /\ \A j \in DOMAIN calls : calls'[j] = IF j = call THEN c ELSE calls[j]
    BY <1>1, <2>3, <2>5, UpdateCall
  <2>7. \A i \in DOMAIN calls : calls'[i].outcome = calls[i].outcome
    BY <2>3, <2>6
  <2>8. calls'[call].answer = Said(request, reply)
    BY <1>1, <2>3, <2>6
  <2>9. \/ result = "TRANSPORT"
        \/ /\ calls'[call].answer # "none"
           /\ result = Promise!Meaning[calls'[call].answer]
    BY <2>2, <2>8 DEF result
  <2>10. link' = Finished(link, result)
    BY <1>4 DEF result
  <2> QED
    BY <1>0, <2>4, <2>6, <2>7, <2>9, <2>10, FinishedOK
<1> QED
  BY <1>0, <1>3, <1>4 DEF WorkerSent

\* A detached worker frees the state.
LEMMA WorkerFreesOK ==
  ASSUME IInv, WorkerFrees
  PROVE  IInv'
<1> USE DEF IInv, WorkerFrees
<1>1. TypeOK' /\ EndInv'
  BY DEF TypeOK, EndInv
<1>2. JobInv' /\ OpenInv'
  BY DEF TypeOK, JobInv, OpenInv, UnderWay, Awaits, Waiting
<1>3. CallInv'
  BY DEF TypeOK, CallInv, PendingInv, SendInv, ResultInv
<1> QED
  BY <1>1, <1>2, <1>3

\* The peer's process receives the request under way.
LEMMA PeerReceivesOK ==
  ASSUME IInv, PeerReceives
  PROVE  IInv'
<1> USE DEF IInv
<1> DEFINE call == worker.call
           c == [calls[call] EXCEPT !.got = TRUE]
<1>1. call \in 1 .. Len(calls) /\ call \in DOMAIN calls
  BY DEF PeerReceives, CallInv, SendInv, TypeOK
<1>2. calls[call] \in Promise!Call
  BY <1>1, CallAt
<1>3. /\ c \in Promise!Call /\ c.outcome = calls[call].outcome
      /\ c.answer = calls[call].answer
  BY <1>2 DEF Promise!Call
<1> HIDE DEF c
<1>4. calls' = [calls EXCEPT ![call] = c]
  BY DEF PeerReceives, c
<1>5. /\ calls' \in Seq(Promise!Call) /\ Len(calls') = Len(calls)
      /\ DOMAIN calls' = DOMAIN calls
      /\ \A j \in DOMAIN calls : calls'[j] = IF j = call THEN c ELSE calls[j]
  BY <1>1, <1>3, <1>4, UpdateCall
<1>6. TypeOK'
  BY <1>5 DEF TypeOK, PeerReceives
<1>7. EndInv' /\ JobInv' /\ OpenInv'
  BY DEF EndInv, JobInv, OpenInv, UnderWay, Awaits, Waiting, PeerReceives
<1>8. CallInv'
  <2>1. /\ worker.pc = "job" /\ worker.job = "SEND" /\ link.job = "NONE" /\ ~link.done
        /\ UNCHANGED <<link, worker, peer>>
    BY DEF PeerReceives, JobInv, UnderWay
  <2>2. PendingInv'
    <3>1. \A i \in DOMAIN calls : calls'[i].outcome = calls[i].outcome
      BY <1>3, <1>5
    <3> QED
      BY <1>5, <2>1, <3>1, PendingKept DEF CallInv
  <2>3. SendInv'
    BY <1>1, <1>3, <1>5, <2>1 DEF CallInv, SendInv, TypeOK
  <2> QED
    BY <2>1, <2>2, <2>3 DEF CallInv, ResultInv
<1> QED
  BY <1>6, <1>7, <1>8

-----------------------------------------------------------------------------
(***************************************************************************)
(* The steps of the caller and of main.                                    *)
(***************************************************************************)

\* A broadcast changes nothing but that a sleeping worker looks again.
LEMMA WokenOK ==
  ASSUME TypeOK, worker' = Woken
  PROVE  /\ worker'.job = worker.job /\ worker'.generation = worker.generation
         /\ worker'.coid = worker.coid /\ worker'.call = worker.call
         /\ worker'.pc = IF worker.pc = "wait" THEN "top" ELSE worker.pc
         /\ worker' \in [pc: {"top", "wait", "close", "job", "discard", "ended",
                              "free", "freed"},
                         job: Job, generation: Nat, coid: Coid \cup {NoCoid},
                         call: 0 .. MaxCalls]
BY DEF Woken, TypeOK

\* A job is submitted to an idle link.
LEMMA SubmitOK ==
  ASSUME IInv, NEW job \in {"CONNECT", "SEND"}, Idle, Admits(job), Submit(job),
         peer' = [pc |-> IF job = "CONNECT" THEN "connect" ELSE "send", ready |-> FALSE],
         UNCHANGED <<main, endpoint_connected, open>>
  PROVE  /\ link' \in LinkState /\ EndInv' /\ JobInv' /\ OpenInv'
         /\ link'.job = job /\ ~link'.done /\ ~UnderWay'
<1> USE DEF IInv, Submit, Idle, Admits
<1>0. /\ link \in LinkState /\ worker.pc \notin {"ended", "free", "freed"}
      /\ ~UnderWay
  BY DEF TypeOK, EndInv, JobInv
<1>1. /\ link' \in LinkState
      /\ link'.stopping = link.stopping /\ link'.exited = link.exited
      /\ link'.detached = link.detached /\ link'.busy /\ ~link'.done
      /\ ~link'.abandoned /\ link'.job = job /\ link'.coid = link.coid
      /\ link'.connected = link.connected /\ link'.close_requested = link.close_requested
  BY <1>0 DEF LinkState, Job
<1>2. EndInv'
  BY <1>0, <1>1, WokenOK DEF EndInv
<1>3. JobInv' /\ ~UnderWay'
  BY <1>0, <1>1, WokenOK DEF JobInv, UnderWay, Awaits, Waiting
<1>4. OpenInv'
  BY <1>0, <1>1, WokenOK DEF OpenInv, UnderWay
<1> QED
  BY <1>1, <1>2, <1>3, <1>4

\* A tick without a connection.
LEMMA CallConnectOK ==
  ASSUME IInv, CallConnect
  PROVE  IInv'
<1> USE DEF IInv, CallConnect
<1>1. /\ link' \in LinkState /\ EndInv' /\ JobInv' /\ OpenInv'
      /\ link'.job = "CONNECT" /\ ~link'.done /\ ~UnderWay'
  BY SubmitOK
<1>2. TypeOK'
  BY <1>1, WokenOK DEF Submit, TypeOK
<1>3. CallInv'
  BY <1>1 DEF CallInv, PendingInv, SendInv, ResultInv, UnderWay, Idle
<1> QED
  BY <1>1, <1>2, <1>3

\* A request that is submitted, or refused while the link is busy.
LEMMA CallSendOK ==
  ASSUME IInv, NEW request \in Request, CallSend(request)
  PROVE  IInv'
<1> USE DEF IInv
<1> DEFINE New(outcome) == [request |-> request, outcome |-> outcome, got |-> FALSE,
                            answer |-> "none"]
<1>0. /\ Idle /\ link.connected /\ Len(calls) < MaxCalls
      /\ UNCHANGED <<main, endpoint_connected, open>>
      /\ calls \in Seq(Promise!Call) /\ Len(calls) \in Nat
      /\ DOMAIN calls = 1 .. Len(calls)
  BY DEF CallSend, TypeOK
<1>1. ASSUME NEW outcome \in {"pending", "TRANSPORT"}, calls' = Append(calls, New(outcome))
      PROVE  /\ calls' \in Seq(Promise!Call) /\ Len(calls') = Len(calls) + 1
             /\ DOMAIN calls' = 1 .. Len(calls) + 1
             /\ \A i \in 1 .. Len(calls) : calls'[i] = calls[i]
             /\ calls'[Len(calls) + 1] = New(outcome)
  <2>1. New(outcome) \in Promise!Call
    BY DEF Promise!Call, Promise!Outcome
  <2> HIDE DEF New
  <2> QED
    BY <1>0, <1>1, <2>1, AppendProperties
<1>2. \A i \in 1 .. Len(calls) : calls[i].outcome # "pending"
  BY <1>0 DEF CallInv, PendingInv, Idle
<1>3. CASE Admits("SEND")
  <2>1. /\ Submit("SEND") /\ calls' = Append(calls, New("pending"))
        /\ peer' = [pc |-> "send", ready |-> FALSE]
    BY <1>3 DEF CallSend
  <2>2. /\ link' \in LinkState /\ EndInv' /\ JobInv' /\ OpenInv'
        /\ link'.job = "SEND" /\ ~link'.done /\ ~UnderWay'
    BY <1>0, <1>3, <2>1, SubmitOK
  <2>3. /\ calls' \in Seq(Promise!Call) /\ Len(calls') = Len(calls) + 1
        /\ DOMAIN calls' = 1 .. Len(calls) + 1
        /\ \A i \in 1 .. Len(calls) : calls'[i] = calls[i]
        /\ calls'[Len(calls) + 1] = New("pending")
    BY <1>1, <2>1
  <2>4. TypeOK'
    BY <1>0, <2>1, <2>2, <2>3, WokenOK DEF Submit, TypeOK
  <2>5. PendingInv'
    BY <1>0, <1>2, <2>1, <2>3, LinkAssumption DEF PendingInv
  <2>6. SendInv' /\ ResultInv'
    BY <2>2, <2>3 DEF SendInv, ResultInv, UnderWay, Fresh
  <2> QED
    BY <2>2, <2>4, <2>5, <2>6 DEF CallInv
<1>4. CASE ~Admits("SEND")
  <2>1. /\ calls' = Append(calls, New("TRANSPORT"))
        /\ peer' = [pc |-> IF request = Heartbeat THEN "missed" ELSE "idle", ready |-> FALSE]
        /\ UNCHANGED <<link, worker>>
    BY <1>4 DEF CallSend
  <2>2. /\ calls' \in Seq(Promise!Call) /\ Len(calls') = Len(calls) + 1
        /\ DOMAIN calls' = 1 .. Len(calls) + 1
        /\ \A i \in 1 .. Len(calls) : calls'[i] = calls[i]
        /\ calls'[Len(calls) + 1] = New("TRANSPORT")
    BY <1>1, <2>1
  <2>3. peer' \in [pc: {"idle", "missed"}, ready: BOOLEAN]
    BY <2>1
  <2>4. TypeOK'
    BY <1>0, <2>1, <2>2, <2>3 DEF TypeOK
  <2>5. EndInv' /\ JobInv' /\ OpenInv'
    BY <1>0, <2>1, <2>3
    DEF EndInv, JobInv, OpenInv, UnderWay, Awaits, Waiting, Idle
  <2>6. ~link.done /\ link.job = "NONE" /\ (UnderWay => link.abandoned)
    BY <1>0 DEF JobInv, Awaits, Waiting, Idle, TypeOK, LinkState, Job
  <2>7. PendingInv'
    BY <1>0, <1>2, <2>2, <2>3, LinkAssumption DEF PendingInv
  <2>8. SendInv'
    BY <1>0, <2>1, <2>2, <2>6 DEF CallInv, SendInv, UnderWay
  <2>9. ResultInv'
    BY <2>1, <2>6 DEF ResultInv
  <2> QED
    BY <2>4, <2>5, <2>7, <2>8, <2>9 DEF CallInv
<1> QED
  BY <1>3, <1>4

\* What peer_thread does with a result that is true of the last request.
LEMMA ReturnsOK ==
  ASSUME IInv, Waiting, NEW s, s.connected \in BOOLEAN, NEW result,
         result \in {"OK", "REJECTED", "PROTOCOL", "TRANSPORT"},
         Returns(result, s)
  PROVE  /\ calls' \in Seq(Promise!Call) /\ Len(calls') = Len(calls)
         /\ DOMAIN calls' = DOMAIN calls
         /\ \A i \in DOMAIN calls : /\ calls'[i].got = calls[i].got
                                    /\ calls'[i].answer = calls[i].answer
         /\ peer' \in [pc: {"idle", "missed"}, ready: BOOLEAN]
         /\ endpoint_connected' \in BOOLEAN
         /\ endpoint_connected => endpoint_connected'
         /\ peer.pc = "connect" /\ s.connected => endpoint_connected'
         /\ peer.pc = "connect" => calls' = calls
         /\ peer.pc = "send" => /\ Len(calls) \in DOMAIN calls
                                /\ calls'[Len(calls)].outcome = result
         /\ PendingInv'
<1> USE DEF IInv
<1>0. Len(calls) \in Nat /\ DOMAIN calls = 1 .. Len(calls)
  BY LenProperties DEF TypeOK
<1>1. CASE peer.pc = "connect"
  <2>1. /\ peer' = [pc |-> "idle", ready |-> FALSE]
        /\ endpoint_connected' = (endpoint_connected \/ s.connected)
        /\ calls' = calls
    BY <1>1 DEF Returns
  <2>2. PendingInv'
    BY <1>1, <2>1 DEF CallInv, PendingInv
  <2> QED
    BY <1>1, <2>1, <2>2 DEF TypeOK
<1>2. CASE peer.pc = "send"
  <2> DEFINE c == [calls[Len(calls)] EXCEPT !.outcome = result]
  <2>1. /\ calls' = [calls EXCEPT ![Len(calls)].outcome = result]
        /\ peer' \in [pc: {"idle", "missed"}, ready: BOOLEAN]
        /\ endpoint_connected' = endpoint_connected
    <3> DEFINE probe == calls[Len(calls)].request = Heartbeat
               ready == result = "OK" \/ (~probe /\ result = "REJECTED")
    <3>1. /\ calls' = [calls EXCEPT ![Len(calls)].outcome = result]
          /\ peer' = [pc |-> IF probe /\ ~ready THEN "missed" ELSE "idle", ready |-> ready]
          /\ endpoint_connected' = endpoint_connected
      BY <1>2 DEF Returns
    <3>2. ready \in BOOLEAN
      OBVIOUS
    <3> HIDE DEF probe, ready
    <3> QED
      BY <3>1, <3>2
  <2>2. Len(calls) \in 1 .. Len(calls) /\ Len(calls) \in DOMAIN calls
    BY <1>0, <1>2 DEF CallInv, PendingInv
  <2>3. calls[Len(calls)] \in Promise!Call
    BY <2>2, CallAt
  <2>4. /\ c \in Promise!Call /\ c.outcome = result /\ c.got = calls[Len(calls)].got
        /\ c.answer = calls[Len(calls)].answer
    BY <2>3 DEF Promise!Call, Promise!Outcome
  <2> HIDE DEF c
  <2>5. calls' = [calls EXCEPT ![Len(calls)] = c]
    BY <2>1 DEF c
  <2>6. /\ calls' \in Seq(Promise!Call) /\ Len(calls') = Len(calls)
        /\ DOMAIN calls' = DOMAIN calls
        /\ \A j \in DOMAIN calls : calls'[j] = IF j = Len(calls) THEN c ELSE calls[j]
    BY <2>2, <2>4, <2>5, UpdateCall
  <2>7. /\ \A i \in DOMAIN calls : calls'[i].got = calls[i].got
        /\ \A i \in DOMAIN calls : calls'[i].answer = calls[i].answer
        /\ calls'[Len(calls)].outcome = result
    BY <2>2, <2>4, <2>6
  <2>8. \A i \in DOMAIN calls : calls'[i].outcome # "pending"
    BY <2>4, <2>6 DEF CallInv, PendingInv
  <2>9. PendingInv'
    BY <2>1, <2>6, <2>8 DEF CallInv, PendingInv
  <2> QED
    BY <1>2, <2>1, <2>2, <2>6, <2>7, <2>9 DEF TypeOK
<1> QED
  BY <1>1, <1>2 DEF Waiting

\* The caller takes the result.
LEMMA CallReturnsOK ==
  ASSUME IInv, CallReturns
  PROVE  IInv'
<1> USE DEF IInv
<1> DEFINE s == [link EXCEPT !.busy = FALSE, !.done = FALSE]
<1>0. /\ Waiting /\ link.done /\ link' = s /\ Returns(link.result, s)
      /\ worker' = worker /\ main' = main /\ open' = open
      /\ link \in LinkState /\ link.job = "NONE" /\ ~UnderWay /\ main = "running"
      /\ ~link.abandoned
  BY DEF CallReturns, TypeOK, JobInv, EndInv, Waiting
<1>1. /\ s \in LinkState /\ s.connected = link.connected /\ s.connected \in BOOLEAN
      /\ link.result \in {"OK", "REJECTED", "PROTOCOL", "TRANSPORT"}
      /\ s.stopping = link.stopping /\ s.exited = link.exited
      /\ s.detached = link.detached /\ ~s.busy /\ ~s.done
      /\ s.abandoned = link.abandoned /\ s.job = link.job /\ s.coid = link.coid
      /\ s.close_requested = link.close_requested
  BY <1>0 DEF LinkState
<1> HIDE DEF s
<1>2. /\ calls' \in Seq(Promise!Call) /\ PendingInv'
      /\ peer' \in [pc: {"idle", "missed"}, ready: BOOLEAN]
      /\ endpoint_connected' \in BOOLEAN
      /\ endpoint_connected => endpoint_connected'
      /\ peer.pc = "connect" /\ s.connected => endpoint_connected'
  BY <1>0, <1>1, ReturnsOK
<1>3. TypeOK'
  BY <1>0, <1>1, <1>2 DEF TypeOK
<1>4. EndInv'
  BY <1>0, <1>1, <1>2 DEF EndInv
<1>5. JobInv'
  BY <1>0, <1>1, <1>2 DEF JobInv, UnderWay, Awaits, Waiting
<1>6. OpenInv'
  BY <1>0, <1>1, <1>2 DEF OpenInv, UnderWay
<1>7. SendInv' /\ ResultInv'
  BY <1>0, <1>1 DEF SendInv, ResultInv, UnderWay
<1> QED
  BY <1>2, <1>3, <1>4, <1>5, <1>6, <1>7 DEF CallInv

\* The caller gives up: its job is withdrawn or abandoned.
LEMMA CallTimesOutOK ==
  ASSUME IInv, CallTimesOut
  PROVE  IInv'
<1> USE DEF IInv
<1>0. /\ Waiting /\ ~link.done /\ link' = GivenUp(link) /\ Returns("TRANSPORT", link)
      /\ worker' = worker /\ main' = main /\ open' = open
      /\ link \in LinkState /\ main = "running" /\ link.busy /\ ~link.abandoned
      /\ link.job = "NONE" <=> UnderWay
  BY DEF CallTimesOut, TypeOK, JobInv, EndInv, Waiting
<1>1. /\ link' \in LinkState /\ link'.connected = link.connected
      /\ link'.stopping = link.stopping /\ link'.exited = link.exited
      /\ link'.detached = link.detached /\ ~link'.done
      /\ link'.job = "NONE" /\ link'.coid = link.coid
      /\ link'.close_requested = link.close_requested
      /\ IF UnderWay THEN link'.busy /\ link'.abandoned ELSE ~link'.busy /\ ~link'.abandoned
  <2>1. CASE link.job = "NONE"
    BY <1>0, <2>1 DEF GivenUp, LinkState
  <2>2. CASE link.job # "NONE"
    BY <1>0, <2>2 DEF GivenUp, LinkState, Job
  <2> QED
    BY <2>1, <2>2
<1>2. /\ calls' \in Seq(Promise!Call) /\ PendingInv' /\ Len(calls') = Len(calls)
      /\ DOMAIN calls' = DOMAIN calls
      /\ \A i \in DOMAIN calls : /\ calls'[i].got = calls[i].got
                                 /\ calls'[i].answer = calls[i].answer
      /\ peer' \in [pc: {"idle", "missed"}, ready: BOOLEAN]
      /\ endpoint_connected' \in BOOLEAN
      /\ endpoint_connected => endpoint_connected'
      /\ peer.pc = "connect" /\ link.connected => endpoint_connected'
      /\ peer.pc = "send" => calls'[Len(calls)].outcome = "TRANSPORT"
  <2>1. link.connected \in BOOLEAN
    BY <1>0 DEF LinkState
  <2> QED
    BY <1>0, <2>1, ReturnsOK
<1>3. TypeOK'
  BY <1>0, <1>1, <1>2 DEF TypeOK
<1>4. EndInv'
  BY <1>0, <1>1, <1>2 DEF EndInv
<1>5. JobInv'
  BY <1>0, <1>1, <1>2 DEF JobInv, UnderWay, Awaits, Waiting
<1>6. OpenInv'
  BY <1>0, <1>1, <1>2 DEF OpenInv, UnderWay
<1>7. SendInv'
  <2>1. ASSUME worker.pc = "job", worker.job = "SEND"
        PROVE  /\ peer.pc = "send" /\ worker.call = Len(calls)
               /\ worker.call \in 1 .. Len(calls) /\ worker.call \in DOMAIN calls
               /\ link'.abandoned
    BY <1>0, <1>1, <2>1 DEF JobInv, UnderWay, Awaits, CallInv, SendInv, TypeOK
  <2> QED
    BY <1>0, <1>1, <1>2, <2>1 DEF CallInv, SendInv
<1>8. ResultInv'
  BY <1>1 DEF ResultInv
<1> QED
  BY <1>2, <1>3, <1>4, <1>5, <1>6, <1>7, <1>8 DEF CallInv

\* The peer thread closes the link: no job waits then, so none is cancelled.
LEMMA CloseOK ==
  ASSUME IInv, central_link_close
  PROVE  IInv'
<1> USE DEF IInv
<1>0. /\ peer.pc = "missed" /\ worker' = Woken /\ peer' = [peer EXCEPT !.pc = "idle"]
      /\ ~endpoint_connected' /\ endpoint_connected' \in BOOLEAN
      /\ UNCHANGED <<main, calls, open>>
      /\ link \in LinkState /\ main = "running" /\ link.job = "NONE" /\ ~link.done
      /\ ~link.exited
  BY DEF central_link_close, TypeOK, EndInv, JobInv, Waiting, Awaits, LinkState, Job
<1>1. link' = [link EXCEPT !.connected = FALSE, !.close_requested = TRUE,
                           !.generation = @ + 1]
  BY <1>0 DEF central_link_close, LinkState
<1>2. TypeOK'
  <2>1. link' \in LinkState
    <3>1. link.generation + 1 \in Nat
      BY <1>0 DEF LinkState
    <3> QED
      BY <1>0, <1>1, <3>1 DEF LinkState
  <2> QED
    BY <1>0, <2>1, WokenOK DEF TypeOK
<1>3. EndInv'
  BY <1>0, <1>1, WokenOK DEF EndInv, TypeOK, LinkState
<1>4. JobInv'
  BY <1>0, <1>1, WokenOK DEF JobInv, TypeOK, LinkState, UnderWay, Awaits, Waiting
<1>5. OpenInv'
  BY <1>0, <1>1, WokenOK DEF OpenInv, TypeOK, LinkState, UnderWay
<1>6. PendingInv' /\ ResultInv'
  BY <1>0, <1>1 DEF CallInv, PendingInv, ResultInv, TypeOK, LinkState
<1>7. SendInv'
  BY <1>0, <1>1, WokenOK DEF CallInv, SendInv, TypeOK, LinkState
<1> QED
  BY <1>2, <1>3, <1>4, <1>5, <1>6, <1>7 DEF CallInv

\* A miss that the heartbeat tolerates.
LEMMA MissOK ==
  ASSUME IInv, MissTolerated
  PROVE  IInv'
<1> USE DEF IInv, MissTolerated
<1>1. TypeOK' /\ EndInv'
  BY DEF TypeOK, EndInv
<1>2. JobInv' /\ OpenInv'
  BY DEF TypeOK, JobInv, OpenInv, UnderWay, Awaits, Waiting
<1>3. CallInv'
  BY DEF TypeOK, CallInv, PendingInv, SendInv, ResultInv
<1> QED
  BY <1>1, <1>2, <1>3

\* The steps of main, which destroys the link.
LEMMA DestroyOK ==
  ASSUME IInv, LinkDestroy \/ DestroyTimesOut \/ DestroyFrees
  PROVE  IInv'
<1> USE DEF IInv
<1>1. CASE LinkDestroy
  <2>0. /\ Idle /\ main' = "joining" /\ worker' = Woken
        /\ link' = [link EXCEPT !.stopping = TRUE, !.connected = FALSE, !.generation = @ + 1]
        /\ UNCHANGED <<peer, endpoint_connected, calls, open>>
        /\ link \in LinkState /\ link.job = "NONE" /\ ~link.exited
    BY <1>1 DEF LinkDestroy, TypeOK, JobInv, Awaits, Idle, EndInv, LinkState, Job
  <2>1. TypeOK'
    <3>1. link.generation + 1 \in Nat
      BY <2>0 DEF LinkState
    <3>2. link' \in LinkState
      BY <2>0, <3>1 DEF LinkState
    <3> QED
      BY <2>0, <3>2, WokenOK DEF TypeOK
  <2>2. EndInv'
    BY <2>0, WokenOK DEF EndInv, TypeOK, LinkState, Idle
  <2>3. JobInv'
    BY <2>0, WokenOK DEF JobInv, TypeOK, LinkState, UnderWay, Awaits, Waiting
  <2>4. OpenInv'
    BY <2>0, WokenOK DEF OpenInv, TypeOK, LinkState, UnderWay
  <2>5. CallInv'
    BY <2>0, WokenOK DEF CallInv, PendingInv, SendInv, ResultInv, TypeOK, LinkState
  <2> QED
    BY <2>1, <2>2, <2>3, <2>4, <2>5
<1>2. CASE DestroyTimesOut
  <2>0. /\ main = "joining" /\ ~link.exited /\ main' = "detached"
        /\ link' = [link EXCEPT !.detached = TRUE] /\ link \in LinkState
        /\ UNCHANGED <<worker, peer, endpoint_connected, calls, open>>
    BY <1>2 DEF DestroyTimesOut, TypeOK
  <2>1. TypeOK'
    BY <2>0 DEF TypeOK, LinkState
  <2>2. EndInv'
    BY <2>0 DEF EndInv, TypeOK, LinkState
  <2>3. JobInv'
    BY <2>0 DEF JobInv, LinkState, UnderWay, Awaits, Waiting
  <2>4. OpenInv'
    BY <2>0 DEF OpenInv, LinkState, UnderWay
  <2>5. CallInv'
    BY <2>0 DEF CallInv, PendingInv, SendInv, ResultInv, LinkState
  <2> QED
    BY <2>1, <2>2, <2>3, <2>4, <2>5
<1>3. CASE DestroyFrees
  <2>0. /\ main = "joining" /\ link.exited /\ main' = "freed"
        /\ UNCHANGED <<link, worker, peer, endpoint_connected, calls, open>>
    BY <1>3 DEF DestroyFrees
  <2>1. TypeOK' /\ EndInv'
    BY <2>0 DEF TypeOK, EndInv
  <2>2. JobInv' /\ OpenInv' /\ CallInv'
    BY <2>0 DEF JobInv, OpenInv, UnderWay, Awaits, Waiting, CallInv, PendingInv,
                SendInv, ResultInv
  <2> QED
    BY <2>1, <2>2
<1> QED
  BY <1>1, <1>2, <1>3

-----------------------------------------------------------------------------
(***************************************************************************)
(* The theorems.                                                           *)
(***************************************************************************)

\* The link starts in the invariant.
LEMMA InitOK == Init => IInv
<1> SUFFICES ASSUME Init PROVE IInv
  OBVIOUS
<1> USE DEF Init
<1>1. TypeOK
  <2>1. link \in LinkState
    BY DEF LinkState, Job
  <2>2. calls \in Seq(Promise!Call)
    BY EmptySeq
  <2>3. 0 \in 0 .. MaxCalls
    BY LinkAssumption
  <2> QED
    BY <2>1, <2>2, <2>3 DEF TypeOK, Job
<1>2. EndInv /\ JobInv
  BY DEF EndInv, JobInv, UnderWay, Awaits, Waiting
<1>3. OpenInv
  BY DEF OpenInv, UnderWay
<1>4. CallInv
  BY LinkAssumption DEF CallInv, PendingInv, SendInv, ResultInv
<1> QED
  BY <1>1, <1>2, <1>3, <1>4 DEF IInv

\* Every step of every thread preserves the invariant.
LEMMA StepOK == IInv /\ [Next]_vars => IInv'
<1> SUFFICES ASSUME IInv, [Next]_vars PROVE IInv'
  OBVIOUS
<1>1. CASE UNCHANGED vars
  <2>1. TypeOK' /\ EndInv' /\ JobInv'
    BY <1>1 DEF IInv, vars, TypeOK, EndInv, JobInv, UnderWay, Awaits, Waiting
  <2>2. OpenInv' /\ CallInv'
    BY <1>1 DEF IInv, vars, OpenInv, CallInv, UnderWay, PendingInv, SendInv, ResultInv, Fresh
  <2> QED
    BY <2>1, <2>2 DEF IInv
<1>2. CASE Worker
  BY <1>2, WorkerTopOK, WorkerClosedOK, WorkerConnectsOK, WorkerDiscardsOK, WorkerSentOK,
     WorkerFreesOK DEF Worker
<1>3. CASE PeerReceives
  BY <1>3, PeerReceivesOK
<1>4. CASE CallConnect
  BY <1>4, CallConnectOK
<1>5. CASE CallReturns
  BY <1>5, CallReturnsOK
<1>6. CASE CallTimesOut
  BY <1>6, CallTimesOutOK
<1>7. CASE \E request \in Request : CallSend(request)
  BY <1>7, CallSendOK
<1>8. CASE central_link_close \/ MissTolerated
  BY <1>8, CloseOK, MissOK
<1>9. CASE LinkDestroy \/ DestroyTimesOut \/ DestroyFrees
  BY <1>9, DestroyOK
<1>10. CASE Ended
  BY <1>1, <1>10 DEF Ended
<1> QED
  BY <1>1, <1>2, <1>3, <1>4, <1>5, <1>6, <1>7, <1>8, <1>9, <1>10 DEF Next

\* The inductive invariant holds in every behaviour.
THEOREM LinkInvariant == Spec => []IInv
<1>1. Init => IInv
  BY InitOK
<1>2. IInv /\ [Next]_vars => IInv'
  BY StepOK
<1> QED
  BY <1>1, <1>2, PTL DEF Spec

\* No connection leaks and none is used closed, and the link's memory is
\* freed once, whatever kernel call the worker is blocked in when the caller
\* or main gives up (ipc.c: link_worker, run_job, central_link_destroy).
THEOREM ConnectionsAccounted == Spec => []NoLeak
<1>1. IInv => NoLeak
  BY DEF IInv, NoLeak, EndInv, OpenInv
<1> QED
  BY <1>1, LinkInvariant, PTL

\* A request that was given up before the worker took it is never executed.
THEOREM WithdrawnNeverRuns == Spec => []NeverRunsLater
<1>1. IInv => NeverRunsLater
  BY DEF IInv, NeverRunsLater, JobInv, Awaits, Waiting, TypeOK, LinkState, Job
<1> QED
  BY <1>1, LinkInvariant, PTL

\* A connection of the link is one that Central has learnt of.
THEOREM ConnectionsKnown == Spec => []LinkKnown
<1>1. IInv => LinkKnown
  BY DEF IInv, LinkKnown, OpenInv, Waiting
<1> QED
  BY <1>1, LinkInvariant, PTL

\* The calls start empty.
LEMMA PromiseInit == Init => Promise!Init
BY DEF Init, Promise!Init

\* Every step is one that LinkCall allows, or leaves the calls alone.
LEMMA PromiseStep == IInv /\ IInv' /\ [Next]_vars => [Promise!Next]_calls
<1> SUFFICES ASSUME IInv, IInv', [Next]_vars, calls' # calls
             PROVE  Promise!Next
  BY DEF Promise!Next
<1>0. /\ calls \in Seq(Promise!Call) /\ Len(calls) \in Nat
      /\ DOMAIN calls = 1 .. Len(calls)
  BY LenProperties DEF IInv, TypeOK
<1>1. CASE WorkerSent
  <2> DEFINE call == worker.call
             request == calls[call].request
  <2>1. /\ worker.pc = "job" /\ worker.job = "SEND" /\ UnderWay
        /\ call \in 1 .. Len(calls) /\ calls[call].answer = "none"
        /\ calls[call].got
    BY <1>1 DEF WorkerSent, IInv, CallInv, SendInv, UnderWay
  <2>2. PICK reply \in Reply(request.id) :
          calls' = [calls EXCEPT ![call].answer = Said(request, reply)]
    BY <1>1 DEF WorkerSent
  <2>3. calls[call].outcome \in {"pending", "TRANSPORT"}
    <3>1. CASE link.abandoned
      BY <2>1, <3>1 DEF IInv, CallInv, SendInv
    <3>2. CASE ~link.abandoned
      BY <2>1, <3>2 DEF IInv, CallInv, SendInv, PendingInv, JobInv, Awaits
    <3> QED
      BY <3>1, <3>2
  <2>4. Said(request, reply) \in {"ack", "nack", "garbled"}
    BY DEF Said
  <2>5. Promise!Answer(call, Said(request, reply))
    BY <2>1, <2>2, <2>3 DEF Promise!Answer, Promise!InDoubt
  <2> QED
    BY <1>0, <2>1, <2>4, <2>5 DEF Promise!Next
<1>2. CASE PeerReceives
  <2> DEFINE call == worker.call
  <2>1. /\ worker.pc = "job" /\ worker.job = "SEND" /\ UnderWay
        /\ call \in 1 .. Len(calls) /\ ~calls[call].got
        /\ \A j \in DOMAIN calls : j > call => ~calls[j].got
        /\ calls' = [calls EXCEPT ![call].got = TRUE]
    BY <1>2 DEF PeerReceives, IInv, CallInv, SendInv, UnderWay
  <2>2. calls[call].outcome \in {"pending", "TRANSPORT"}
    <3>1. CASE link.abandoned
      BY <2>1, <3>1 DEF IInv, CallInv, SendInv
    <3>2. CASE ~link.abandoned
      BY <2>1, <3>2 DEF IInv, CallInv, SendInv, PendingInv, JobInv, Awaits
    <3> QED
      BY <3>1, <3>2
  <2>3. Promise!Arrive(call)
    BY <2>1, <2>2 DEF Promise!Arrive, Promise!InDoubt
  <2> QED
    BY <1>0, <2>1, <2>3 DEF Promise!Next
<1>3. ASSUME NEW request \in Request, CallSend(request)
      PROVE  Promise!Next
  <2>1. \A i \in DOMAIN calls : calls[i].outcome # "pending"
    BY <1>3 DEF CallSend, Idle, IInv, CallInv, PendingInv
  <2>2. \E outcome \in {"pending", "TRANSPORT"} :
          calls' = Append(calls, Promise!New(request, outcome))
    BY <1>3 DEF CallSend, Promise!New
  <2>3. Promise!Begin(request)
    BY <2>1, <2>2 DEF Promise!Begin
  <2> QED
    BY <2>3 DEF Promise!Next
<1>4. ASSUME NEW s, NEW result, result \in {"OK", "REJECTED", "PROTOCOL", "TRANSPORT"},
             Waiting, Returns(result, s),
             peer.pc = "send" =>
               \/ result = "TRANSPORT"
               \/ /\ calls[Len(calls)].answer # "none"
                  /\ result = Promise!Meaning[calls[Len(calls)].answer]
      PROVE  Promise!Next
  <2>1. /\ peer.pc = "send"
        /\ calls' = [calls EXCEPT ![Len(calls)].outcome = result]
    BY <1>4 DEF Returns, Waiting
  <2>2. Len(calls) > 0 /\ calls[Len(calls)].outcome = "pending"
    BY <2>1 DEF IInv, CallInv, PendingInv
  <2>3. Len(calls) \in DOMAIN calls
    BY ONLY <1>0, <2>2
  <2>4. Promise!Return(Len(calls))
    BY <1>4, <2>1, <2>2 DEF Promise!Return, Promise!Outcome
  <2> QED
    BY <2>3, <2>4 DEF Promise!Next
<1>5. CASE CallReturns
  <2>1. link.result \in {"OK", "REJECTED", "PROTOCOL", "TRANSPORT"}
    BY DEF IInv, TypeOK, LinkState
  <2>2. peer.pc = "send" =>
          \/ link.result = "TRANSPORT"
          \/ /\ calls[Len(calls)].answer # "none"
             /\ link.result = Promise!Meaning[calls[Len(calls)].answer]
    BY <1>5 DEF CallReturns, IInv, CallInv, ResultInv
  <2> QED
    BY <1>4, <1>5, <2>1, <2>2 DEF CallReturns
<1>6. CASE CallTimesOut
  BY <1>4, <1>6 DEF CallTimesOut
<1> QED
  BY <1>1, <1>2, <1>3, <1>5, <1>6
  DEF Next, Worker, WorkerTop, WorkerClosed, WorkerConnects, WorkerDiscards, WorkerFrees,
      CallConnect, central_link_close, MissTolerated, LinkDestroy, DestroyTimesOut,
      DestroyFrees, Ended, vars

\* central_send keeps its promise: every receipt and every refusal is the
\* peer's answer to that very request, which reached the peer once and in
\* order, although results come late and replies may be cut short.
THEOREM PromiseKept == Spec => KeepsPromise
<1>1. Init => Promise!Init
  BY PromiseInit
<1>2. IInv /\ IInv' /\ [Next]_vars => [Promise!Next]_calls
  BY PromiseStep
<1> QED
  BY <1>1, <1>2, LinkInvariant, PTL DEF Spec, KeepsPromise, Promise!Spec
=============================================================================
