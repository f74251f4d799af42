------------------------------ MODULE LinkCall ------------------------------
(***************************************************************************)
(* What central_send (central_controller/src/ipc.c) promises the thread    *)
(* that calls it: requests reach the peer at most once and in the order of *)
(* the calls, and a receipt or a refusal is the peer's answer to this very *)
(* request.  Any other result says nothing: the request may have arrived,  *)
(* or may still arrive after the call has returned.                        *)
(***************************************************************************)
EXTENDS Naturals, Sequences

CONSTANT Request

Outcome == {"OK", "REJECTED", "PROTOCOL", "TRANSPORT"}
Call == [request: Request, outcome: Outcome \cup {"pending"}, got: BOOLEAN,
         answer: {"none", "ack", "nack", "garbled"}]

VARIABLE calls            \* every call so far, in order

Init == calls = << >>

New(r, outcome) ==
  [request |-> r, outcome |-> outcome, got |-> FALSE, answer |-> "none"]

\* At most one call is pending: the link serves one caller at a time.
Begin(r) ==
  /\ \A i \in DOMAIN calls : calls[i].outcome # "pending"
  /\ \E outcome \in {"pending", "TRANSPORT"} : calls' = Append(calls, New(r, outcome))

InDoubt(i) == calls[i].outcome \in {"pending", "TRANSPORT"}

Arrive(i) ==
  /\ InDoubt(i) /\ ~calls[i].got
  /\ \A j \in DOMAIN calls : j > i => ~calls[j].got
  /\ calls' = [calls EXCEPT ![i].got = TRUE]

Answer(i, answer) ==
  /\ InDoubt(i) /\ calls[i].got /\ calls[i].answer = "none"
  /\ calls' = [calls EXCEPT ![i].answer = answer]

Meaning == [ack |-> "OK", nack |-> "REJECTED", garbled |-> "PROTOCOL"]

Return(i) ==
  /\ calls[i].outcome = "pending"
  /\ \E outcome \in Outcome :
       /\ outcome # "TRANSPORT" => /\ calls[i].answer # "none"
                                   /\ outcome = Meaning[calls[i].answer]
       /\ calls' = [calls EXCEPT ![i].outcome = outcome]

Next ==
  \/ \E r \in Request : Begin(r)
  \/ \E i \in DOMAIN calls :
       Arrive(i) \/ Return(i) \/ \E a \in {"ack", "nack", "garbled"} : Answer(i, a)

Spec == Init /\ [][Next]_calls
=============================================================================
