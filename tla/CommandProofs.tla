--------------------------- MODULE CommandProofs ---------------------------
(***************************************************************************)
(* Safety of Central's commands, for any number of intersections, routes,  *)
(* ids and sizes of the queues and of the history.                         *)
(*                                                                         *)
(* MatchInv ties the queues and the peer threads to the records.  YieldInv *)
(* keeps the schedule behind the operator: it needs to know that a queued  *)
(* request of the schedule is always found in a queue (MatchInv), where    *)
(* the operator cancels it, and that the request an operator was granted   *)
(* has been noted before the schedule may follow it.                       *)
(***************************************************************************)
EXTENDS CommandQueue, FiniteSetTheorems, SequenceTheorems, TLAPS

Entry == [id: Id, due: BOOLEAN]
OperatorState ==
  {Idle} \cup [pc: {"command"}, request: Requests] \cup [pc: {"tick"}, target: Target]
    \cup [pc: {"schedule"}, target: Target, mode: Mode]

\* The variables have their types; a thread that gave up on its peer has no probe
\* under way.
RecordsTyped ==
  /\ DOMAIN commands \subseteq Id
  /\ IsFiniteSet(DOMAIN commands)
  /\ Cardinality(DOMAIN commands) <= COMMAND_HISTORY_SIZE
  /\ \A id \in DOMAIN commands : commands[id] \in Record
QueuesTyped ==
  /\ queue \in [Peer -> Seq(Entry)]
  /\ \A p \in Peer : Len(queue[p]) <= COMMAND_QUEUE_SIZE
PolicyTyped ==
  /\ operator_policy \in [persistent: SUBSET Target, temporary: SUBSET Target]
  /\ policy_command \in [Target -> Id \cup {NoId}]
  /\ policy_ack \in [Target -> Id \cup {NoId}]
  /\ scheduled_mode \in [Target -> Mode \cup {NoMode}]
ThreadsTyped ==
  /\ endpoint_connected \subseteq Peer
  /\ thread \in [Peer -> [pc: {"wait", "probe", "send"}, ready: BOOLEAN,
                          misses: 0 .. HEARTBEAT_MISS_LIMIT, work: Id \cup {NoId}]]
  /\ \A p \in Peer : \/ thread[p].misses < HEARTBEAT_MISS_LIMIT
                     \/ p \notin endpoint_connected /\ thread[p].pc # "probe"
OthersTyped ==
  /\ monitor \in MonitorState
  /\ operator \in OperatorState
  /\ running \in BOOLEAN
  /\ reported \subseteq Target

\* The ids of a queue, and that they are different.
Ids(q) == {q[i].id : i \in DOMAIN q}
Distinct(q) == \A i, j \in DOMAIN q : i # j => q[i].id # q[j].id

\* What peer p is sending.
Sending(p) == IF thread[p].pc = "send" THEN {thread[p].work} ELSE {}

\* Queues, peer threads and records agree.
MatchInv ==
  \A p \in Peer : /\ Distinct(queue[p])
                  /\ Ids(queue[p]) = InState(commands, p, "QUEUED")
                  /\ Sending(p) = InState(commands, p, "SENDING")

\* The statuses that count came since contact was last lost.
Fresh(m, R) == "LOCAL" \in m.online => m.synchronized \subseteq R
FreshInv == Fresh(monitor, reported)

\* The operator's last mode request is a mode request.
PolicyInv ==
  \A t \in Target : policy_command[t] \in DOMAIN commands =>
    commands[policy_command[t]].kind \in ModeKind

\* A request of the schedule waits for t.
Automatic(t) ==
  \E id \in DOMAIN commands :
    commands[id].automatic /\ commands[id].state = "QUEUED" /\ commands[id].target = t

\* Nothing of the operator's stands against the schedule at t.
Quiet(t) ==
  /\ ~central_policy_operator_active(operator_policy, t)
  /\ policy_command[t] \in {NoId, policy_ack[t]}
  /\ policy_command[t] \in DOMAIN commands => commands[policy_command[t]].state = "ACCEPTED"

YieldInv ==
  /\ \A t \in Target : Automatic(t) => Quiet(t)
  /\ operator.pc = "schedule" => Quiet(operator.target)
  /\ operator.pc = "command" => \A t \in Members(operator.request.target) : ~Automatic(t)

\* The inductive invariant.
IInv == /\ RecordsTyped /\ QueuesTyped /\ PolicyTyped /\ ThreadsTyped /\ OthersTyped
        /\ MatchInv /\ OutcomeTruthful /\ FreshInv /\ PolicyInv /\ YieldInv

-----------------------------------------------------------------------------
(***************************************************************************)
(* Sets in order, and parts of queues.                                     *)
(***************************************************************************)
\* Ascending lists every element of a finite set of numbers exactly once.
LEMMA AscendingList ==
  ASSUME NEW T, T \subseteq Int, IsFiniteSet(T)
  PROVE  /\ Cardinality(T) \in Nat
         /\ \A k \in 1 .. Cardinality(T) : Ascending(T)[k] \in T
         /\ \A j, k \in 1 .. Cardinality(T) :
              Ascending(T)[j] = Ascending(T)[k] => j = k
         /\ \A t \in T : \E k \in 1 .. Cardinality(T) : Ascending(T)[k] = t
<1> DEFINE n == Cardinality(T)
           UpTo(t) == {s \in T : s <= t}
           rank == [t \in T |-> Cardinality(UpTo(t))]
<1>1. n \in Nat
  BY FS_CardinalityType
<1>2. \A t \in T : Cardinality(UpTo(t)) \in 1 .. n
  <2> SUFFICES ASSUME NEW t \in T PROVE Cardinality(UpTo(t)) \in 1 .. n
    OBVIOUS
  <2>1. IsFiniteSet(UpTo(t)) /\ Cardinality(UpTo(t)) <= n
    BY FS_Subset
  <2>2. Cardinality(UpTo(t)) \in Nat
    BY <2>1, FS_CardinalityType
  <2>3. t \in UpTo(t)
    OBVIOUS
  <2>4. Cardinality(UpTo(t)) # 0
    BY <2>1, <2>3, FS_EmptySet
  <2> QED BY <1>1, <2>1, <2>2, <2>4
<1>3. \A s, t \in T : Cardinality(UpTo(s)) = Cardinality(UpTo(t)) => s = t
  <2>1. \A s, t \in T : s < t => Cardinality(UpTo(s)) # Cardinality(UpTo(t))
    <3> SUFFICES ASSUME NEW s \in T, NEW t \in T, s < t
                 PROVE  Cardinality(UpTo(s)) # Cardinality(UpTo(t))
      OBVIOUS
    <3>0. \A x \in T : x <= s => x <= t
      OBVIOUS
    <3>1. UpTo(s) \in SUBSET UpTo(t)
      BY <3>0
    <3>2. t \in UpTo(t) /\ t \notin UpTo(s)
      OBVIOUS
    <3>3. IsFiniteSet(UpTo(t))
      BY FS_Subset
    <3>4. Cardinality(UpTo(t)) = Cardinality(UpTo(s)) => UpTo(t) = UpTo(s)
      BY <3>1, <3>3, FS_Subset
    <3> QED BY <3>2, <3>4
  <2> QED BY <2>1
<1>4. rank \in Injection(T, 1 .. n)
  BY <1>2, <1>3 DEF Injection, IsInjective
<1>5. IsFiniteSet(1 .. n) /\ Cardinality(1 .. n) = n
  BY <1>1, FS_Interval
<1>6. rank \in Surjection(T, 1 .. n)
  BY <1>4, <1>5, FS_Injection
<1>7. \A k \in 1 .. n : \E t \in T : Cardinality(UpTo(t)) = k
  BY <1>6 DEF Surjection
<1>8. \A k \in 1 .. n : Ascending(T)[k] = CHOOSE t \in T : Cardinality(UpTo(t)) = k
  BY DEF Ascending
<1> HIDE DEF UpTo
<1>9. \A k \in 1 .. n : Ascending(T)[k] \in T /\ Cardinality(UpTo(Ascending(T)[k])) = k
  BY <1>7, <1>8
<1>10. \A t \in T : Ascending(T)[Cardinality(UpTo(t))] = t
  BY <1>2, <1>3, <1>9
<1> QED BY <1>1, <1>2, <1>9, <1>10

\* Keep keeps the entries at the places K, each once.
LEMMA KeepFacts ==
  ASSUME NEW E, NEW q \in Seq(E), NEW K, K \subseteq DOMAIN q
  PROVE  /\ Keep(q, K) \in Seq(E)
         /\ Len(Keep(q, K)) <= Len(q)
         /\ Ids(Keep(q, K)) = {q[i].id : i \in K}
         /\ Distinct(q) => Distinct(Keep(q, K))
<1> DEFINE n == Cardinality(K)
           asc == Ascending(K)
<1>1. Len(q) \in Nat /\ DOMAIN q = 1 .. Len(q)
  OBVIOUS
<1>2. IsFiniteSet(1 .. Len(q)) /\ Cardinality(1 .. Len(q)) = Len(q)
  <2>1. \A m \in Nat : IsFiniteSet(1 .. m) /\ Cardinality(1 .. m) = m
    BY FS_Interval
  <2> QED BY ONLY <1>1, <2>1
<1>3. IsFiniteSet(K) /\ n <= Len(q) /\ K \subseteq Int
  BY <1>1, <1>2, FS_Subset
<1>4. n \in Nat
  BY <1>3, FS_CardinalityType
<1>5. \A k \in 1 .. n : asc[k] \in K
  BY <1>3, AscendingList
<1>6. \A j, k \in 1 .. n : asc[j] = asc[k] => j = k
  BY <1>3, AscendingList
<1>7. \A i \in K : \E k \in 1 .. n : asc[k] = i
  BY <1>3, AscendingList
<1>8. Keep(q, K) = [k \in 1 .. n |-> q[asc[k]]]
  BY DEF Keep
<1> HIDE DEF n, asc
<1>9. \A k \in 1 .. n : q[asc[k]] \in E
  BY <1>1, <1>5, ElementOfSeq
<1>10. Keep(q, K) \in Seq(E) /\ DOMAIN Keep(q, K) = 1 .. n
  BY <1>4, <1>8, <1>9
<1>11. Len(Keep(q, K)) <= Len(q)
  BY <1>3, <1>4, <1>10
<1>12. Ids(Keep(q, K)) = {q[i].id : i \in K}
  BY <1>5, <1>7, <1>8, <1>10 DEF Ids
<1>13. Distinct(q) => Distinct(Keep(q, K))
  BY <1>5, <1>6, <1>8, <1>10 DEF Distinct
<1> QED BY <1>10, <1>11, <1>12, <1>13

-----------------------------------------------------------------------------
(***************************************************************************)
(* Constants and the monitor.                                              *)
(***************************************************************************)
LEMMA ConstantFacts ==
  /\ Target \subseteq Int /\ IsFiniteSet(Target) /\ 0 \in Target
  /\ "train" \in Peer
  /\ \A t \in Target : Route[t] \in Peer
  /\ \A p \in Peer : SourceOf(p) \in Source
  /\ COMMAND_QUEUE_SIZE \in Nat /\ COMMAND_HISTORY_SIZE \in Nat
  /\ HEARTBEAT_MISS_LIMIT \in Nat /\ HEARTBEAT_MISS_LIMIT > 0
  /\ NoId \notin Id /\ Reachable \subseteq Peer /\ ALL \notin Target
  /\ \A r \in Requests : r.kind \in Kind /\ r.target \in Target \cup {ALL}
<1>1. NUM_INTERSECTIONS \in Nat /\ NUM_INTERSECTIONS > 0
  BY SizeAssumption
<1>2. Target \subseteq Int /\ 0 \in Target /\ IsFiniteSet(Target)
  BY <1>1, FS_Interval DEF Target
<1>3. /\ "train" \in Peer
      /\ \A t \in Target : Route[t] \in Peer
      /\ \A p \in Peer : SourceOf(p) \in Source
  BY DEF Peer, Local, SourceOf, Source
<1>4. \A r \in Requests : r.kind \in Kind /\ r.target \in Target \cup {ALL}
  BY QueueAssumption
<1>5. /\ COMMAND_QUEUE_SIZE \in Nat /\ COMMAND_HISTORY_SIZE \in Nat
      /\ HEARTBEAT_MISS_LIMIT \in Nat /\ HEARTBEAT_MISS_LIMIT > 0
      /\ NoId \notin Id /\ Reachable \subseteq Peer /\ ALL \notin Target
  BY QueueAssumption
<1> QED BY <1>2, <1>3, <1>4, <1>5

\* Contact keeps the statuses that count among those that came since it was lost.
LEMMA ObserveFacts ==
  ASSUME NEW m \in MonitorState, NEW source \in Source, NEW R, Fresh(m, R)
  PROVE  /\ central_observe_peer(m, source) \in MonitorState
         /\ Fresh(central_observe_peer(m, source), R)
BY DEF central_observe_peer, central_peer_disconnected, MonitorState, Fresh, Source

LEMMA DisconnectFacts ==
  ASSUME NEW m \in MonitorState, NEW source \in Source, NEW R, Fresh(m, R)
  PROVE  /\ central_peer_disconnected(m, source) \in MonitorState
         /\ Fresh(central_peer_disconnected(m, source), R)
BY DEF central_peer_disconnected, MonitorState, Fresh, Source

-----------------------------------------------------------------------------
(***************************************************************************)
(* Records that are settled.                                               *)
(***************************************************************************)
\* A step that only moves commands on towards their outcome.
Settled ==
  /\ DOMAIN commands' = DOMAIN commands
  /\ \A id \in DOMAIN commands :
       /\ commands'[id].kind = commands[id].kind
       /\ commands'[id].target = commands[id].target
       /\ commands'[id].automatic = commands[id].automatic
       /\ \/ commands'[id].state = commands[id].state
          \/ /\ commands[id].state \in {"QUEUED", "SENDING"}
             /\ commands'[id].state # "QUEUED"

\* It leaves the schedule no further ahead of the operator.
LEMMA SettledFacts ==
  ASSUME PolicyTyped, PolicyInv, Settled,
         UNCHANGED <<operator_policy, policy_command, policy_ack>>
  PROVE  /\ PolicyInv'
         /\ \A t \in Target : /\ Automatic(t)' => Automatic(t)
                              /\ Quiet(t) => Quiet(t)'
<1>1. PolicyInv'
  BY DEF PolicyInv, Settled
<1>2. ASSUME NEW t \in Target PROVE Automatic(t)' => Automatic(t)
  BY DEF Automatic, Settled
<1>3. ASSUME NEW t \in Target, Quiet(t) PROVE Quiet(t)'
  BY <1>3 DEF Quiet, Settled, central_policy_operator_active
<1> QED BY <1>1, <1>2, <1>3

\* Queued commands W leave their queues, and are sent or given up.
LEMMA LeaveQueue ==
  ASSUME RecordsTyped, QueuesTyped, MatchInv, OutcomeTruthful,
         NEW W, W \subseteq DOMAIN commands,
         \A id \in W : commands[id].state = "QUEUED",
         NEW st \in {"CANCELED", "EXPIRED", "SENDING"},
         commands' = finish_command(commands, W, st),
         queue' \in [Peer -> Seq(Entry)],
         \A p \in Peer : /\ Len(queue'[p]) <= Len(queue[p])
                         /\ Distinct(queue'[p])
                         /\ Ids(queue'[p]) = Ids(queue[p]) \ W,
         \A p \in Peer : Sending(p)' = Sending(p) \cup
            (IF st = "SENDING" THEN W \cap InState(commands, p, "QUEUED") ELSE {})
  PROVE  RecordsTyped' /\ QueuesTyped' /\ MatchInv' /\ OutcomeTruthful' /\ Settled
<1>1. DOMAIN commands' = DOMAIN commands
  BY DEF finish_command
<1>2. \A id \in DOMAIN commands :
        commands'[id] = IF id \in W THEN [commands[id] EXCEPT !.state = st]
                        ELSE commands[id]
  BY DEF finish_command
<1>3. \A id \in DOMAIN commands : commands[id] \in Record
  BY DEF RecordsTyped
<1>4. st \in RequestState
  BY DEF RequestState
<1>5. ASSUME NEW id \in DOMAIN commands
      PROVE  /\ commands'[id] \in Record
             /\ commands'[id].kind = commands[id].kind
             /\ commands'[id].target = commands[id].target
             /\ commands'[id].automatic = commands[id].automatic
             /\ commands'[id].got = commands[id].got
             /\ commands'[id].state = IF id \in W THEN st ELSE commands[id].state
  <2>1. commands[id] \in Record
    BY <1>3
  <2>2. CASE id \in W
    <3>1. commands'[id] = [commands[id] EXCEPT !.state = st]
      BY <1>2, <2>2
    <3> QED BY ONLY <1>4, <2>1, <2>2, <3>1 DEF Record
  <2>3. CASE id \notin W
    <3>1. commands'[id] = commands[id]
      BY <1>2, <2>3
    <3> QED BY ONLY <2>1, <2>3, <3>1
  <2> QED BY <2>2, <2>3
<1>6. RecordsTyped'
  BY <1>1, <1>5 DEF RecordsTyped
<1>7. QueuesTyped'
  BY ConstantFacts DEF QueuesTyped
<1>8. OutcomeTruthful'
  BY <1>1, <1>5 DEF OutcomeTruthful
<1>9. Settled
  BY <1>1, <1>5 DEF Settled
<1>10. ASSUME NEW p \in Peer
       PROVE  /\ Ids(queue[p]) = InState(commands, p, "QUEUED")
              /\ Sending(p) = InState(commands, p, "SENDING")
  BY DEF MatchInv
<1>11. ASSUME NEW p \in Peer
       PROVE  InState(commands, p, "QUEUED")' = InState(commands, p, "QUEUED") \ W
  BY <1>1, <1>5 DEF InState
<1>12. ASSUME NEW p \in Peer
       PROVE  InState(commands, p, "SENDING")' = InState(commands, p, "SENDING") \cup
               (IF st = "SENDING" THEN W \cap InState(commands, p, "QUEUED") ELSE {})
  <2>1. \A id \in W : id \in DOMAIN commands /\ commands[id].state = "QUEUED"
    OBVIOUS
  <2>2. \A id : id \in InState(commands, p, "SENDING")' <=>
          \/ id \in InState(commands, p, "SENDING")
          \/ st = "SENDING" /\ id \in W /\ id \in InState(commands, p, "QUEUED")
    BY ONLY <1>1, <1>5, <2>1 DEF InState
  <2>3. CASE st = "SENDING"
    BY ONLY <2>2, <2>3
  <2>4. CASE st # "SENDING"
    BY ONLY <2>2, <2>4
  <2> QED BY <2>3, <2>4
<1>13. ASSUME NEW p \in Peer
       PROVE  /\ Distinct(queue[p])'
              /\ Ids(queue[p])' = InState(commands, p, "QUEUED")'
              /\ Sending(p)' = InState(commands, p, "SENDING")'
  <2>1. Distinct(queue[p])' /\ Ids(queue[p])' = Ids(queue[p]) \ W
    BY DEF Ids, Distinct
  <2>2. Sending(p)' = Sending(p) \cup
          (IF st = "SENDING" THEN W \cap InState(commands, p, "QUEUED") ELSE {})
    OBVIOUS
  <2> QED BY ONLY p \in Peer, <1>10, <1>11, <1>12, <2>1, <2>2
<1>14. MatchInv'
  BY <1>13 DEF MatchInv
<1> QED BY <1>6, <1>7, <1>8, <1>9, <1>14

\* Operators cancel what the schedule has queued for their targets.
LEMMA CancelFacts ==
  ASSUME RecordsTyped, QueuesTyped, MatchInv, OutcomeTruthful,
         NEW target \in Target \cup {ALL},
         commands' = cancel_automatic(Now, target).commands,
         queue' = cancel_automatic(Now, target).queue,
         UNCHANGED thread
  PROVE  /\ RecordsTyped' /\ QueuesTyped' /\ MatchInv' /\ OutcomeTruthful' /\ Settled
         /\ \A t \in Members(target) : ~Automatic(t)'
<1> DEFINE W == {id \in UNION {{e.id : e \in Range(queue[p])} : p \in Peer} :
                   \E i \in find_command(commands, id) :
                      commands[i].automatic /\ commands[i].target \in Members(target)}
           K(p) == {k \in DOMAIN queue[p] : queue[p][k].id \notin W}
<1>1. /\ commands' = finish_command(commands, W, "CANCELED")
      /\ queue' = [p \in Peer |-> Keep(queue[p], K(p))]
  BY DEF cancel_automatic, Now
<1>2. \A id : id \in W <=> /\ \E p \in Peer : id \in Ids(queue[p])
                           /\ id \in DOMAIN commands
                           /\ commands[id].automatic
                           /\ commands[id].target \in Members(target)
  BY DEF Ids, Range, find_command
<1> HIDE DEF W
<1>3. W \subseteq DOMAIN commands /\ \A id \in W : commands[id].state = "QUEUED"
  BY <1>2 DEF MatchInv, InState
<1>4. ASSUME NEW p \in Peer
      PROVE  /\ queue'[p] \in Seq(Entry)
             /\ Len(queue'[p]) <= Len(queue[p])
             /\ Distinct(queue'[p])
             /\ Ids(queue'[p]) = Ids(queue[p]) \ W
  <2>1. queue[p] \in Seq(Entry) /\ Distinct(queue[p])
    BY DEF QueuesTyped, MatchInv
  <2>2. K(p) \subseteq DOMAIN queue[p]
    OBVIOUS
  <2>3. {queue[p][i].id : i \in K(p)} = Ids(queue[p]) \ W
    BY DEF Ids
  <2>4. queue'[p] = Keep(queue[p], K(p))
    BY <1>1
  <2> HIDE DEF K
  <2> QED BY <2>1, <2>2, <2>3, <2>4, KeepFacts
<1>5. queue' \in [Peer -> Seq(Entry)]
  BY <1>1, <1>4
<1>6. \A p \in Peer : Sending(p)' = Sending(p) \cup
        (IF "CANCELED" = "SENDING" THEN W \cap InState(commands, p, "QUEUED") ELSE {})
  BY DEF Sending
<1>7. RecordsTyped' /\ QueuesTyped' /\ MatchInv' /\ OutcomeTruthful' /\ Settled
  BY <1>1, <1>3, <1>4, <1>5, <1>6, LeaveQueue
<1>8. ASSUME NEW t \in Members(target), Automatic(t)'
      PROVE  FALSE
  <2>1. PICK id \in DOMAIN commands : /\ commands'[id].automatic
                                      /\ commands'[id].state = "QUEUED"
                                      /\ commands'[id].target = t
    BY <1>7, <1>8 DEF Automatic, Settled
  <2>2. /\ commands[id].automatic /\ commands[id].target = t
        /\ commands[id].state = "QUEUED"
    BY <1>7, <2>1 DEF Settled
  <2>3. commands[id] \in Record
    BY DEF RecordsTyped
  <2>4. PeerOf(commands[id].kind, commands[id].target) \in Peer
    BY <2>3, ConstantFacts DEF Record, PeerOf
  <2>5. \E p \in Peer : id \in Ids(queue[p])
    BY <2>2, <2>4 DEF MatchInv, InState
  <2>6. id \in W
    BY <1>2, <2>2, <2>5
  <2>7. commands'[id].state = "CANCELED"
    BY <1>1, <2>3, <2>6 DEF finish_command, Record
  <2> QED BY <2>1, <2>7
<1> QED BY <1>7, <1>8

\* The queues of some endpoints are given up.
LEMMA DiscardFacts ==
  ASSUME RecordsTyped, QueuesTyped, MatchInv, OutcomeTruthful,
         NEW peers, peers \subseteq Peer, Becomes(discard_queue(Now, peers)),
         \A p \in Peer : Sending(p)' = Sending(p)
  PROVE  /\ RecordsTyped' /\ QueuesTyped' /\ MatchInv' /\ OutcomeTruthful' /\ Settled
         /\ policy_command' = policy_command
<1> DEFINE W == UNION {InState(commands, p, "QUEUED") : p \in peers}
<1>1. /\ commands' = finish_command(commands, W, "CANCELED")
      /\ queue' = [p \in Peer |-> IF p \in peers THEN << >> ELSE queue[p]]
      /\ policy_command' = policy_command
  BY DEF Becomes, discard_queue, Now
<1>2. \A id : id \in W <=> \E p \in peers : id \in InState(commands, p, "QUEUED")
  OBVIOUS
<1> HIDE DEF W
<1>3. W \subseteq DOMAIN commands /\ \A id \in W : commands[id].state = "QUEUED"
  BY <1>2 DEF InState
<1>4. ASSUME NEW p \in Peer
      PROVE  /\ queue'[p] \in Seq(Entry)
             /\ Len(queue'[p]) <= Len(queue[p])
             /\ Distinct(queue'[p])
             /\ Ids(queue'[p]) = Ids(queue[p]) \ W
  <2>1. /\ queue[p] \in Seq(Entry) /\ Distinct(queue[p])
        /\ Ids(queue[p]) = InState(commands, p, "QUEUED")
    BY DEF QueuesTyped, MatchInv
  <2>2. CASE p \in peers
    <3>1. queue'[p] = << >>
      BY <1>1, <2>2
    <3>2. << >> \in Seq(Entry) /\ Len(<< >>) <= Len(queue[p])
      BY <2>1
    <3>3. Ids(<< >>) = {} /\ Distinct(<< >>)
      BY DEF Ids, Distinct
    <3>4. Ids(queue[p]) \subseteq W
      BY <1>2, <2>1, <2>2
    <3> QED BY <3>1, <3>2, <3>3, <3>4
  <2>3. CASE p \notin peers
    <3>1. queue'[p] = queue[p]
      BY <1>1, <2>3
    <3>2. InState(commands, p, "QUEUED") \cap W = {}
      BY <1>2, <2>3 DEF InState
    <3> QED BY <2>1, <3>1, <3>2
  <2> QED BY <2>2, <2>3
<1>5. queue' \in [Peer -> Seq(Entry)]
  BY <1>1, <1>4
<1>6. \A p \in Peer : Sending(p)' = Sending(p) \cup
        (IF "CANCELED" = "SENDING" THEN W \cap InState(commands, p, "QUEUED") ELSE {})
  OBVIOUS
<1>7. RecordsTyped' /\ QueuesTyped' /\ MatchInv' /\ OutcomeTruthful' /\ Settled
  BY <1>1, <1>3, <1>4, <1>5, <1>6, LeaveQueue
<1> QED BY <1>1, <1>7

-----------------------------------------------------------------------------
(***************************************************************************)
(* The receiver, and what stays true while records are only settled.       *)
(***************************************************************************)
\* What holds of the schedule and the operator stays so while records are only
\* settled and the operator is not asked anything.
LEMMA YieldStays ==
  ASSUME PolicyTyped, PolicyInv, YieldInv, Settled,
         UNCHANGED <<operator_policy, policy_command, policy_ack, operator>>,
         OthersTyped
  PROVE  PolicyInv' /\ YieldInv'
<1>1. PolicyInv' /\ \A t \in Target : /\ Automatic(t)' => Automatic(t)
                                      /\ Quiet(t) => Quiet(t)'
  BY SettledFacts
<1>2. \A t \in Target : Automatic(t)' => Quiet(t)'
  BY <1>1 DEF YieldInv
<1>3. operator.pc = "schedule" => operator.target \in Target
  BY DEF OthersTyped, OperatorState, Idle
<1>4. (operator.pc = "schedule" => Quiet(operator.target))'
  <2>1. operator.pc = "schedule" => Quiet(operator.target)
    BY DEF YieldInv
  <2> QED BY <1>1, <1>3, <2>1 DEF Quiet
<1>5. operator.pc = "command" => Members(operator.request.target) \subseteq Target
  BY ConstantFacts DEF OthersTyped, OperatorState, Idle, Members
<1>6. (operator.pc = "command" => \A t \in Members(operator.request.target) : ~Automatic(t))'
  <2>1. operator.pc = "command" => \A t \in Members(operator.request.target) : ~Automatic(t)
    BY DEF YieldInv
  <2> QED BY <1>1, <1>5, <2>1
<1> QED BY <1>1, <1>2, <1>4, <1>6 DEF YieldInv

LEMMA UnchangedSettled ==
  ASSUME UNCHANGED commands
  PROVE  Settled
BY DEF Settled

\* Steps of the receiver: only the monitor and "reported" change.
LEMMA OnlyMonitorOK ==
  ASSUME IInv, OnlyMonitor, monitor' \in MonitorState, reported' \subseteq Target,
         Fresh(monitor', reported')
  PROVE  IInv'
<1>1. UNCHANGED <<endpoint_connected, commands, queue, policy_command, operator_policy,
                  policy_ack, scheduled_mode, thread, operator, running>>
  BY DEF OnlyMonitor, central, policy
<1>2. RecordsTyped' /\ QueuesTyped' /\ PolicyTyped' /\ ThreadsTyped'
  BY <1>1 DEF IInv, RecordsTyped, QueuesTyped, PolicyTyped, ThreadsTyped
<1>3. OthersTyped' /\ FreshInv'
  BY <1>1 DEF IInv, OthersTyped, FreshInv
<1>4. MatchInv' /\ OutcomeTruthful'
  BY <1>1 DEF IInv, MatchInv, OutcomeTruthful, InState, Sending
<1>5. PolicyInv' /\ YieldInv'
  BY <1>1, YieldStays, UnchangedSettled DEF IInv
<1> QED BY <1>2, <1>3, <1>4, <1>5 DEF IInv

LEMMA StatusArrivesOK ==
  ASSUME IInv, NEW t \in Target, StatusArrives(t)
  PROVE  IInv'
<1> DEFINE m == central_observe_peer(monitor, "LOCAL")
<1>1. monitor \in MonitorState /\ reported \subseteq Target /\ Fresh(monitor, reported)
  BY DEF IInv, OthersTyped, FreshInv
<1>2. m \in MonitorState /\ Fresh(m, reported)
  BY <1>1, ObserveFacts DEF Source
<1>3. monitor' = [m EXCEPT !.synchronized = m.synchronized \cup {t}]
  BY DEF StatusArrives, central_monitor_status
<1> HIDE DEF m
<1>4. /\ monitor' \in MonitorState
      /\ reported' \subseteq Target /\ Fresh(monitor', reported')
  BY <1>1, <1>2, <1>3 DEF StatusArrives, MonitorState, Fresh
<1> QED BY <1>4, OnlyMonitorOK DEF StatusArrives

LEMMA HeartbeatArrivesOK ==
  ASSUME IInv, NEW t \in Target, NEW healthy \in BOOLEAN, HeartbeatArrives(t, healthy)
  PROVE  IInv'
<1> DEFINE m == central_observe_peer(monitor, "LOCAL")
<1>1. monitor \in MonitorState /\ reported \subseteq Target /\ Fresh(monitor, reported)
  BY DEF IInv, OthersTyped, FreshInv
<1>2. m \in MonitorState /\ Fresh(m, reported)
  BY <1>1, ObserveFacts DEF Source
<1>3. PICK D \in SUBSET Target : monitor' = [m EXCEPT !.degraded = D]
  <2>1. m.degraded \subseteq Target
    BY <1>2 DEF MonitorState
  <2> QED BY <2>1 DEF HeartbeatArrives, central_monitor_heartbeat
<1> HIDE DEF m
<1>4. monitor' \in MonitorState /\ Fresh(monitor', reported) /\ reported' = reported
  BY <1>2, <1>3 DEF HeartbeatArrives, MonitorState, Fresh
<1> QED BY <1>1, <1>4, OnlyMonitorOK DEF HeartbeatArrives

LEMMA PeerReportsOK ==
  ASSUME IInv, NEW source \in Source, PeerReports(source)
  PROVE  IInv'
<1>1. monitor \in MonitorState /\ reported \subseteq Target /\ Fresh(monitor, reported)
  BY DEF IInv, OthersTyped, FreshInv
<1>2. monitor' \in MonitorState /\ Fresh(monitor', reported) /\ reported' = reported
  BY <1>1, ObserveFacts DEF PeerReports
<1> QED BY <1>1, <1>2, OnlyMonitorOK DEF PeerReports

LEMMA PeerSilentOK ==
  ASSUME IInv, NEW source \in Source, PeerSilent(source)
  PROVE  IInv'
<1>1. monitor \in MonitorState /\ reported \subseteq Target /\ Fresh(monitor, reported)
  BY DEF IInv, OthersTyped, FreshInv
<1>2. monitor' = [monitor EXCEPT !.online = monitor.online \ {source}]
  BY DEF PeerSilent
<1>3. monitor' \in MonitorState /\ reported' \subseteq Target /\ Fresh(monitor', reported')
  BY <1>1, <1>2 DEF PeerSilent, MonitorState, Fresh, Source
<1> QED BY <1>3, OnlyMonitorOK DEF PeerSilent

LEMMA TemporaryEndsOK ==
  ASSUME IInv, NEW t \in Target, TemporaryEnds(t)
  PROVE  IInv'
<1>1. UNCHANGED <<monitor, endpoint_connected, commands, queue, policy_command,
                  policy_ack, scheduled_mode, thread, operator, running, reported>>
  BY DEF TemporaryEnds, central
<1>2. operator_policy' = [operator_policy EXCEPT !.temporary = operator_policy.temporary \ {t}]
  BY DEF TemporaryEnds
<1>3. /\ operator_policy' \in [persistent: SUBSET Target, temporary: SUBSET Target]
      /\ operator_policy'.persistent = operator_policy.persistent
      /\ operator_policy'.temporary \subseteq operator_policy.temporary
  BY <1>2 DEF IInv, PolicyTyped
<1>4. RecordsTyped' /\ QueuesTyped' /\ PolicyTyped' /\ ThreadsTyped'
  BY <1>1, <1>3 DEF IInv, RecordsTyped, QueuesTyped, PolicyTyped, ThreadsTyped
<1>5. OthersTyped' /\ FreshInv'
  BY <1>1 DEF IInv, OthersTyped, FreshInv
<1>6. MatchInv' /\ OutcomeTruthful' /\ PolicyInv'
  BY <1>1 DEF IInv, MatchInv, OutcomeTruthful, InState, Sending, PolicyInv
<1>7. \A s : Quiet(s) => Quiet(s)'
  BY <1>1, <1>3 DEF Quiet, central_policy_operator_active
<1>8. \A s : Automatic(s)' => Automatic(s)
  BY <1>1 DEF Automatic
<1>9. YieldInv
  BY DEF IInv
<1>10. YieldInv'
  BY <1>1, <1>7, <1>8, <1>9 DEF YieldInv
<1> QED BY <1>4, <1>5, <1>6, <1>10 DEF IInv

-----------------------------------------------------------------------------
(***************************************************************************)
(* Probes, lost links and the end.                                         *)
(***************************************************************************)
\* A thread's new locals, with what it is sending.
LEMMA ThreadFacts ==
  ASSUME ThreadsTyped, NEW p \in Peer, NEW r, Thread(p, r),
         r \in [pc: {"wait", "probe", "send"}, ready: BOOLEAN,
                misses: 0 .. HEARTBEAT_MISS_LIMIT, work: Id \cup {NoId}],
         endpoint_connected' \subseteq Peer,
         \A s \in Peer \ {p} : s \in endpoint_connected' => s \in endpoint_connected,
         \/ r.misses < HEARTBEAT_MISS_LIMIT
         \/ p \notin endpoint_connected' /\ r.pc # "probe"
  PROVE  /\ ThreadsTyped'
         /\ \A s \in Peer \ {p} : thread'[s] = thread[s]
         /\ thread'[p] = r
BY DEF ThreadsTyped, Thread

LEMMA ProbeStartOK ==
  ASSUME IInv, NEW p \in Peer, ProbeStart(p)
  PROVE  IInv'
<1>1. UNCHANGED <<commands, queue, policy_command, operator_policy, policy_ack,
                  scheduled_mode, operator, running, reported>>
  BY DEF ProbeStart, central, policy
<1>2. /\ thread[p] \in [pc: {"wait", "probe", "send"}, ready: BOOLEAN,
                        misses: 0 .. HEARTBEAT_MISS_LIMIT, work: Id \cup {NoId}]
      /\ p \in endpoint_connected => thread[p].misses < HEARTBEAT_MISS_LIMIT
      /\ thread[p].pc = "wait"
      /\ endpoint_connected \subseteq Peer
      /\ monitor \in MonitorState
      /\ Fresh(monitor, reported)
  BY DEF IInv, ThreadsTyped, OthersTyped, FreshInv, ProbeStart
<1>3. PICK r : /\ Thread(p, r)
               /\ r \in [pc: {"wait", "probe", "send"}, ready: BOOLEAN,
                         misses: 0 .. HEARTBEAT_MISS_LIMIT, work: Id \cup {NoId}]
               /\ r.pc = "probe"
               /\ r.misses < HEARTBEAT_MISS_LIMIT
               /\ endpoint_connected' \in {endpoint_connected, endpoint_connected \cup {p}}
               /\ \/ monitor' = monitor
                  \/ monitor' = [monitor EXCEPT !.connected = monitor.connected \cup {SourceOf(p)}]
  <2>1. CASE /\ p \in endpoint_connected
             /\ Thread(p, [thread[p] EXCEPT !.pc = "probe", !.ready = FALSE])
             /\ UNCHANGED <<monitor, endpoint_connected>>
    <3> DEFINE r == [thread[p] EXCEPT !.pc = "probe", !.ready = FALSE]
    <3>1. /\ r \in [pc: {"wait", "probe", "send"}, ready: BOOLEAN,
                    misses: 0 .. HEARTBEAT_MISS_LIMIT, work: Id \cup {NoId}]
          /\ r.pc = "probe" /\ r.misses < HEARTBEAT_MISS_LIMIT
      BY <1>2, <2>1
    <3> QED BY <2>1, <3>1
  <2>2. CASE /\ Thread(p, [thread[p] EXCEPT !.pc = "probe", !.ready = FALSE, !.misses = 0])
             /\ endpoint_connected' = endpoint_connected \cup {p}
             /\ monitor' = [monitor EXCEPT !.connected = monitor.connected \cup {SourceOf(p)}]
    <3> DEFINE zero == 0
    <3> DEFINE r == [thread[p] EXCEPT !.pc = "probe", !.ready = FALSE, !.misses = zero]
    <3>0. zero \in 0 .. HEARTBEAT_MISS_LIMIT /\ zero < HEARTBEAT_MISS_LIMIT
      BY ConstantFacts
    <3>2. Thread(p, r)
      BY <2>2
    <3> HIDE DEF zero
    <3>1. /\ r \in [pc: {"wait", "probe", "send"}, ready: BOOLEAN,
                    misses: 0 .. HEARTBEAT_MISS_LIMIT, work: Id \cup {NoId}]
          /\ r.pc = "probe" /\ r.misses < HEARTBEAT_MISS_LIMIT
      BY <1>2, <3>0
    <3> QED BY <2>2, <3>1, <3>2
  <2> QED BY <2>1, <2>2 DEF ProbeStart
<1>4. ThreadsTyped /\ endpoint_connected' \subseteq Peer
      /\ \A s \in Peer \ {p} : s \in endpoint_connected' => s \in endpoint_connected
  BY <1>2, <1>3 DEF IInv
<1>5. /\ ThreadsTyped'
      /\ \A s \in Peer \ {p} : thread'[s] = thread[s]
      /\ thread'[p] = r
  BY <1>3, <1>4, ThreadFacts
<1>6. monitor' \in MonitorState /\ Fresh(monitor', reported')
  BY <1>1, <1>2, <1>3, ConstantFacts DEF MonitorState, Fresh
<1>7. RecordsTyped' /\ QueuesTyped' /\ PolicyTyped'
  BY <1>1 DEF IInv, RecordsTyped, QueuesTyped, PolicyTyped
<1>8. OthersTyped' /\ FreshInv'
  BY <1>1, <1>6 DEF IInv, OthersTyped, FreshInv
<1>9. \A s \in Peer : Sending(s)' = Sending(s)
  BY <1>2, <1>3, <1>5 DEF Sending
<1>10. MatchInv' /\ OutcomeTruthful'
  BY <1>1, <1>9 DEF IInv, MatchInv, OutcomeTruthful, InState
<1>11. PolicyInv' /\ YieldInv'
  BY <1>1, YieldStays, UnchangedSettled DEF IInv
<1> QED BY <1>5, <1>7, <1>8, <1>10, <1>11 DEF IInv

LEMMA ProbeAnsweredOK ==
  ASSUME IInv, NEW p \in Peer, ProbeAnswered(p)
  PROVE  IInv'
<1>1. UNCHANGED <<commands, queue, policy_command, operator_policy, policy_ack,
                  scheduled_mode, operator, running, reported, endpoint_connected>>
  BY DEF ProbeAnswered, central, policy
<1>2. /\ thread[p] \in [pc: {"wait", "probe", "send"}, ready: BOOLEAN,
                        misses: 0 .. HEARTBEAT_MISS_LIMIT, work: Id \cup {NoId}]
      /\ thread[p].pc = "probe"
      /\ endpoint_connected \subseteq Peer
      /\ monitor \in MonitorState
      /\ Fresh(monitor, reported)
  BY DEF IInv, ThreadsTyped, OthersTyped, FreshInv, ProbeAnswered
<1> DEFINE zero == 0
           r == [thread[p] EXCEPT !.pc = "wait", !.ready = TRUE, !.misses = zero]
<1>3. zero \in 0 .. HEARTBEAT_MISS_LIMIT /\ zero < HEARTBEAT_MISS_LIMIT
  BY ConstantFacts
<1>4. Thread(p, r)
  BY DEF ProbeAnswered
<1> HIDE DEF zero
<1>5. /\ r \in [pc: {"wait", "probe", "send"}, ready: BOOLEAN,
                misses: 0 .. HEARTBEAT_MISS_LIMIT, work: Id \cup {NoId}]
      /\ r.pc = "wait" /\ r.misses < HEARTBEAT_MISS_LIMIT
  BY <1>2, <1>3
<1> HIDE DEF r
<1>6. /\ ThreadsTyped'
      /\ \A s \in Peer \ {p} : thread'[s] = thread[s]
      /\ thread'[p] = r
  BY <1>1, <1>2, <1>4, <1>5, ThreadFacts DEF IInv
<1>7. monitor' \in MonitorState /\ Fresh(monitor', reported')
  BY <1>1, <1>2, ConstantFacts, ObserveFacts DEF ProbeAnswered
<1>8. RecordsTyped' /\ QueuesTyped' /\ PolicyTyped'
  BY <1>1 DEF IInv, RecordsTyped, QueuesTyped, PolicyTyped
<1>9. OthersTyped' /\ FreshInv'
  BY <1>1, <1>7 DEF IInv, OthersTyped, FreshInv
<1>10. \A s \in Peer : Sending(s)' = Sending(s)
  BY <1>2, <1>5, <1>6 DEF Sending
<1>11. MatchInv' /\ OutcomeTruthful'
  BY <1>1, <1>10 DEF IInv, MatchInv, OutcomeTruthful, InState
<1>12. PolicyInv' /\ YieldInv'
  BY <1>1, YieldStays, UnchangedSettled DEF IInv
<1> QED BY <1>6, <1>8, <1>9, <1>11, <1>12 DEF IInv

LEMMA ProbeMissedOK ==
  ASSUME IInv, NEW p \in Peer, ProbeMissed(p)
  PROVE  IInv'
<1> DEFINE misses == thread[p].misses + 1
           r == [thread[p] EXCEPT !.pc = "wait", !.misses = misses]
<1>1. UNCHANGED <<operator_policy, policy_ack, scheduled_mode, operator, running>>
  BY DEF ProbeMissed, policy
<1>2. /\ thread[p] \in [pc: {"wait", "probe", "send"}, ready: BOOLEAN,
                        misses: 0 .. HEARTBEAT_MISS_LIMIT, work: Id \cup {NoId}]
      /\ thread[p].pc = "probe"
      /\ thread[p].misses < HEARTBEAT_MISS_LIMIT
      /\ endpoint_connected \subseteq Peer
      /\ monitor \in MonitorState
      /\ Fresh(monitor, reported)
      /\ reported \subseteq Target
  BY DEF IInv, ThreadsTyped, OthersTyped, FreshInv, ProbeMissed
<1>3. misses \in 0 .. HEARTBEAT_MISS_LIMIT
  <2>1. thread[p].misses \in 0 .. HEARTBEAT_MISS_LIMIT
    BY <1>2
  <2> QED BY <1>2, <2>1, ConstantFacts
<1>4. Thread(p, r)
      /\ IF misses >= HEARTBEAT_MISS_LIMIT THEN LinkLost(p)
         ELSE UNCHANGED <<monitor, endpoint_connected, commands, queue, policy_command,
                          reported>>
  BY DEF ProbeMissed, central
<1> HIDE DEF misses
<1>5. /\ r \in [pc: {"wait", "probe", "send"}, ready: BOOLEAN,
                misses: 0 .. HEARTBEAT_MISS_LIMIT, work: Id \cup {NoId}]
      /\ r.pc = "wait" /\ r.misses = misses
  BY <1>2, <1>3
<1> HIDE DEF r
<1>6. /\ endpoint_connected' \subseteq endpoint_connected
      /\ misses >= HEARTBEAT_MISS_LIMIT => p \notin endpoint_connected'
  BY <1>4 DEF LinkLost
<1>7. r.misses < HEARTBEAT_MISS_LIMIT \/ r.misses >= HEARTBEAT_MISS_LIMIT
  BY <1>3, <1>5, ConstantFacts
<1>8. /\ ThreadsTyped'
      /\ \A s \in Peer \ {p} : thread'[s] = thread[s]
      /\ thread'[p] = r
  BY <1>2, <1>4, <1>5, <1>6, <1>7, ThreadFacts DEF IInv
<1>9. \A s \in Peer : Sending(s)' = Sending(s)
  BY <1>2, <1>5, <1>8 DEF Sending
<1>10. /\ RecordsTyped' /\ QueuesTyped' /\ MatchInv' /\ OutcomeTruthful' /\ Settled
       /\ policy_command' = policy_command
       /\ monitor' \in MonitorState /\ reported' \subseteq Target
       /\ Fresh(monitor', reported')
  <2>1. CASE misses >= HEARTBEAT_MISS_LIMIT
    <3> DEFINE gone == {t \in Target : Route[t] = p}
               m == [monitor EXCEPT !.synchronized = monitor.synchronized \ gone]
    <3>1. LinkLost(p)
      BY <1>4, <2>1
    <3>2. Becomes(discard_queue(Now, {p}))
      BY <3>1 DEF LinkLost
    <3>3. /\ RecordsTyped' /\ QueuesTyped' /\ MatchInv' /\ OutcomeTruthful' /\ Settled
          /\ policy_command' = policy_command
      <4>1. {p} \subseteq Peer
        OBVIOUS
      <4> QED BY <1>9, <3>2, <4>1, DiscardFacts DEF IInv
    <3>4. reported' = reported \ gone
      BY <3>1 DEF LinkLost
    <3>5. m \in MonitorState /\ Fresh(m, reported \ gone)
      BY <1>2 DEF MonitorState, Fresh
    <3>6. monitor' = central_peer_disconnected(m, SourceOf(p)) \/ monitor' = m
      BY <3>1 DEF LinkLost
    <3> HIDE DEF m, gone
    <3>7. monitor' \in MonitorState /\ Fresh(monitor', reported \ gone)
      BY <3>5, <3>6, ConstantFacts, DisconnectFacts
    <3> QED BY <1>2, <3>3, <3>4, <3>7
  <2>2. CASE ~(misses >= HEARTBEAT_MISS_LIMIT)
    <3>1. UNCHANGED <<monitor, endpoint_connected, commands, queue, policy_command,
                      reported>>
      BY <1>4, <2>2
    <3>2. RecordsTyped' /\ QueuesTyped' /\ OutcomeTruthful' /\ MatchInv' /\ Settled
      BY <1>9, <3>1 DEF IInv, RecordsTyped, QueuesTyped, OutcomeTruthful, MatchInv,
                        InState, Settled
    <3> QED BY <1>2, <3>1, <3>2
  <2> QED BY <2>1, <2>2
<1>11. PolicyTyped' /\ OthersTyped' /\ FreshInv'
  BY <1>1, <1>10 DEF IInv, PolicyTyped, OthersTyped, FreshInv
<1>12. PolicyInv' /\ YieldInv'
  BY <1>1, <1>10, YieldStays DEF IInv
<1> QED BY <1>8, <1>10, <1>11, <1>12 DEF IInv

LEMMA StopOK ==
  ASSUME IInv, Stop
  PROVE  IInv'
<1>1. UNCHANGED <<monitor, endpoint_connected, operator_policy, policy_ack,
                  scheduled_mode, thread, operator, reported>>
  BY DEF Stop, policy
<1>2. \A s \in Peer : Sending(s)' = Sending(s)
  BY <1>1 DEF Sending
<1>3. /\ RecordsTyped' /\ QueuesTyped' /\ MatchInv' /\ OutcomeTruthful' /\ Settled
      /\ policy_command' = policy_command
  BY <1>2, DiscardFacts DEF IInv, Stop
<1>4. PolicyTyped' /\ ThreadsTyped' /\ OthersTyped' /\ FreshInv'
  BY <1>1, <1>3 DEF IInv, PolicyTyped, ThreadsTyped, OthersTyped, FreshInv, Stop
<1>5. PolicyInv' /\ YieldInv'
  BY <1>1, <1>3, YieldStays DEF IInv
<1> QED BY <1>3, <1>4, <1>5 DEF IInv

-----------------------------------------------------------------------------
(***************************************************************************)
(* A peer thread takes a command and sends it.                             *)
(***************************************************************************)
LEMMA BecomesDueOK ==
  ASSUME IInv, NEW p \in Peer, NEW i, BecomesDue(p, i)
  PROVE  IInv'
<1>1. UNCHANGED <<monitor, endpoint_connected, commands, policy_command, operator_policy,
                  policy_ack, scheduled_mode, thread, operator, running, reported>>
  BY DEF BecomesDue, policy
<1>2. queue \in [Peer -> Seq(Entry)] /\ i \in DOMAIN queue[p]
  BY DEF IInv, QueuesTyped, BecomesDue
<1>3. queue[p] \in Seq(Entry) /\ queue[p][i] \in Entry /\ i \in 1 .. Len(queue[p])
  BY <1>2
<1> DEFINE e == [queue[p][i] EXCEPT !.due = TRUE]
<1>4. e \in Entry /\ e.id = queue[p][i].id
  BY <1>3 DEF Entry
<1>5. queue' = [queue EXCEPT ![p] = [queue[p] EXCEPT ![i] = e]]
  BY DEF BecomesDue
<1> HIDE DEF e
<1> DEFINE q == [queue[p] EXCEPT ![i] = e]
<1>6. /\ q \in Seq(Entry) /\ Len(q) = Len(queue[p])
      /\ \A j \in 1 .. Len(queue[p]) : q[j] = IF j = i THEN e ELSE queue[p][j]
  BY <1>3, <1>4, ExceptSeq
<1> HIDE DEF q
<1>7. DOMAIN q = DOMAIN queue[p] /\ \A j \in DOMAIN q : q[j].id = queue[p][j].id
  BY <1>3, <1>4, <1>6
<1>8. Ids(q) = Ids(queue[p]) /\ (Distinct(queue[p]) => Distinct(q))
  BY <1>7 DEF Ids, Distinct
<1>9. queue' = [queue EXCEPT ![p] = q]
  BY <1>5 DEF q
<1>10. QueuesTyped'
  BY <1>2, <1>6, <1>9 DEF IInv, QueuesTyped
<1>11. \A s \in Peer : /\ Ids(queue'[s]) = Ids(queue[s])
                       /\ Distinct(queue[s]) => Distinct(queue'[s])
  BY <1>2, <1>8, <1>9
<1>12. MatchInv' /\ OutcomeTruthful'
  BY <1>1, <1>11 DEF IInv, MatchInv, OutcomeTruthful, InState, Sending
<1>13. RecordsTyped' /\ PolicyTyped' /\ ThreadsTyped' /\ OthersTyped' /\ FreshInv'
  BY <1>1 DEF IInv, RecordsTyped, PolicyTyped, ThreadsTyped, OthersTyped, FreshInv
<1>14. PolicyInv' /\ YieldInv'
  BY <1>1, YieldStays, UnchangedSettled DEF IInv
<1> QED BY <1>10, <1>12, <1>13, <1>14 DEF IInv

LEMMA TakeCommandOK ==
  ASSUME IInv, NEW p \in Peer, TakeCommand(p)
  PROVE  IInv'
<1>1. UNCHANGED <<monitor, endpoint_connected, policy_command, operator_policy,
                  policy_ack, scheduled_mode, operator, running, reported>>
  BY DEF TakeCommand, policy
<1>2. PICK i \in DOMAIN queue[p], st \in {"CANCELED", "EXPIRED", "SENDING"} :
        LET id == queue[p][i].id
            waiting == {s \in find_command(commands, id) : commands[s].state = "QUEUED"}
        IN  /\ queue' = [queue EXCEPT ![p] = Keep(queue[p], DOMAIN queue[p] \ {i})]
            /\ commands' = finish_command(commands, waiting, st)
            /\ IF st = "SENDING"
               THEN Thread(p, [thread[p] EXCEPT !.pc = "send", !.work = id])
               ELSE UNCHANGED thread
  BY DEF TakeCommand
<1> DEFINE id == queue[p][i].id
           K == DOMAIN queue[p] \ {i}
           r == [thread[p] EXCEPT !.pc = "send", !.work = id]
<1>3. /\ queue \in [Peer -> Seq(Entry)] /\ Distinct(queue[p])
      /\ Ids(queue[p]) = InState(commands, p, "QUEUED")
      /\ DOMAIN commands \subseteq Id
  BY DEF IInv, QueuesTyped, MatchInv, RecordsTyped
<1>4. id \in InState(commands, p, "QUEUED")
  BY <1>3 DEF Ids
<1>5. id \in DOMAIN commands /\ commands[id].state = "QUEUED" /\ id \in Id
  BY <1>3, <1>4 DEF InState
<1>6. {s \in find_command(commands, id) : commands[s].state = "QUEUED"} = {id}
  BY <1>5 DEF find_command
<1>7. /\ queue' = [queue EXCEPT ![p] = Keep(queue[p], K)]
      /\ commands' = finish_command(commands, {id}, st)
      /\ IF st = "SENDING" THEN Thread(p, r) ELSE UNCHANGED thread
  BY <1>2, <1>6
<1>8. /\ Keep(queue[p], K) \in Seq(Entry)
      /\ Len(Keep(queue[p], K)) <= Len(queue[p])
      /\ Ids(Keep(queue[p], K)) = {queue[p][k].id : k \in K}
      /\ Distinct(Keep(queue[p], K))
  <2>1. queue[p] \in Seq(Entry) /\ K \subseteq DOMAIN queue[p]
    BY <1>3
  <2> QED BY <1>3, <2>1, KeepFacts
<1>9. {queue[p][k].id : k \in K} = Ids(queue[p]) \ {id}
  BY <1>2, <1>3 DEF Ids, Distinct
<1>10. thread[p].pc = "wait" /\ thread[p] \in [pc: {"wait", "probe", "send"},
          ready: BOOLEAN, misses: 0 .. HEARTBEAT_MISS_LIMIT, work: Id \cup {NoId}]
       /\ (thread[p].misses < HEARTBEAT_MISS_LIMIT \/ p \notin endpoint_connected)
       /\ endpoint_connected \subseteq Peer
  BY DEF IInv, ThreadsTyped, TakeCommand
<1>11. /\ r \in [pc: {"wait", "probe", "send"}, ready: BOOLEAN,
                 misses: 0 .. HEARTBEAT_MISS_LIMIT, work: Id \cup {NoId}]
       /\ r.pc = "send" /\ r.misses = thread[p].misses /\ r.work = id
  BY <1>5, <1>10
<1> HIDE DEF id, K, r
<1>12. /\ ThreadsTyped'
       /\ \A s \in Peer \ {p} : thread'[s] = thread[s]
       /\ thread'[p] = IF st = "SENDING" THEN r ELSE thread[p]
  <2>1. CASE st = "SENDING"
    <3>1. Thread(p, r) /\ ThreadsTyped
      BY <1>7, <2>1 DEF IInv
    <3> QED BY <1>1, <1>10, <1>11, <2>1, <3>1, ThreadFacts
  <2>2. CASE st # "SENDING"
    BY <1>1, <1>7, <2>2 DEF IInv, ThreadsTyped
  <2> QED BY <2>1, <2>2
<1>13. \A s \in Peer : Sending(s)' = Sending(s) \cup
         (IF st = "SENDING" THEN {id} \cap InState(commands, s, "QUEUED") ELSE {})
  <2>1. \A s \in Peer \ {p} : id \notin InState(commands, s, "QUEUED")
    BY <1>4 DEF InState
  <2> QED BY <1>4, <1>10, <1>11, <1>12, <2>1 DEF Sending
<1>14. \A s \in Peer : /\ queue'[s] \in Seq(Entry)
                       /\ Len(queue'[s]) <= Len(queue[s])
                       /\ Distinct(queue'[s])
                       /\ Ids(queue'[s]) = Ids(queue[s]) \ {id}
  <2>1. queue'[p] = Keep(queue[p], K) /\ \A s \in Peer \ {p} : queue'[s] = queue[s]
    BY <1>3, <1>7
  <2>2. \A s \in Peer \ {p} : id \notin Ids(queue[s])
    <3>1. \A s \in Peer \ {p} : id \notin InState(commands, s, "QUEUED")
      BY <1>4 DEF InState
    <3> QED BY <3>1 DEF IInv, MatchInv
  <2>3. \A s \in Peer : queue[s] \in Seq(Entry) /\ Distinct(queue[s])
    BY <1>3 DEF IInv, MatchInv
  <2>4. \A s \in Peer : Len(queue[s]) \in Nat
    BY <2>3
  <2>5. ASSUME NEW s \in Peer \ {p}
        PROVE  /\ queue'[s] \in Seq(Entry)
               /\ Len(queue'[s]) <= Len(queue[s])
               /\ Distinct(queue'[s])
               /\ Ids(queue'[s]) = Ids(queue[s]) \ {id}
    BY <2>1, <2>2, <2>3, <2>4
  <2> QED BY <1>8, <1>9, <2>1, <2>5
<1>15. queue' \in [Peer -> Seq(Entry)]
  BY <1>3, <1>7, <1>8
<1>16. {id} \subseteq DOMAIN commands /\ \A s \in {id} : commands[s].state = "QUEUED"
  BY <1>5 DEF id
<1>17. RecordsTyped' /\ QueuesTyped' /\ MatchInv' /\ OutcomeTruthful' /\ Settled
  <2>1. RecordsTyped /\ QueuesTyped /\ MatchInv /\ OutcomeTruthful
    BY DEF IInv
  <2>2. commands' = finish_command(commands, {id}, st)
    BY <1>7
  <2> QED BY <1>13, <1>14, <1>15, <1>16, <2>1, <2>2, LeaveQueue
<1>18. PolicyTyped' /\ OthersTyped' /\ FreshInv'
  BY <1>1 DEF IInv, PolicyTyped, OthersTyped, FreshInv
<1>19. PolicyInv' /\ YieldInv'
  BY <1>1, <1>17, YieldStays DEF IInv
<1> QED BY <1>12, <1>17, <1>18, <1>19 DEF IInv

LEMMA CommandSentOK ==
  ASSUME IInv, NEW p \in Peer, CommandSent(p)
  PROVE  IInv'
<1> DEFINE id == thread[p].work
<1>1. UNCHANGED <<monitor, endpoint_connected, queue, policy_command, operator_policy,
                  policy_ack, scheduled_mode, operator, running, reported>>
  BY DEF CommandSent, policy
<1> DEFINE back == [thread[p] EXCEPT !.pc = "wait", !.work = NoId]
           Sent(st, got) == commands' = [s \in DOMAIN commands |->
             IF s \in find_command(commands, id)
             THEN [commands[s] EXCEPT !.state = st, !.got = commands[s].got + got]
             ELSE commands[s]]
<1>2. /\ \/ Sent("ACCEPTED", 1) \/ Sent("REJECTED", 1)
         \/ Sent("UNCONFIRMED", 0) \/ Sent("UNCONFIRMED", 1)
      /\ Thread(p, back) \/ Thread(p, [back EXCEPT !.ready = FALSE])
  BY DEF CommandSent
<1>3. PICK st, got :
        /\ <<st, got>> \in {<<"ACCEPTED", 1>>, <<"REJECTED", 1>>, <<"UNCONFIRMED", 0>>,
                            <<"UNCONFIRMED", 1>>}
        /\ Sent(st, got)
  <2> HIDE DEF Sent
  <2> QED BY <1>2
<1>4. PICK r : r \in {back, [back EXCEPT !.ready = FALSE]} /\ Thread(p, r)
  <2> HIDE DEF back
  <2> QED BY <1>2
<1>5. /\ got \in Nat /\ got <= 1 /\ (st \in {"ACCEPTED", "REJECTED"} => got = 1)
      /\ st \in RequestState /\ st \notin {"QUEUED", "SENDING", "CANCELED", "EXPIRED"}
  <2>1. <<st, got>> \in {<<"ACCEPTED", 1>>, <<"REJECTED", 1>>, <<"UNCONFIRMED", 0>>,
                         <<"UNCONFIRMED", 1>>}
    BY <1>3
  <2> QED BY ONLY <2>1 DEF RequestState
<1>6. /\ thread[p].pc = "send"
      /\ thread[p] \in [pc: {"wait", "probe", "send"}, ready: BOOLEAN,
                        misses: 0 .. HEARTBEAT_MISS_LIMIT, work: Id \cup {NoId}]
      /\ thread[p].misses < HEARTBEAT_MISS_LIMIT \/ p \notin endpoint_connected
      /\ endpoint_connected \subseteq Peer
  BY DEF IInv, ThreadsTyped, CommandSent
<1>7. /\ r \in [pc: {"wait", "probe", "send"}, ready: BOOLEAN,
                misses: 0 .. HEARTBEAT_MISS_LIMIT, work: Id \cup {NoId}]
      /\ r.pc = "wait" /\ r.misses = thread[p].misses
  <2>1. r = back \/ r = [back EXCEPT !.ready = FALSE]
    BY <1>4
  <2>2. /\ back \in [pc: {"wait", "probe", "send"}, ready: BOOLEAN,
                     misses: 0 .. HEARTBEAT_MISS_LIMIT, work: Id \cup {NoId}]
        /\ back.pc = "wait" /\ back.misses = thread[p].misses
    BY ONLY <1>6 DEF back
  <2> HIDE DEF back
  <2> QED BY ONLY <2>1, <2>2
<1>8. {id} = InState(commands, p, "SENDING")
  BY <1>6 DEF IInv, MatchInv, Sending
<1>9. id \in DOMAIN commands /\ commands[id].state = "SENDING" /\ commands[id].got = 0
  BY <1>8 DEF InState, IInv, OutcomeTruthful
<1>10. find_command(commands, id) = {id}
  BY <1>9 DEF find_command
<1> HIDE DEF id
<1>11. /\ ThreadsTyped'
       /\ \A s \in Peer \ {p} : thread'[s] = thread[s]
       /\ thread'[p] = r
  <2>1. ThreadsTyped /\ Thread(p, r)
    BY <1>4 DEF IInv
  <2> QED BY <1>1, <1>6, <1>7, <2>1, ThreadFacts
<1>12. DOMAIN commands' = DOMAIN commands
  BY <1>3
<1>13. ASSUME NEW s \in DOMAIN commands
       PROVE  /\ commands'[s] \in Record
              /\ commands'[s].kind = commands[s].kind
              /\ commands'[s].target = commands[s].target
              /\ commands'[s].automatic = commands[s].automatic
              /\ commands'[s].got = IF s = id THEN got ELSE commands[s].got
              /\ commands'[s].state = IF s = id THEN st ELSE commands[s].state
  <2>1. commands[s] \in Record
    BY DEF IInv, RecordsTyped
  <2>2. CASE s = id
    <3> DEFINE g == commands[s].got + got
    <3>1. g = got /\ g \in Nat
      BY ONLY <1>5, <1>9, <2>2
    <3>2. commands'[s] = [commands[s] EXCEPT !.state = st, !.got = g]
      BY <1>3, <1>10, <2>2
    <3> HIDE DEF g
    <3>3. st \in RequestState
      BY <1>5
    <3> QED BY ONLY <2>1, <2>2, <3>1, <3>2, <3>3 DEF Record
  <2>3. CASE s # id
    BY <1>3, <1>10, <2>1, <2>3
  <2> QED BY <2>2, <2>3
<1>14. RecordsTyped'
  BY <1>12, <1>13 DEF IInv, RecordsTyped
<1>15. OutcomeTruthful'
  <2>1. OutcomeTruthful
    BY DEF IInv
  <2> QED BY ONLY <1>5, <1>12, <1>13, <2>1 DEF OutcomeTruthful
<1>16. Settled
  BY ONLY <1>5, <1>9, <1>12, <1>13 DEF Settled
<1>17. ASSUME NEW s \in Peer
       PROVE  /\ InState(commands, s, "QUEUED")' = InState(commands, s, "QUEUED")
              /\ InState(commands, s, "SENDING")' = InState(commands, s, "SENDING") \ {id}
  <2>1. st \notin {"QUEUED", "SENDING"}
    BY <1>5
  <2>2. ASSUME NEW x \in DOMAIN commands
        PROVE  /\ x \in InState(commands, s, "QUEUED")'
                    <=> x \in InState(commands, s, "QUEUED")
               /\ x \in InState(commands, s, "SENDING")'
                    <=> x \in InState(commands, s, "SENDING") /\ x # id
    <3>1. CASE x = id
      BY ONLY <1>9, <1>12, <1>13, <2>1, <3>1 DEF InState
    <3>2. CASE x # id
      BY ONLY <1>12, <1>13, <3>2, x \in DOMAIN commands DEF InState
    <3> QED BY <3>1, <3>2
  <2>3. \A st1 : /\ InState(commands, s, st1) \subseteq DOMAIN commands
                 /\ InState(commands, s, st1)' \subseteq DOMAIN commands
    BY ONLY <1>12 DEF InState
  <2> QED BY <2>2, <2>3
<1>18. ASSUME NEW s \in Peer
       PROVE  Sending(s)' = Sending(s) \ {id}
  <2>1. CASE s = p
    <3>1. thread'[s].pc = "wait" /\ thread[s].pc = "send" /\ thread[s].work = id
      <4>1. thread[p].work = id
        BY DEF id
      <4>2. r.pc = "wait" /\ thread[p].pc = "send" /\ thread'[p] = r
        BY ONLY <1>6, <1>7, <1>11
      <4> QED BY ONLY <2>1, <4>1, <4>2
    <3>2. Sending(s)' = {} /\ Sending(s) = {id}
      BY ONLY <3>1 DEF Sending
    <3> QED BY ONLY <3>2
  <2>2. CASE s # p
    <3>1. Sending(s)' = Sending(s)
      BY <1>11, <2>2 DEF Sending
    <3>2. id \notin InState(commands, s, "SENDING")
      BY <1>8, <2>2 DEF InState
    <3> QED BY <3>1, <3>2 DEF IInv, MatchInv
  <2> QED BY <2>1, <2>2
<1>19. MatchInv'
  BY <1>1, <1>17, <1>18 DEF IInv, MatchInv
<1>20. QueuesTyped' /\ PolicyTyped' /\ OthersTyped' /\ FreshInv'
  BY <1>1 DEF IInv, QueuesTyped, PolicyTyped, OthersTyped, FreshInv
<1>21. PolicyInv' /\ YieldInv'
  BY <1>1, <1>16, YieldStays DEF IInv
<1> QED BY <1>11, <1>14, <1>15, <1>19, <1>20, <1>21 DEF IInv

-----------------------------------------------------------------------------
(***************************************************************************)
(* The operator and the schedule.                                          *)
(***************************************************************************)
\* The same when the operator starts a request, with nothing of the schedule left
\* waiting for its targets.
LEMMA YieldCommand ==
  ASSUME PolicyTyped, PolicyInv, YieldInv, Settled,
         UNCHANGED <<operator_policy, policy_command, policy_ack>>,
         NEW request \in Requests, operator' = [pc |-> "command", request |-> request],
         \A t \in Members(request.target) : ~Automatic(t)'
  PROVE  PolicyInv' /\ YieldInv'
<1>1. PolicyInv' /\ \A t \in Target : /\ Automatic(t)' => Automatic(t)
                                      /\ Quiet(t) => Quiet(t)'
  BY SettledFacts
<1>2. \A t \in Target : Automatic(t)' => Quiet(t)'
  BY <1>1 DEF YieldInv
<1>3. operator'.pc = "command" /\ operator'.request = request
  OBVIOUS
<1> QED BY <1>1, <1>2, <1>3 DEF YieldInv

LEMMA OperatorCommandOK ==
  ASSUME IInv, NEW request \in Requests, OperatorCommand(request)
  PROVE  IInv'
<1>1. UNCHANGED <<monitor, endpoint_connected, operator_policy, policy_ack,
                  scheduled_mode, thread, running, reported>>
  BY DEF OperatorCommand, policy
<1>2. /\ commands' = cancel_automatic(Now, request.target).commands
      /\ queue' = cancel_automatic(Now, request.target).queue
      /\ policy_command' = policy_command
  BY DEF OperatorCommand, Becomes, cancel_automatic, Now
<1>3. request.target \in Target \cup {ALL}
  BY ConstantFacts
<1>4. /\ RecordsTyped' /\ QueuesTyped' /\ MatchInv' /\ OutcomeTruthful' /\ Settled
      /\ \A t \in Members(request.target) : ~Automatic(t)'
  BY <1>1, <1>2, <1>3, CancelFacts DEF IInv
<1>5. operator' = [pc |-> "command", request |-> request]
  BY DEF OperatorCommand
<1>6. operator' \in OperatorState
  BY <1>5 DEF OperatorState
<1>7. PolicyTyped' /\ ThreadsTyped' /\ OthersTyped' /\ FreshInv'
  BY <1>1, <1>2, <1>6 DEF IInv, PolicyTyped, ThreadsTyped, OthersTyped, FreshInv
<1>8. PolicyInv' /\ YieldInv'
  BY <1>1, <1>2, <1>4, <1>5, YieldCommand DEF IInv
<1> QED BY <1>4, <1>7, <1>8 DEF IInv

LEMMA ScheduleResumeOK ==
  ASSUME IInv, NEW target \in Target \cup {ALL}, ScheduleResume(target)
  PROVE  IInv'
<1> DEFINE S == Members(target)
<1>1. UNCHANGED <<monitor, endpoint_connected, thread, operator, running, reported>>
      /\ operator.pc = "idle"
  BY DEF ScheduleResume
<1>2. /\ commands' = cancel_automatic(Now, target).commands
      /\ queue' = cancel_automatic(Now, target).queue
      /\ policy_command' = [t \in Target |-> IF t \in S THEN NoId ELSE policy_command[t]]
  BY DEF ScheduleResume, Becomes, cancel_automatic, Now
<1>3. /\ policy_ack' = [t \in Target |-> IF t \in S THEN NoId ELSE policy_ack[t]]
      /\ scheduled_mode' = [t \in Target |-> IF t \in S THEN NoMode ELSE scheduled_mode[t]]
      /\ operator_policy' = [persistent |-> operator_policy.persistent \ S,
                             temporary |-> operator_policy.temporary \ S]
  BY DEF ScheduleResume
<1>4. /\ RecordsTyped' /\ QueuesTyped' /\ MatchInv' /\ OutcomeTruthful' /\ Settled
      /\ \A t \in S : ~Automatic(t)'
  BY <1>1, <1>2, CancelFacts DEF IInv
<1> HIDE DEF S
<1>5. PolicyTyped' /\ ThreadsTyped' /\ OthersTyped' /\ FreshInv'
  <2>1. PolicyTyped'
    BY <1>2, <1>3 DEF IInv, PolicyTyped
  <2> QED BY <1>1, <2>1 DEF IInv, ThreadsTyped, OthersTyped, FreshInv
<1>6. NoId \notin DOMAIN commands
  BY ConstantFacts DEF IInv, RecordsTyped
<1>7. PolicyInv'
  BY <1>2, <1>4, <1>6 DEF IInv, PolicyInv, Settled
<1>8. ASSUME NEW t \in Target, Automatic(t)'
      PROVE  Quiet(t)'
  <2>1. t \notin S
    BY <1>4, <1>8
  <2>2. Automatic(t)
    BY <1>4, <1>8 DEF Automatic, Settled
  <2>3. Quiet(t)
    BY <2>2 DEF IInv, YieldInv
  <2> QED BY <1>2, <1>3, <1>4, <2>1, <2>3 DEF Quiet, Settled, central_policy_operator_active
<1>9. YieldInv'
  BY <1>1, <1>8 DEF YieldInv
<1> QED BY <1>4, <1>5, <1>7, <1>9 DEF IInv

LEMMA NextTargetFacts ==
  ASSUME NEW t
  PROVE  NextTarget(t) \in OperatorState /\ NextTarget(t).pc \in {"tick", "idle"}
BY DEF NextTarget, OperatorState, Idle

\* Noting an operator's request touches its targets only.
LEMMA NoteFacts ==
  ASSUME NEW pol \in [persistent: SUBSET Target, temporary: SUBSET Target],
         NEW S \in SUBSET Target, NEW kind \in ModeKind
  PROVE  /\ central_policy_note_operator(pol, S, kind)
              \in [persistent: SUBSET Target, temporary: SUBSET Target]
         /\ \A t \in Target \ S :
              central_policy_operator_active(central_policy_note_operator(pol, S, kind), t)
                <=> central_policy_operator_active(pol, t)
<1>1. CASE kind = "SET"
  BY <1>1 DEF central_policy_note_operator, central_policy_operator_active
<1>2. CASE kind = "TEMPORARY"
  BY <1>2 DEF central_policy_note_operator, central_policy_operator_active
<1>3. CASE kind = "REVERT"
  BY <1>3 DEF central_policy_note_operator, central_policy_operator_active
<1> QED BY <1>1, <1>2, <1>3 DEF ModeKind

LEMMA ScheduleTickOK ==
  ASSUME IInv, NEW t \in Target, ScheduleTick(t)
  PROVE  IInv'
<1> DEFINE last == policy_command[t]
           known == last \in DOMAIN commands
           held == IF known THEN commands[last].state # "ACCEPTED"
                   ELSE last # NoId /\ policy_ack[t] # last
           note == known /\ ~held /\ policy_ack[t] # last
           pol == IF note
                  THEN central_policy_note_operator(operator_policy, {t}, commands[last].kind)
                  ELSE operator_policy
<1>1. UNCHANGED <<monitor, endpoint_connected, commands, queue, policy_command,
                  scheduled_mode, thread, running, reported>>
  BY DEF ScheduleTick, central
<1>2. /\ operator_policy' = pol
      /\ policy_ack' = IF note THEN [policy_ack EXCEPT ![t] = last] ELSE policy_ack
      /\ \/ operator' = NextTarget(t)
         \/ /\ ~held /\ ~central_policy_operator_active(pol, t)
            /\ \E desired \in Mode :
                 operator' = [pc |-> "schedule", target |-> t, mode |-> desired]
  BY DEF ScheduleTick
<1>3. /\ operator_policy \in [persistent: SUBSET Target, temporary: SUBSET Target]
      /\ policy_command \in [Target -> Id \cup {NoId}]
      /\ policy_ack \in [Target -> Id \cup {NoId}]
  BY DEF IInv, PolicyTyped
<1>4. known => commands[last].kind \in ModeKind
  BY DEF IInv, PolicyInv
<1>5. known => last # NoId
  BY ConstantFacts DEF IInv, RecordsTyped
<1>6. /\ pol \in [persistent: SUBSET Target, temporary: SUBSET Target]
      /\ \A s \in Target \ {t} : central_policy_operator_active(pol, s)
                                   <=> central_policy_operator_active(operator_policy, s)
  <2>1. {t} \in SUBSET Target
    OBVIOUS
  <2> QED BY <1>3, <1>4, <2>1, NoteFacts
<1>7. /\ policy_ack' \in [Target -> Id \cup {NoId}]
      /\ policy_ack'[t] = IF note THEN last ELSE policy_ack[t]
      /\ \A s \in Target \ {t} : policy_ack'[s] = policy_ack[s]
  <2>1. last \in Id \cup {NoId}
    BY <1>3
  <2>2. CASE note
    <3>1. policy_ack' = [policy_ack EXCEPT ![t] = last]
      BY <1>2, <2>2
    <3> HIDE DEF last, note
    <3> QED BY <1>3, <2>1, <2>2, <3>1
  <2>3. CASE ~note
    <3>1. policy_ack' = policy_ack
      BY <1>2, <2>3
    <3> HIDE DEF last, note
    <3> QED BY <1>3, <2>3, <3>1
  <2> HIDE DEF last, note
  <2> QED BY <2>2, <2>3
<1>8. ~held => /\ last \in {NoId, policy_ack'[t]}
               /\ known => commands[last].state = "ACCEPTED"
  <2>1. CASE known
    <3>1. ~held => commands[last].state = "ACCEPTED"
      BY <2>1
    <3>2. ~held /\ ~note => policy_ack[t] = last
      BY <2>1
    <3> HIDE DEF last, note, held, known
    <3> QED BY <1>7, <3>1, <3>2
  <2>2. CASE ~known
    <3>1. ~note
      BY <2>2
    <3>2. ~held => last = NoId \/ policy_ack[t] = last
      BY <2>2
    <3> HIDE DEF last, note, held, known
    <3> QED BY <1>7, <2>2, <3>1, <3>2
  <2> QED BY <2>1, <2>2
<1>9. Automatic(t) => Quiet(t)
  BY DEF IInv, YieldInv
<1>10. Automatic(t) => ~note
  <2>1. Quiet(t) => last \in {NoId, policy_ack[t]}
    BY DEF Quiet
  <2> HIDE DEF last, held, known
  <2> QED BY <1>5, <1>9, <2>1
<1>11. ~note => pol = operator_policy
  OBVIOUS
<1> HIDE DEF pol, note
<1>12. ASSUME NEW s \in Target, Automatic(s)'
       PROVE  Quiet(s)'
  <2>1. Automatic(s)
    BY <1>1, <1>12 DEF Automatic
  <2>2. Quiet(s)
    BY <2>1 DEF IInv, YieldInv
  <2>3. CASE s = t
    BY <1>1, <1>2, <1>7, <1>10, <1>11, <2>1, <2>2, <2>3 DEF Quiet
  <2>4. CASE s # t
    BY <1>1, <1>2, <1>6, <1>7, <2>2, <2>4 DEF Quiet
  <2> QED BY <2>3, <2>4
<1>13. /\ operator' \in OperatorState
       /\ operator'.pc # "command"
       /\ operator'.pc = "schedule" => /\ operator'.target = t
                                       /\ ~held /\ ~central_policy_operator_active(pol, t)
  <2>1. CASE operator' = NextTarget(t)
    BY <2>1, NextTargetFacts
  <2>2. CASE /\ ~held /\ ~central_policy_operator_active(pol, t)
             /\ \E desired \in Mode :
                  operator' = [pc |-> "schedule", target |-> t, mode |-> desired]
    <3> HIDE DEF held
    <3> QED BY <2>2 DEF OperatorState
  <2> QED BY <1>2, <2>1, <2>2
<1>14. (operator.pc = "schedule" => Quiet(operator.target))'
  BY <1>1, <1>2, <1>8, <1>13 DEF Quiet
<1>15. YieldInv'
  BY <1>12, <1>13, <1>14 DEF YieldInv
<1>16. PolicyInv' /\ MatchInv' /\ OutcomeTruthful'
  BY <1>1 DEF IInv, PolicyInv, MatchInv, OutcomeTruthful, InState, Sending
<1>17. RecordsTyped' /\ QueuesTyped' /\ ThreadsTyped' /\ FreshInv'
  BY <1>1 DEF IInv, RecordsTyped, QueuesTyped, ThreadsTyped, FreshInv
<1>18. PolicyTyped' /\ OthersTyped'
  BY <1>1, <1>2, <1>6, <1>7, <1>13 DEF IInv, PolicyTyped, OthersTyped
<1> QED BY <1>15, <1>16, <1>17, <1>18 DEF IInv

-----------------------------------------------------------------------------
(***************************************************************************)
(* A request is queued.                                                    *)
(***************************************************************************)
\* A queue with new entries for the targets T at its end.
Entries(T, ids, due) ==
  [k \in 1 .. Cardinality(T) |-> [id |-> ids[Ascending(T)[k]], due |-> due]]

Appended(both, q, T, ids) ==
  /\ both \in Seq(Entry)
  /\ Len(both) = Len(q) + Cardinality(T)
  /\ Ids(both) = Ids(q) \cup {ids[t] : t \in T}
  /\ (/\ Distinct(q) /\ \A t \in T : ids[t] \notin Ids(q)
      /\ \A s, t \in T : ids[s] = ids[t] => s = t) => Distinct(both)

LEMMA AppendFacts ==
  ASSUME NEW q \in Seq(Entry), NEW T, T \subseteq Int, IsFiniteSet(T), NEW ids,
         \A t \in T : ids[t] \in Id, NEW due, due \in BOOLEAN, NEW both,
         both = q \o Entries(T, ids, due)
  PROVE  Appended(both, q, T, ids)
<1> DEFINE n == Cardinality(T)
           asc == Ascending(T)
           tail == [k \in 1 .. n |-> [id |-> ids[asc[k]], due |-> due]]
<1>1. n \in Nat
  BY AscendingList
<1>2. \A k \in 1 .. n : asc[k] \in T
  BY AscendingList
<1>3. \A j, k \in 1 .. n : asc[j] = asc[k] => j = k
  BY AscendingList
<1>4. \A t \in T : \E k \in 1 .. n : asc[k] = t
  BY AscendingList
<1>5. both = q \o tail
  BY DEF Entries
<1> HIDE DEF n, asc
<1>6. \A k \in 1 .. n : tail[k] \in Entry /\ tail[k].id = ids[asc[k]]
  BY <1>2 DEF Entry
<1>7. tail \in Seq(Entry) /\ Len(tail) = n
  <2>1. tail \in [1 .. n -> Entry]
    BY <1>6
  <2> QED BY ONLY <1>1, <2>1
<1> HIDE DEF tail
<1>8. /\ both \in Seq(Entry) /\ Len(both) = Len(q) + n
      /\ \A i \in 1 .. Len(q) + n : both[i] = IF i <= Len(q) THEN q[i] ELSE tail[i - Len(q)]
  <2>1. q \in Seq(Entry) /\ tail \in Seq(Entry) /\ Len(tail) = n
    BY <1>7
  <2>2. /\ q \o tail \in Seq(Entry)
        /\ Len(q \o tail) = Len(q) + Len(tail)
        /\ \A i \in 1 .. Len(q) + Len(tail) : (q \o tail)[i] =
             IF i <= Len(q) THEN q[i] ELSE tail[i - Len(q)]
    BY ONLY <2>1, ConcatProperties
  <2> QED BY ONLY <1>5, <2>1, <2>2
<1>9. Len(q) \in Nat /\ DOMAIN q = 1 .. Len(q) /\ DOMAIN both = 1 .. Len(q) + n
  <2>1. Len(q) \in Nat /\ DOMAIN q = 1 .. Len(q)
    BY LenProperties
  <2>2. both \in Seq(Entry) /\ Len(both) = Len(q) + n
    BY <1>8
  <2>3. DOMAIN both = 1 .. Len(both)
    BY ONLY <2>2, LenProperties
  <2> QED BY <2>1, <2>2, <2>3
<1>10. \A i \in DOMAIN q : i \in DOMAIN both /\ both[i] = q[i]
  <2> SUFFICES ASSUME NEW i \in DOMAIN q PROVE i \in DOMAIN both /\ both[i] = q[i]
    OBVIOUS
  <2>1. i \in 1 .. Len(q) + n /\ i <= Len(q)
    BY ONLY <1>1, <1>9, i \in DOMAIN q
  <2> QED BY <1>8, <1>9, <2>1
<1>11. \A k \in 1 .. n : Len(q) + k \in DOMAIN both /\ both[Len(q) + k].id = ids[asc[k]]
  <2> SUFFICES ASSUME NEW k \in 1 .. n
               PROVE  Len(q) + k \in DOMAIN both /\ both[Len(q) + k].id = ids[asc[k]]
    OBVIOUS
  <2>1. Len(q) + k \in 1 .. Len(q) + n /\ ~(Len(q) + k <= Len(q)) /\ Len(q) + k - Len(q) = k
    BY ONLY <1>1, <1>9, k \in 1 .. n
  <2>2. both[Len(q) + k] = tail[k]
    BY ONLY <1>8, <2>1
  <2> QED BY <1>6, <1>9, <2>1, <2>2
<1>12. \A i \in DOMAIN both : i \in DOMAIN q \/ \E k \in 1 .. n : i = Len(q) + k
  <2> SUFFICES ASSUME NEW i \in DOMAIN both, i \notin DOMAIN q
               PROVE  \E k \in 1 .. n : i = Len(q) + k
    OBVIOUS
  <2>1. i - Len(q) \in 1 .. n /\ i = Len(q) + (i - Len(q))
    BY ONLY <1>1, <1>9, i \in DOMAIN both, i \notin DOMAIN q
  <2> QED BY <2>1
<1>13. Ids(both) = Ids(q) \cup {ids[t] : t \in T}
  <2>1. ASSUME NEW x \in Ids(both) PROVE x \in Ids(q) \cup {ids[t] : t \in T}
    <3>1. PICK i \in DOMAIN both : x = both[i].id
      BY DEF Ids
    <3>2. CASE i \in DOMAIN q
      BY <1>10, <3>1, <3>2 DEF Ids
    <3>3. ASSUME NEW k \in 1 .. n, i = Len(q) + k PROVE x \in {ids[t] : t \in T}
      BY <1>2, <1>11, <3>1, <3>3
    <3> QED BY <1>12, <3>2, <3>3
  <2>2. Ids(q) \subseteq Ids(both)
    BY <1>10 DEF Ids
  <2>3. ASSUME NEW t \in T PROVE ids[t] \in Ids(both)
    <3>1. PICK k \in 1 .. n : asc[k] = t
      BY <1>4
    <3> QED BY <1>11, <3>1 DEF Ids
  <2> QED BY <2>1, <2>2, <2>3
<1>14. ASSUME Distinct(q), \A t \in T : ids[t] \notin Ids(q),
              \A s, t \in T : ids[s] = ids[t] => s = t
       PROVE  Distinct(both)
  <2> SUFFICES ASSUME NEW i \in DOMAIN both, NEW j \in DOMAIN both, both[i].id = both[j].id
               PROVE  i = j
    BY DEF Distinct
  <2>1. ASSUME NEW a \in DOMAIN q, NEW k \in 1 .. n
        PROVE  both[a].id # both[Len(q) + k].id
    <3>1. both[a].id = q[a].id /\ q[a].id \in Ids(q)
      BY <1>10 DEF Ids
    <3>2. both[Len(q) + k].id = ids[asc[k]] /\ asc[k] \in T
      BY <1>2, <1>11
    <3> QED BY <1>14, <3>1, <3>2
  <2>2. CASE i \in DOMAIN q /\ j \in DOMAIN q
    BY <1>10, <1>14, <2>2 DEF Distinct
  <2>3. CASE i \in DOMAIN q /\ j \notin DOMAIN q
    BY <1>12, <2>1, <2>3
  <2>4. CASE i \notin DOMAIN q /\ j \in DOMAIN q
    BY <1>12, <2>1, <2>4
  <2>5. CASE i \notin DOMAIN q /\ j \notin DOMAIN q
    <3>1. PICK k \in 1 .. n : i = Len(q) + k
      BY <1>12, <2>5
    <3>2. PICK m \in 1 .. n : j = Len(q) + m
      BY <1>12, <2>5
    <3>3. ids[asc[k]] = ids[asc[m]]
      BY <1>11, <3>1, <3>2
    <3>4. k = m
      BY <1>2, <1>3, <1>14, <3>3
    <3> QED BY <3>1, <3>2, <3>4
  <2> QED BY <2>2, <2>3, <2>4, <2>5
<1>15. Len(both) = Len(q) + Cardinality(T)
  BY <1>8 DEF n
<1> QED BY <1>8, <1>13, <1>14, <1>15 DEF Appended

\* An injection's range has as many elements as its domain.
LEMMA RangeSize ==
  ASSUME NEW S, NEW T, IsFiniteSet(S), NEW f \in Injection(S, T)
  PROVE  IsFiniteSet(Range(f)) /\ Cardinality(Range(f)) = Cardinality(S)
<1>1. f \in [S -> T] /\ IsInjective(f)
  BY DEF Injection
<1>2. f \in Surjection(S, Range(f)) /\ f \in Injection(S, Range(f))
  BY <1>1 DEF Surjection, Injection, Range
<1> QED BY <1>2, FS_Surjection

\* The targets whose operator request is noted under the new ids.
Noted(request, automatic) ==
  IF request.kind \in ModeKind /\ ~automatic THEN Targets(request) ELSE {}

\* The ids a request gets are not those of a record that stays, nor of the last
\* operator request of another target.
NewIds(request, automatic, ids, out) ==
  /\ ids \in Injection(Targets(request), Id)
  /\ out \in Injection(1 .. Excess(Cardinality(Targets(request))),
                       DOMAIN commands \ Pending(commands))
  /\ \A t \in Targets(request) :
       /\ ids[t] \notin DOMAIN commands \ Range(out)
       /\ \A s \in Target \ Noted(request, automatic) : ids[t] # policy_command[s]
  /\ commands' = [id \in (DOMAIN commands \ Range(out)) \cup Range(ids) |->
       IF id \in Range(ids)
       THEN [target |-> CHOOSE t \in Targets(request) : ids[t] = id,
             automatic |-> automatic, got |-> 0, kind |-> request.kind,
             state |-> "QUEUED"]
       ELSE commands[id]]
  /\ queue' = [p \in Peer |-> queue[p] \o
       [k \in 1 .. Cardinality(TargetsOf(p, request)) |->
          [id |-> ids[Ascending(TargetsOf(p, request))[k]],
           due |-> request.kind # "COORDINATE_AT"]]]
  /\ policy_command' = [s \in Target |->
       IF s \in Noted(request, automatic) THEN ids[s] ELSE policy_command[s]]

LEMMA TargetsFacts ==
  ASSUME NEW request \in [kind: Kind, target: Target \cup {ALL}]
  PROVE  /\ Targets(request) \subseteq Target
         /\ Targets(request) \subseteq Int
         /\ IsFiniteSet(Targets(request))
         /\ Cardinality(Targets(request)) \in Nat
<1>1. Targets(request) \subseteq Target
  BY ConstantFacts DEF Targets, Members
<1>2. IsFiniteSet(Targets(request))
  BY <1>1, ConstantFacts, FS_Subset
<1> QED BY <1>1, <1>2, ConstantFacts, FS_CardinalityType

\* As many records give way as the table cannot hold.
LEMMA ExcessFacts ==
  ASSUME RecordsTyped, NEW b \in Nat, NEW n \in Nat, b <= n
  PROVE  /\ Excess(b) \in Nat /\ Excess(n) \in Nat /\ Excess(b) <= Excess(n)
         /\ Cardinality(DOMAIN commands) + n - Excess(n) <= COMMAND_HISTORY_SIZE
<1>1. Cardinality(DOMAIN commands) \in Nat /\ COMMAND_HISTORY_SIZE \in Nat
  BY FS_CardinalityType, ConstantFacts DEF RecordsTyped
<1> QED BY ONLY <1>1, b \in Nat, n \in Nat, b <= n DEF Excess

LEMMA InsertIds ==
  ASSUME RecordsTyped, PolicyTyped,
         NEW request \in [kind: Kind, target: Target \cup {ALL}],
         NEW automatic \in BOOLEAN, Insert(request, automatic)
  PROVE  \E ids, out : NewIds(request, automatic, ids, out)
<1> DEFINE S == Targets(request)
           noted == Noted(request, automatic)
           Before(t) == {s \in S : s < t}
           Gone(out, t) == {out[k] : k \in 1 .. Excess(Cardinality(Before(t)))}
           Asked(ids, T) == [s \in Target |-> IF s \in T THEN ids[s] ELSE policy_command[s]]
<1>1. PICK ids \in Injection(S, Id),
           out \in Injection(1 .. Excess(Cardinality(S)), DOMAIN commands \ Pending(commands)) :
        /\ \A t \in S : ids[t] \in next_id(Gone(out, t), Asked(ids, noted \cap Before(t)))
        /\ commands' = [id \in (DOMAIN commands \ Range(out)) \cup Range(ids) |->
             IF id \in Range(ids)
             THEN [target |-> CHOOSE t \in S : ids[t] = id, automatic |-> automatic,
                   got |-> 0, kind |-> request.kind, state |-> "QUEUED"]
             ELSE commands[id]]
        /\ queue' = [p \in Peer |-> queue[p] \o
             [k \in 1 .. Cardinality(TargetsOf(p, request)) |->
                [id |-> ids[Ascending(TargetsOf(p, request))[k]],
                 due |-> request.kind # "COORDINATE_AT"]]]
        /\ policy_command' = Asked(ids, noted)
  BY DEF Insert, Noted
<1>2. ASSUME NEW t \in S
      PROVE  ids[t] \notin DOMAIN commands \ Range(out)
  <2> DEFINE b == Cardinality(Before(t))
             n == Cardinality(S)
  <2>2. IsFiniteSet(S) /\ n \in Nat
    BY TargetsFacts
  <2>3. IsFiniteSet(Before(t)) /\ b <= n
    BY <2>2, FS_Subset
  <2>4. b \in Nat
    BY <2>3, FS_CardinalityType
  <2> HIDE DEF b, n
  <2>6. Excess(b) \in Nat /\ Excess(n) \in Nat /\ Excess(b) <= Excess(n)
    BY <2>2, <2>3, <2>4, ExcessFacts
  <2>7. 1 .. Excess(b) \subseteq 1 .. Excess(n)
    BY ONLY <2>6
  <2>8. DOMAIN out = 1 .. Excess(n)
    BY DEF Injection, n
  <2>9. Gone(out, t) \subseteq Range(out)
    BY <2>7, <2>8 DEF Range, b
  <2>10. ids[t] \notin DOMAIN commands \ Gone(out, t)
    BY <1>1 DEF next_id
  <2> HIDE DEF Gone
  <2> QED BY <2>9, <2>10
<1>3. ASSUME NEW t \in S, NEW s \in Target \ noted
      PROVE  ids[t] # policy_command[s]
  <2> DEFINE A == Asked(ids, noted \cap Before(t))
  <2>1. ids[t] \notin Range(A)
    BY <1>1 DEF next_id
  <2>2. A[s] = policy_command[s] /\ s \in DOMAIN A
    OBVIOUS
  <2> HIDE DEF A
  <2> QED BY <2>1, <2>2 DEF Range
<1>4. NewIds(request, automatic, ids, out)
  BY <1>1, <1>2, <1>3 DEF NewIds
<1> QED BY <1>4

\* The records after a request is queued.
InsertedRecords(request, automatic, ids, out) ==
  /\ DOMAIN commands' = (DOMAIN commands \ Range(out)) \cup Range(ids)
  /\ \A id \in DOMAIN commands \ Range(out) :
       id \notin Range(ids) /\ commands'[id] = commands[id]
  /\ \A t \in Targets(request) :
       commands'[ids[t]] = [target |-> t, automatic |-> automatic, got |-> 0,
                            kind |-> request.kind, state |-> "QUEUED"]
  /\ Range(out) \subseteq DOMAIN commands \ Pending(commands)
  /\ Range(ids) = {ids[t] : t \in Targets(request)}
  /\ \A t \in Targets(request) : ids[t] \in Id

LEMMA InsertRecords ==
  ASSUME RecordsTyped, OutcomeTruthful,
         NEW request \in [kind: Kind, target: Target \cup {ALL}],
         NEW automatic \in BOOLEAN, NEW ids, NEW out,
         NewIds(request, automatic, ids, out)
  PROVE  /\ RecordsTyped' /\ OutcomeTruthful'
         /\ InsertedRecords(request, automatic, ids, out)
<1> DEFINE S == Targets(request)
           n == Cardinality(S)
           kept == DOMAIN commands \ Range(out)
           New(t) == [target |-> t, automatic |-> automatic, got |-> 0,
                      kind |-> request.kind, state |-> "QUEUED"]
<1>1. /\ S \subseteq Target /\ IsFiniteSet(S) /\ n \in Nat
      /\ ids \in Injection(S, Id)
      /\ out \in Injection(1 .. Excess(n), DOMAIN commands \ Pending(commands))
      /\ \A t \in S : ids[t] \notin kept
  BY TargetsFacts DEF NewIds
<1>2. /\ commands' = [id \in kept \cup Range(ids) |->
             IF id \in Range(ids) THEN New(CHOOSE t \in S : ids[t] = id) ELSE commands[id]]
  BY DEF NewIds
<1>3. /\ ids \in [S -> Id] /\ Range(ids) = {ids[t] : t \in S}
      /\ \A s, t \in S : ids[s] = ids[t] => s = t
      /\ Range(out) \subseteq DOMAIN commands \ Pending(commands)
  BY <1>1 DEF Injection, IsInjective, Range
<1> HIDE DEF S, n, kept
<1>4. DOMAIN commands' = kept \cup Range(ids)
  BY <1>2
<1>5. \A id \in kept : id \notin Range(ids) /\ commands'[id] = commands[id]
  BY <1>1, <1>2, <1>3
<1>6. ASSUME NEW t \in S
      PROVE  commands'[ids[t]] = New(t)
  <2>1. (CHOOSE s \in S : ids[s] = ids[t]) = t
    BY <1>3
  <2>2. ids[t] \in Range(ids)
    BY <1>3
  <2> HIDE DEF New
  <2> QED BY <1>2, <2>1, <2>2
<1>7. \A t \in S : /\ New(t) \in Record /\ New(t).state = "QUEUED" /\ New(t).got = 0
  BY <1>1 DEF Record, RequestState
<1>8. IsFiniteSet(DOMAIN commands') /\ Cardinality(DOMAIN commands') <= COMMAND_HISTORY_SIZE
  <2> DEFINE e == Excess(n)
             D == DOMAIN commands
  <2>1. e \in Nat /\ Cardinality(D) + n - e <= COMMAND_HISTORY_SIZE
    BY <1>1, ExcessFacts
  <2>2. IsFiniteSet(1 .. e) /\ Cardinality(1 .. e) = e
    BY <2>1, FS_Interval
  <2>3. IsFiniteSet(Range(out)) /\ Cardinality(Range(out)) = e
    BY <1>1, <2>2, RangeSize
  <2>4. IsFiniteSet(Range(ids)) /\ Cardinality(Range(ids)) = n
    BY <1>1, RangeSize DEF n
  <2>5. IsFiniteSet(D) /\ Cardinality(D) \in Nat
    BY FS_CardinalityType DEF RecordsTyped
  <2>6. IsFiniteSet(kept) /\ Cardinality(kept) = Cardinality(D) - e
    <3>1. D \cap Range(out) = Range(out)
      BY <1>3
    <3>2. /\ IsFiniteSet(D \ Range(out))
          /\ Cardinality(D \ Range(out)) = Cardinality(D) - Cardinality(D \cap Range(out))
      BY <2>5, FS_Difference
    <3> QED BY <2>3, <3>1, <3>2 DEF kept
  <2>7. kept \cap Range(ids) = {}
    BY <1>5
  <2>8. /\ IsFiniteSet(kept \cup Range(ids))
        /\ Cardinality(kept \cup Range(ids)) = Cardinality(D) - e + n
    <3>1. /\ IsFiniteSet(kept \cup Range(ids))
          /\ Cardinality(kept \cup Range(ids)) =
               Cardinality(kept) + Cardinality(Range(ids)) - Cardinality(kept \cap Range(ids))
      BY <2>4, <2>6, FS_Union
    <3>2. Cardinality(kept \cap Range(ids)) = 0
      BY <2>7, FS_EmptySet
    <3> QED BY ONLY <1>1, <2>1, <2>4, <2>5, <2>6, <3>1, <3>2
  <2>9. DOMAIN commands' = kept \cup Range(ids)
    BY <1>4
  <2>10. COMMAND_HISTORY_SIZE \in Nat
    BY ConstantFacts
  <2> HIDE DEF e, D
  <2> QED BY ONLY <1>1, <2>1, <2>5, <2>8, <2>9, <2>10
<1>9. \A id \in DOMAIN commands' :
        \/ id \in kept /\ commands'[id] = commands[id]
        \/ \E t \in S : id = ids[t] /\ commands'[id] = New(t)
  <2> HIDE DEF New
  <2> QED BY <1>3, <1>4, <1>5, <1>6
<1>10. RecordsTyped'
  <2>1. \A id \in kept : id \in Id /\ commands[id] \in Record
    BY DEF kept, RecordsTyped
  <2>2. \A id \in DOMAIN commands' : id \in Id /\ commands'[id] \in Record
    <3> HIDE DEF New
    <3> QED BY <1>3, <1>7, <1>9, <2>1
  <2> QED BY <1>8, <2>2 DEF RecordsTyped
<1>11. OutcomeTruthful'
  <2>1. \A id \in kept : id \in DOMAIN commands
    BY DEF kept
  <2> HIDE DEF New
  <2> QED BY <1>7, <1>9, <2>1 DEF OutcomeTruthful
<1> QED BY <1>3, <1>4, <1>5, <1>6, <1>10, <1>11 DEF S, kept, InsertedRecords

\* What the queues and the records have in common after that.
LEMMA InsertMatches ==
  ASSUME RecordsTyped, QueuesTyped, MatchInv, OutcomeTruthful,
         NEW request \in [kind: Kind, target: Target \cup {ALL}],
         NEW automatic \in BOOLEAN, HasRoom(request), NEW ids, NEW out,
         NewIds(request, automatic, ids, out), UNCHANGED thread
  PROVE  QueuesTyped' /\ MatchInv'
<1> DEFINE S == Targets(request)
           T(p) == TargetsOf(p, request)
           kept == DOMAIN commands \ Range(out)
<1>1. /\ DOMAIN commands' = kept \cup Range(ids)
      /\ \A id \in kept : id \notin Range(ids) /\ commands'[id] = commands[id]
      /\ \A t \in S : commands'[ids[t]] =
           [target |-> t, automatic |-> automatic, got |-> 0,
            kind |-> request.kind, state |-> "QUEUED"]
      /\ Range(out) \subseteq DOMAIN commands \ Pending(commands)
      /\ Range(ids) = {ids[t] : t \in S}
      /\ \A t \in S : ids[t] \in Id
  <2>1. InsertedRecords(request, automatic, ids, out)
    BY InsertRecords
  <2> QED BY <2>1 DEF InsertedRecords
<1>2. S \subseteq Int /\ IsFiniteSet(S)
  BY TargetsFacts
<1>3. \A s, t \in S : ids[s] = ids[t] => s = t
  BY DEF NewIds, Injection, IsInjective
<1>4. \A t \in S : /\ commands'[ids[t]].target = t
                   /\ commands'[ids[t]].kind = request.kind
                   /\ commands'[ids[t]].state = "QUEUED"
  <2> SUFFICES ASSUME NEW t \in S
               PROVE  /\ commands'[ids[t]].target = t
                      /\ commands'[ids[t]].kind = request.kind
                      /\ commands'[ids[t]].state = "QUEUED"
    OBVIOUS
  <2>1. commands'[ids[t]] = [target |-> t, automatic |-> automatic, got |-> 0,
                             kind |-> request.kind, state |-> "QUEUED"]
    BY <1>1
  <2> QED BY ONLY <2>1
<1>5. \A p : T(p) = {t \in S : PeerOf(request.kind, t) = p}
  BY DEF TargetsOf
<1> HIDE DEF S, T
<1>6. ASSUME NEW p \in Peer
      PROVE  /\ InState(commands, p, "QUEUED") \subseteq kept
             /\ InState(commands, p, "SENDING") \subseteq kept
  BY <1>1 DEF InState, Pending
<1>7. ASSUME NEW p \in Peer
      PROVE  InState(commands, p, "QUEUED")' =
               InState(commands, p, "QUEUED") \cup {ids[t] : t \in T(p)}
  <2>1. ASSUME NEW id \in InState(commands, p, "QUEUED")
        PROVE  id \in InState(commands, p, "QUEUED")'
    BY <1>1, <1>6 DEF InState
  <2>2. ASSUME NEW t \in T(p)
        PROVE  ids[t] \in InState(commands, p, "QUEUED")'
    BY <1>1, <1>4, <1>5 DEF InState
  <2>3. ASSUME NEW id \in InState(commands, p, "QUEUED")'
        PROVE  id \in InState(commands, p, "QUEUED") \cup {ids[t] : t \in T(p)}
    <3>1. /\ id \in DOMAIN commands' /\ commands'[id].state = "QUEUED"
          /\ PeerOf(commands'[id].kind, commands'[id].target) = p
      BY DEF InState
    <3>2. CASE id \in kept
      BY <1>1, <3>1, <3>2 DEF InState
    <3>3. CASE id \in Range(ids)
      <4>1. PICK t \in S : id = ids[t]
        BY <1>1, <3>3
      <4> QED BY <1>4, <1>5, <3>1, <4>1
    <3> QED BY <1>1, <3>1, <3>2, <3>3
  <2> QED BY <2>1, <2>2, <2>3
<1>8. ASSUME NEW p \in Peer
      PROVE  InState(commands, p, "SENDING")' = InState(commands, p, "SENDING")
  <2>1. ASSUME NEW id \in InState(commands, p, "SENDING")
        PROVE  id \in InState(commands, p, "SENDING")'
    BY <1>1, <1>6 DEF InState
  <2>2. ASSUME NEW id \in InState(commands, p, "SENDING")'
        PROVE  id \in InState(commands, p, "SENDING")
    <3>1. /\ id \in DOMAIN commands' /\ commands'[id].state = "SENDING"
          /\ PeerOf(commands'[id].kind, commands'[id].target) = p
      BY DEF InState
    <3>2. id \notin Range(ids)
      BY <1>1, <1>4, <3>1
    <3> QED BY <1>1, <3>1, <3>2 DEF InState
  <2> QED BY <2>1, <2>2
<1>9. ASSUME NEW p \in Peer
      PROVE  /\ queue'[p] \in Seq(Entry)
             /\ Len(queue'[p]) <= COMMAND_QUEUE_SIZE
             /\ Ids(queue'[p]) = Ids(queue[p]) \cup {ids[t] : t \in T(p)}
             /\ Distinct(queue'[p])
  <2> DEFINE due == request.kind # "COORDINATE_AT"
  <2>1. queue[p] \in Seq(Entry) /\ Distinct(queue[p])
        /\ Ids(queue[p]) = InState(commands, p, "QUEUED")
    BY DEF QueuesTyped, MatchInv
  <2>2. T(p) \subseteq S
    BY <1>5
  <2>3. T(p) \subseteq Int /\ IsFiniteSet(T(p)) /\ \A t \in T(p) : ids[t] \in Id
    BY <1>1, <1>2, <2>2, FS_Subset
  <2>4. queue'[p] = queue[p] \o Entries(T(p), ids, due)
    BY DEF NewIds, T, Entries
  <2>5. due \in BOOLEAN
    OBVIOUS
  <2>6. \A t \in T(p) : ids[t] \notin Ids(queue[p])
    BY <1>1, <1>6, <2>1, <2>2
  <2>7. \A s, t \in T(p) : ids[s] = ids[t] => s = t
    BY <1>3, <2>2
  <2> HIDE DEF due
  <2>8. /\ queue'[p] \in Seq(Entry)
        /\ Len(queue'[p]) = Len(queue[p]) + Cardinality(T(p))
        /\ Ids(queue'[p]) = Ids(queue[p]) \cup {ids[t] : t \in T(p)}
        /\ Distinct(queue'[p])
    <3>1. Appended(queue'[p], queue[p], T(p), ids)
      BY ONLY <2>1, <2>3, <2>4, <2>5, AppendFacts
    <3> QED BY ONLY <2>1, <2>6, <2>7, <3>1 DEF Appended
  <2>9. Len(queue[p]) + Cardinality(T(p)) <= COMMAND_QUEUE_SIZE
    BY DEF HasRoom, T
  <2> QED BY <2>8, <2>9
<1>10. QueuesTyped'
  <2>1. queue' \in [Peer -> Seq(Entry)]
    BY <1>9 DEF NewIds
  <2> QED BY <1>9, <2>1 DEF QueuesTyped
<1>11. MatchInv'
  <2>1. \A p \in Peer : Sending(p)' = Sending(p)
    BY DEF Sending
  <2> QED BY <1>7, <1>8, <1>9, <2>1 DEF MatchInv
<1> QED BY <1>10, <1>11

\* What the request changes for the schedule and the operator.
LEMMA InsertPolicy ==
  ASSUME RecordsTyped, OutcomeTruthful, PolicyTyped, PolicyInv,
         NEW request \in [kind: Kind, target: Target \cup {ALL}],
         NEW automatic \in BOOLEAN, NEW ids, NEW out,
         NewIds(request, automatic, ids, out)
  PROVE  /\ PolicyInv'
         /\ policy_command' \in [Target -> Id \cup {NoId}]
         /\ \A t \in Target :
              Automatic(t)' => Automatic(t) \/ (automatic /\ t \in Targets(request))
         /\ \A t \in Target \ Noted(request, automatic) :
              /\ policy_command'[t] = policy_command[t]
              /\ policy_command[t] \in DOMAIN commands' =>
                   /\ policy_command[t] \in DOMAIN commands
                   /\ commands'[policy_command[t]] = commands[policy_command[t]]
<1> DEFINE S == Targets(request)
           noted == Noted(request, automatic)
           kept == DOMAIN commands \ Range(out)
<1>1. /\ DOMAIN commands' = kept \cup Range(ids)
      /\ \A id \in kept : id \notin Range(ids) /\ commands'[id] = commands[id]
      /\ \A t \in S : commands'[ids[t]] =
           [target |-> t, automatic |-> automatic, got |-> 0,
            kind |-> request.kind, state |-> "QUEUED"]
      /\ Range(ids) = {ids[t] : t \in S}
      /\ \A t \in S : ids[t] \in Id
  <2>1. InsertedRecords(request, automatic, ids, out)
    BY InsertRecords
  <2> QED BY <2>1 DEF InsertedRecords
<1>2. /\ \A t \in S : \A s \in Target \ noted : ids[t] # policy_command[s]
      /\ policy_command' = [s \in Target |-> IF s \in noted THEN ids[s] ELSE policy_command[s]]
      /\ policy_command \in [Target -> Id \cup {NoId}]
  BY DEF NewIds, PolicyTyped
<1>3. noted \subseteq S /\ S \subseteq Target
      /\ (noted # {} => request.kind \in ModeKind)
  BY TargetsFacts DEF Noted
<1>4. ASSUME NEW t \in S
      PROVE  /\ commands'[ids[t]].kind = request.kind
             /\ commands'[ids[t]].automatic = automatic
             /\ commands'[ids[t]].target = t
  <2>1. commands'[ids[t]] = [target |-> t, automatic |-> automatic, got |-> 0,
                             kind |-> request.kind, state |-> "QUEUED"]
    BY <1>1
  <2> QED BY ONLY <2>1
<1> HIDE DEF S, noted
<1>5. policy_command' \in [Target -> Id \cup {NoId}]
  BY <1>1, <1>2, <1>3
<1>6. ASSUME NEW t \in Target \ noted
      PROVE  /\ policy_command'[t] = policy_command[t]
             /\ policy_command[t] \in DOMAIN commands' =>
                  /\ policy_command[t] \in DOMAIN commands
                  /\ commands'[policy_command[t]] = commands[policy_command[t]]
  <2>1. policy_command[t] \notin Range(ids)
    BY <1>1, <1>2
  <2> QED BY <1>1, <1>2, <2>1
<1>7. ASSUME NEW t \in Target, Automatic(t)'
      PROVE  Automatic(t) \/ (automatic /\ t \in S)
  <2>1. PICK id \in DOMAIN commands' : /\ commands'[id].automatic
                                       /\ commands'[id].state = "QUEUED"
                                       /\ commands'[id].target = t
    BY <1>7 DEF Automatic
  <2>2. CASE id \in kept
    BY <1>1, <2>1, <2>2 DEF Automatic
  <2>3. CASE id \in Range(ids)
    <3>1. PICK s \in S : id = ids[s]
      BY <1>1, <2>3
    <3> QED BY <1>4, <2>1, <3>1
  <2> QED BY <1>1, <2>2, <2>3
<1>8. PolicyInv'
  <2> SUFFICES ASSUME NEW t \in Target, policy_command'[t] \in DOMAIN commands'
               PROVE  commands'[policy_command'[t]].kind \in ModeKind
    BY DEF PolicyInv
  <2>1. CASE t \in noted
    <3>1. policy_command'[t] = ids[t] /\ t \in S /\ request.kind \in ModeKind
      BY <1>2, <1>3, <2>1
    <3> QED BY <1>4, <3>1
  <2>2. CASE t \notin noted
    BY <1>6, <2>2 DEF PolicyInv
  <2> QED BY <2>1, <2>2
<1> QED BY <1>5, <1>6, <1>7, <1>8 DEF S, noted

\* enqueue_command as a whole, for the variables it changes.
LEMMA EnqueueFacts ==
  ASSUME IInv, NEW request \in [kind: Kind, target: Target \cup {ALL}],
         NEW automatic \in BOOLEAN, NEW queued \in BOOLEAN,
         enqueue_command(request, automatic, queued), UNCHANGED thread
  PROVE  /\ RecordsTyped' /\ QueuesTyped' /\ MatchInv' /\ OutcomeTruthful' /\ PolicyInv'
         /\ policy_command' \in [Target -> Id \cup {NoId}]
         /\ \A t \in Target :
              Automatic(t)' => Automatic(t) \/ (automatic /\ queued /\ t \in Targets(request))
         /\ \A t \in Target : t \notin Noted(request, automatic) \/ ~queued =>
              /\ policy_command'[t] = policy_command[t]
              /\ policy_command[t] \in DOMAIN commands' =>
                   /\ policy_command[t] \in DOMAIN commands
                   /\ commands'[policy_command[t]] = commands[policy_command[t]]
<1>1. CASE queued
  <2>1. HasRoom(request) /\ Insert(request, automatic)
    BY <1>1 DEF enqueue_command
  <2>2. RecordsTyped /\ QueuesTyped /\ MatchInv /\ OutcomeTruthful /\ PolicyTyped /\ PolicyInv
    BY DEF IInv
  <2>3. PICK ids, out : NewIds(request, automatic, ids, out)
    BY <2>1, <2>2, InsertIds
  <2>4. RecordsTyped' /\ OutcomeTruthful'
    BY <2>2, <2>3, InsertRecords
  <2>5. QueuesTyped' /\ MatchInv'
    BY <2>1, <2>2, <2>3, InsertMatches
  <2>6. /\ PolicyInv'
        /\ policy_command' \in [Target -> Id \cup {NoId}]
        /\ \A t \in Target :
             Automatic(t)' => Automatic(t) \/ (automatic /\ t \in Targets(request))
        /\ \A t \in Target \ Noted(request, automatic) :
             /\ policy_command'[t] = policy_command[t]
             /\ policy_command[t] \in DOMAIN commands' =>
                  /\ policy_command[t] \in DOMAIN commands
                  /\ commands'[policy_command[t]] = commands[policy_command[t]]
    BY <2>2, <2>3, InsertPolicy
  <2> QED BY <1>1, <2>4, <2>5, <2>6
<1>2. CASE ~queued
  <2>1. UNCHANGED <<commands, queue, policy_command>>
    BY <1>2 DEF enqueue_command, central
  <2>2. RecordsTyped' /\ QueuesTyped' /\ OutcomeTruthful' /\ PolicyInv'
        /\ policy_command' \in [Target -> Id \cup {NoId}]
    BY <2>1 DEF IInv, RecordsTyped, QueuesTyped, OutcomeTruthful, PolicyInv, PolicyTyped
  <2>3. MatchInv'
    BY <2>1 DEF IInv, MatchInv, InState, Sending
  <2>4. \A t \in Target : Automatic(t)' => Automatic(t)
    BY <2>1 DEF Automatic
  <2> QED BY <2>1, <2>2, <2>3, <2>4
<1> QED BY <1>1, <1>2

LEMMA OperatorEnqueueOK ==
  ASSUME IInv, NEW request \in Requests, OperatorEnqueue(request)
  PROVE  IInv'
<1> DEFINE S == Members(request.target)
<1>1. /\ UNCHANGED <<monitor, endpoint_connected, policy_ack, thread, running, reported>>
      /\ operator' = Idle
      /\ request.kind \in Superseding =>
           operator.pc = "command" /\ operator.request = request
  BY DEF OperatorEnqueue
<1>2. PICK queued \in BOOLEAN :
        /\ enqueue_command(request, FALSE, queued)
        /\ IF queued /\ request.kind \in ModeKind
           THEN /\ operator_policy' = central_policy_note_operator(
                                         operator_policy, S, request.kind)
                /\ scheduled_mode' = [t \in Target |->
                     IF t \in S THEN NoMode ELSE scheduled_mode[t]]
           ELSE UNCHANGED <<operator_policy, scheduled_mode>>
  BY DEF OperatorEnqueue
<1>3. /\ request \in [kind: Kind, target: Target \cup {ALL}]
      /\ request.kind \in Kind /\ request.target \in Target \cup {ALL}
  BY QueueAssumption, ConstantFacts
<1>4. S \in SUBSET Target
  BY <1>3 DEF Members
<1>5. /\ RecordsTyped' /\ QueuesTyped' /\ MatchInv' /\ OutcomeTruthful' /\ PolicyInv'
      /\ policy_command' \in [Target -> Id \cup {NoId}]
      /\ \A t \in Target : Automatic(t)' => Automatic(t)
      /\ \A t \in Target : t \notin Noted(request, FALSE) \/ ~queued =>
           /\ policy_command'[t] = policy_command[t]
           /\ policy_command[t] \in DOMAIN commands' =>
                /\ policy_command[t] \in DOMAIN commands
                /\ commands'[policy_command[t]] = commands[policy_command[t]]
  <2>1. FALSE \in BOOLEAN
    OBVIOUS
  <2> QED BY <1>1, <1>2, <1>3, <2>1, EnqueueFacts
<1>6. Noted(request, FALSE) = IF request.kind \in ModeKind THEN S ELSE {}
  BY DEF Noted, Targets, ModeKind
<1>7. request.kind \in ModeKind => \A t \in S : ~Automatic(t)
  <2>1. request.kind \in ModeKind => operator.pc = "command" /\ operator.request = request
    BY <1>1 DEF Superseding
  <2> QED BY <2>1 DEF IInv, YieldInv
<1> HIDE DEF S
<1>8. /\ operator_policy' \in [persistent: SUBSET Target, temporary: SUBSET Target]
      /\ scheduled_mode' \in [Target -> Mode \cup {NoMode}]
      /\ \A t \in Target : ~queued \/ request.kind \notin ModeKind \/ t \notin S =>
           (central_policy_operator_active(operator_policy, t)'
              <=> central_policy_operator_active(operator_policy, t))
  <2>1. operator_policy \in [persistent: SUBSET Target, temporary: SUBSET Target]
        /\ scheduled_mode \in [Target -> Mode \cup {NoMode}]
    BY DEF IInv, PolicyTyped
  <2>2. CASE queued /\ request.kind \in ModeKind
    <3>1. /\ operator_policy' = central_policy_note_operator(operator_policy, S, request.kind)
          /\ scheduled_mode' = [t \in Target |->
               IF t \in S THEN NoMode ELSE scheduled_mode[t]]
      BY <1>2, <2>2
    <3>2. /\ operator_policy' \in [persistent: SUBSET Target, temporary: SUBSET Target]
          /\ \A t \in Target \ S : central_policy_operator_active(operator_policy', t)
                <=> central_policy_operator_active(operator_policy, t)
      BY <1>4, <2>1, <2>2, <3>1, NoteFacts
    <3>3. scheduled_mode' \in [Target -> Mode \cup {NoMode}]
      BY <2>1, <3>1
    <3> QED BY <2>2, <3>2, <3>3
  <2>3. CASE ~(queued /\ request.kind \in ModeKind)
    <3>1. UNCHANGED <<operator_policy, scheduled_mode>>
      BY <1>2, <2>3
    <3> QED BY <2>1, <3>1
  <2> QED BY <2>2, <2>3
<1>9. ASSUME NEW t \in Target, Automatic(t)'
      PROVE  Quiet(t)'
  <2>1. Automatic(t) /\ Quiet(t)
    BY <1>5, <1>9 DEF IInv, YieldInv
  <2>2. request.kind \notin ModeKind \/ t \notin S
    BY <1>7, <2>1
  <2>3. t \notin Noted(request, FALSE)
    BY <1>6, <2>2
  <2> QED BY <1>1, <1>5, <1>8, <2>1, <2>2, <2>3 DEF Quiet
<1>10. operator'.pc = "idle" /\ operator' \in OperatorState
  BY <1>1 DEF Idle, OperatorState
<1>11. YieldInv'
  BY <1>9, <1>10 DEF YieldInv
<1>12. PolicyTyped' /\ ThreadsTyped' /\ OthersTyped' /\ FreshInv'
  BY <1>1, <1>5, <1>8, <1>10 DEF IInv, PolicyTyped, ThreadsTyped, OthersTyped, FreshInv
<1> QED BY <1>5, <1>11, <1>12 DEF IInv

LEMMA ScheduleEnqueueOK ==
  ASSUME IInv, ScheduleEnqueue
  PROVE  IInv'
<1> DEFINE t0 == operator.target
           request == [kind |-> "SET", target |-> t0]
<1>1. /\ UNCHANGED <<monitor, endpoint_connected, operator_policy, policy_ack, thread,
                     running, reported>>
      /\ operator' = NextTarget(t0)
      /\ operator.pc = "schedule"
  BY DEF ScheduleEnqueue
<1>2. t0 \in Target /\ operator.mode \in Mode
  BY <1>1 DEF IInv, OthersTyped, OperatorState, Idle
<1>3. PICK queued \in BOOLEAN :
        /\ enqueue_command(request, TRUE, queued)
        /\ scheduled_mode' = IF queued THEN [scheduled_mode EXCEPT ![t0] = operator.mode]
                             ELSE scheduled_mode
  BY DEF ScheduleEnqueue
<1>4. request \in [kind: Kind, target: Target \cup {ALL}]
  BY <1>2 DEF Kind, ModeKind
<1>5. Targets(request) = {t0} /\ Noted(request, TRUE) = {}
  BY <1>2, ConstantFacts DEF Targets, Noted, Members
<1>6. Quiet(t0)
  BY <1>1 DEF IInv, YieldInv
<1> HIDE DEF request
<1>7. /\ RecordsTyped' /\ QueuesTyped' /\ MatchInv' /\ OutcomeTruthful' /\ PolicyInv'
      /\ policy_command' \in [Target -> Id \cup {NoId}]
      /\ \A t \in Target : Automatic(t)' => Automatic(t) \/ t \in {t0}
      /\ \A t \in Target :
           /\ policy_command'[t] = policy_command[t]
           /\ policy_command[t] \in DOMAIN commands' =>
                /\ policy_command[t] \in DOMAIN commands
                /\ commands'[policy_command[t]] = commands[policy_command[t]]
  <2>1. TRUE \in BOOLEAN
    OBVIOUS
  <2>2. /\ RecordsTyped' /\ QueuesTyped' /\ MatchInv' /\ OutcomeTruthful' /\ PolicyInv'
        /\ policy_command' \in [Target -> Id \cup {NoId}]
        /\ \A t \in Target :
             Automatic(t)' => Automatic(t) \/ (TRUE /\ queued /\ t \in Targets(request))
        /\ \A t \in Target : t \notin Noted(request, TRUE) \/ ~queued =>
             /\ policy_command'[t] = policy_command[t]
             /\ policy_command[t] \in DOMAIN commands' =>
                  /\ policy_command[t] \in DOMAIN commands
                  /\ commands'[policy_command[t]] = commands[policy_command[t]]
    BY <1>1, <1>3, <1>4, <2>1, EnqueueFacts
  <2> QED BY <1>5, <2>2
<1>8. ASSUME NEW t \in Target, Automatic(t)'
      PROVE  Quiet(t)'
  <2>1. Quiet(t)
    BY <1>6, <1>7, <1>8 DEF IInv, YieldInv
  <2> QED BY <1>1, <1>7, <2>1 DEF Quiet
<1>9. operator'.pc \in {"idle", "tick"} /\ operator' \in OperatorState
  BY <1>1, NextTargetFacts
<1>10. YieldInv'
  BY <1>8, <1>9 DEF YieldInv
<1>11. scheduled_mode' \in [Target -> Mode \cup {NoMode}]
  BY <1>2, <1>3 DEF IInv, PolicyTyped
<1>12. PolicyTyped' /\ ThreadsTyped' /\ OthersTyped' /\ FreshInv'
  BY <1>1, <1>7, <1>9, <1>11 DEF IInv, PolicyTyped, ThreadsTyped, OthersTyped, FreshInv
<1> QED BY <1>7, <1>10, <1>12 DEF IInv

-----------------------------------------------------------------------------
(***************************************************************************)
(* The theorems.                                                           *)
(***************************************************************************)
LEMMA InitOK ==
  ASSUME Init
  PROVE  IInv
<1>1. commands = << >> /\ DOMAIN commands = {}
  BY DEF Init
<1>2. RecordsTyped
  BY <1>1, FS_EmptySet, ConstantFacts DEF RecordsTyped
<1>3. /\ \A p \in Peer : queue[p] = << >>
      /\ << >> \in Seq(Entry) /\ Len(<< >>) = 0 /\ DOMAIN << >> = {}
  BY DEF Init
<1>4. QueuesTyped
  <2>1. queue \in [Peer -> Seq(Entry)]
    BY <1>3 DEF Init
  <2> QED BY <1>3, <2>1, ConstantFacts DEF QueuesTyped
<1>5. PolicyTyped
  BY DEF Init, PolicyTyped
<1>6. ThreadsTyped
  <2> DEFINE zero == 0
             r == [pc |-> "wait", ready |-> FALSE, misses |-> zero, work |-> NoId]
  <2>1. thread = [p \in Peer |-> r] /\ endpoint_connected = {}
    BY DEF Init
  <2>2. zero \in 0 .. HEARTBEAT_MISS_LIMIT /\ zero < HEARTBEAT_MISS_LIMIT
    BY ConstantFacts
  <2> HIDE DEF zero
  <2>3. /\ r \in [pc: {"wait", "probe", "send"}, ready: BOOLEAN,
                  misses: 0 .. HEARTBEAT_MISS_LIMIT, work: Id \cup {NoId}]
        /\ r.misses < HEARTBEAT_MISS_LIMIT
    BY <2>2
  <2> HIDE DEF r
  <2> QED BY <2>1, <2>3 DEF ThreadsTyped
<1>7. OthersTyped /\ FreshInv
  BY DEF Init, OthersTyped, FreshInv, Fresh, central_monitor_init, MonitorState,
         OperatorState
<1>8. MatchInv
  <2>1. \A p \in Peer : Sending(p) = {}
    BY DEF Init, Sending
  <2>2. \A p \in Peer : Ids(queue[p]) = {} /\ Distinct(queue[p])
    BY <1>3 DEF Ids, Distinct
  <2>3. \A p, st : InState(commands, p, st) = {}
    BY <1>1 DEF InState
  <2> QED BY <2>1, <2>2, <2>3 DEF MatchInv
<1>9. OutcomeTruthful
  BY <1>1 DEF OutcomeTruthful
<1>10. PolicyInv
  BY <1>1 DEF PolicyInv
<1>11. YieldInv
  <2>1. \A t : ~Automatic(t)
    BY <1>1 DEF Automatic
  <2>2. operator.pc = "idle"
    BY DEF Init, Idle
  <2> QED BY <2>1, <2>2 DEF YieldInv
<1> QED BY <1>2, <1>4, <1>5, <1>6, <1>7, <1>8, <1>9, <1>10, <1>11 DEF IInv

LEMMA NextOK ==
  ASSUME IInv, [Next]_vars
  PROVE  IInv'
<1>1. CASE UNCHANGED vars
  <2>1. UNCHANGED <<monitor, endpoint_connected, commands, queue, policy_command,
                    operator_policy, policy_ack, scheduled_mode, thread, operator,
                    running, reported>>
    BY <1>1 DEF vars, central, policy
  <2> QED BY <2>1, OnlyMonitorOK
          DEF OnlyMonitor, central, policy, IInv, OthersTyped, FreshInv
<1>2. ASSUME NEW request \in Requests, OperatorCommand(request) \/ OperatorEnqueue(request)
      PROVE  IInv'
  BY <1>2, OperatorCommandOK, OperatorEnqueueOK
<1>3. CASE ScheduleEnqueue \/ Stop
  BY <1>3, ScheduleEnqueueOK, StopOK
<1>4. ASSUME NEW target \in Target \cup {ALL}, ScheduleResume(target)
      PROVE  IInv'
  BY <1>4, ScheduleResumeOK
<1>5. ASSUME NEW t \in Target, ScheduleTick(t) \/ TemporaryEnds(t) \/ StatusArrives(t)
      PROVE  IInv'
  BY <1>5, ScheduleTickOK, TemporaryEndsOK, StatusArrivesOK
<1>6. ASSUME NEW t \in Target, NEW healthy \in BOOLEAN, HeartbeatArrives(t, healthy)
      PROVE  IInv'
  BY <1>6, HeartbeatArrivesOK
<1>7. ASSUME NEW p \in Peer, ProbeStart(p) \/ ProbeAnswered(p) \/ ProbeMissed(p)
                               \/ TakeCommand(p) \/ CommandSent(p)
      PROVE  IInv'
  BY <1>7, ProbeStartOK, ProbeAnsweredOK, ProbeMissedOK, TakeCommandOK, CommandSentOK
<1>8. ASSUME NEW p \in Peer, NEW i \in 1 .. COMMAND_QUEUE_SIZE, BecomesDue(p, i)
      PROVE  IInv'
  BY <1>8, BecomesDueOK
<1>9. ASSUME NEW p \in Reachable, PeerReports(SourceOf(p)) \/ PeerSilent(SourceOf(p))
      PROVE  IInv'
  BY <1>9, ConstantFacts, PeerReportsOK, PeerSilentOK
<1> QED BY <1>1, <1>2, <1>3, <1>4, <1>5, <1>6, <1>7, <1>8, <1>9 DEF Next

\* The inductive invariant holds of every behaviour of Central's commands.
THEOREM CommandInvariant == Spec => []IInv
<1>1. Init => IInv
  BY InitOK
<1>2. IInv /\ [Next]_vars => IInv'
  BY NextOK
<1> QED BY <1>1, <1>2, PTL DEF Spec

\* Queues, peer threads and records always agree, for any number of intersections
\* and endpoints: enqueue_command, cancel_automatic, take_command, send_command and
\* discard_queue lose no command and send none under another's id, and both arrays
\* keep to their sizes.
THEOREM QueuesAgree == Spec => []QueueMatchesRecords
<1>1. IInv => QueueMatchesRecords
  <2> SUFFICES ASSUME IInv PROVE QueueMatchesRecords
    OBVIOUS
  <2>1. TypeOK
    BY DEF IInv, RecordsTyped, QueuesTyped, PolicyTyped, ThreadsTyped, OthersTyped,
           TypeOK, Entry
  <2>2. \A p \in Peer : {e.id : e \in Range(queue[p])} = Ids(queue[p])
    BY DEF Ids, Range
  <2>3. \A p \in Peer : Distinct(queue[p]) /\ Ids(queue[p]) = InState(commands, p, "QUEUED")
                        /\ Sending(p) = InState(commands, p, "SENDING")
    BY DEF IInv, MatchInv
  <2> QED BY <2>1, <2>2, <2>3 DEF QueueMatchesRecords, Distinct, Sending
<1> QED BY <1>1, CommandInvariant, PTL

\* A command goes out only on a status that came since contact was last lost:
\* central_observe_peer, the loss of a link and silence never let an old one count.
THEOREM FreshStatusOnly == Spec => []ReadyIsFresh
<1>1. IInv => ReadyIsFresh
  BY DEF IInv, FreshInv, Fresh, ReadyIsFresh, local_ready, central_can_command
<1> QED BY <1>1, CommandInvariant, PTL

\* No peer gets a command twice, and the recorded outcome is what happened to it.
THEOREM OutcomesTrue == Spec => []OutcomeTruthful
<1>1. IInv => OutcomeTruthful
  BY DEF IInv
<1> QED BY <1>1, CommandInvariant, PTL

\* While a request of the schedule waits, the operator has nothing against it:
\* cancel_automatic, schedule_tick and enqueue_command keep operators first.
THEOREM OperatorFirst == Spec => []AutomationYields
<1>1. IInv => AutomationYields
  <2> SUFFICES ASSUME IInv, NEW id \in DOMAIN commands,
                      commands[id].automatic, commands[id].state = "QUEUED"
               PROVE  LET t == commands[id].target
                      IN  /\ ~central_policy_operator_active(operator_policy, t)
                          /\ \A last \in find_command(commands, policy_command[t]) :
                               commands[last].state = "ACCEPTED"
    BY DEF AutomationYields
  <2>1. commands[id].target \in Target
    BY DEF IInv, RecordsTyped, Record
  <2>2. Quiet(commands[id].target)
    BY <2>1 DEF IInv, YieldInv, Automatic
  <2> QED BY <2>2 DEF Quiet, find_command
<1> QED BY <1>1, CommandInvariant, PTL
============================================================================
