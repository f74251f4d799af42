---------------------------- MODULE CommandQueue ----------------------------
(***************************************************************************)
(* The life of a command in Central: central_controller.c from an operator *)
(* or the daily schedule through the queues to the peer threads and the    *)
(* recorded outcome.                                                       *)
(*                                                                         *)
(* Threads: one per peer endpoint (peer_thread), the receiver, and those   *)
(* that take operator_mutex (operator and schedule).  A step is what one   *)
(* thread does under one hold of state.mutex.  Times are compared with     *)
(* limits only; whether a status or a probe is too old, or a command has   *)
(* waited too long, is a free choice at each look.  The history of         *)
(* commands is a table by id.  Ids count upwards and wrap, so that in the  *)
(* long run a new command may get any id that is not reserved; which of    *)
(* the finished records gives way to it is left open too.                  *)
(***************************************************************************)
EXTENDS Monitor, FiniteSets, Sequences, Functions

CONSTANTS
  Route,                  \* local_route: the endpoint of each intersection
  COMMAND_QUEUE_SIZE,     \* 32
  COMMAND_HISTORY_SIZE,   \* 64
  Id,                     \* 1 .. UINT16_MAX
  NoId,                   \* 0
  HEARTBEAT_MISS_LIMIT,   \* 3
  Reachable,              \* the endpoints whose process runs
  Mode,                   \* MODE_FIXED, MODE_SENSOR
  NoMode,                 \* -1
  Requests                \* what the operator may ask, as [kind, target]

ALL == 255
Local == {Route[t] : t \in Target}
Peer == Local \cup {"train"}
ModeKind == {"SET", "TEMPORARY", "REVERT"}
Kind == ModeKind \cup {"COORDINATE", "COORDINATE_AT", "SIM", "TRAIN"}
RequestState == {"QUEUED", "SENDING", "ACCEPTED", "REJECTED", "UNCONFIRMED",
                 "CANCELED", "EXPIRED"}

ASSUME QueueAssumption ==
  /\ Route \in [Target -> STRING] /\ "train" \notin Local
  /\ COMMAND_QUEUE_SIZE \in Nat \ {0} /\ COMMAND_HISTORY_SIZE \in Nat \ {0}
  /\ NoId \notin Id /\ NoMode \notin Mode
  /\ Cardinality(Id) > COMMAND_HISTORY_SIZE + NUM_INTERSECTIONS
  /\ HEARTBEAT_MISS_LIMIT \in Nat \ {0}
  /\ Reachable \subseteq Peer /\ ALL \notin Target
  /\ Requests \subseteq [kind: Kind, target: Target \cup {ALL}]

Record ==
  [target: Target, automatic: BOOLEAN, kind: Kind, state: RequestState,
   got: Nat]              \* history: how often the peer got it

VARIABLES
  monitor,
  endpoint_connected,     \* the connected endpoints
  queue,                  \* [Peer -> Seq([id, due])], due: not_before has come
  commands,               \* the records, a function from some ids
  operator_policy,        \* [persistent, temporary]: the targets held
  policy_command,         \* the last operator mode request of a target, or 0
  policy_ack,
  scheduled_mode,         \* the mode last scheduled, or NoMode
  thread,                 \* of each peer: where it is and its locals
  operator,               \* who holds operator_mutex, and for what
  running,
  reported                \* history: the targets with a status since their
                          \* endpoint's link, or Local, was last lost

central == <<commands, queue, policy_command>>
policy == <<operator_policy, policy_ack, scheduled_mode>>
vars == <<monitor, endpoint_connected, central, policy, thread, operator, running,
          reported>>

SourceOf(p) == IF p = "train" THEN "TRAIN" ELSE "LOCAL"
Members(target) == IF target = ALL THEN Target ELSE {target}
Idle == [pc |-> "idle"]

Init ==
  /\ monitor = central_monitor_init
  /\ endpoint_connected = {}
  /\ queue = [p \in Peer |-> << >>]
  /\ commands = << >>
  /\ operator_policy = [persistent |-> {}, temporary |-> {}]
  /\ policy_command = [t \in Target |-> NoId]
  /\ policy_ack = [t \in Target |-> NoId]
  /\ scheduled_mode = [t \in Target |-> NoMode]
  /\ thread = [p \in Peer |-> [pc |-> "wait", ready |-> FALSE, misses |-> 0,
                               work |-> NoId]]
  /\ operator = Idle
  /\ running = TRUE
  /\ reported = {}

-----------------------------------------------------------------------------
(***************************************************************************)
(* The records.                                                            *)
(***************************************************************************)
PeerOf(kind, t) == IF kind = "TRAIN" THEN "train" ELSE Route[t]

\* find_command: no record when the id is NoId or has given way.
find_command(cmds, id) == {id} \cap DOMAIN cmds

Pending(cmds) == {id \in DOMAIN cmds : cmds[id].state \in {"QUEUED", "SENDING"}}

InState(cmds, p, state) ==
  {id \in DOMAIN cmds : /\ cmds[id].state = state
                        /\ PeerOf(cmds[id].kind, cmds[id].target) = p}

\* Mutant: ids of records in use are not skipped.
next_id_NoSearch(gone, last) == Id \ Range(last)

\* The ids next_id may stop at: the records "gone" gave way and policy_command
\* became "last" since the request's first target.
next_id(gone, last) == Id \ ((DOMAIN commands \ gone) \cup Range(last))

finish_command(cmds, S, state) ==
  [id \in DOMAIN cmds |->
     IF id \in S THEN [cmds[id] EXCEPT !.state = state] ELSE cmds[id]]

local_ready(t) ==
  /\ Route[t] \in endpoint_connected
  /\ central_can_command(monitor, t)

train_ready ==
  "train" \in endpoint_connected /\ "TRAIN" \in monitor.online

\* The numbers of a set in ascending order, and the entries of q at places K.
Ascending(T) ==
  [k \in 1 .. Cardinality(T) |-> CHOOSE t \in T : Cardinality({s \in T : s <= t}) = k]
Keep(q, K) == [k \in 1 .. Cardinality(K) |-> q[Ascending(K)[k]]]

\* The commands of endpoints that were not sent yet are given up.
discard_queue(c, peers) ==
  [c EXCEPT !.queue = [p \in Peer |-> IF p \in peers THEN << >> ELSE @[p]],
            !.commands = finish_command(@, UNION {InState(@, p, "QUEUED") : p \in peers},
                                        "CANCELED")]

Now == [commands |-> commands, queue |-> queue, policy_command |-> policy_command]

Becomes(c) ==
  /\ commands' = c.commands
  /\ queue' = c.queue
  /\ policy_command' = c.policy_command

-----------------------------------------------------------------------------
(***************************************************************************)
(* enqueue_command: all targets or none.                                   *)
(***************************************************************************)
Targets(request) == IF request.kind = "TRAIN" THEN {0} ELSE Members(request.target)
TargetsOf(p, request) == {t \in Targets(request) : PeerOf(request.kind, t) = p}

HasRoom(request) ==
  /\ Cardinality(Targets(request)) + Cardinality(Pending(commands)) <= COMMAND_HISTORY_SIZE
  /\ \A p \in Peer : Len(queue[p]) + Cardinality(TargetsOf(p, request)) <= COMMAND_QUEUE_SIZE

\* How many records give way to n new ones.
Excess(n) ==
  LET total == Cardinality(DOMAIN commands) + n
  IN  IF total > COMMAND_HISTORY_SIZE THEN total - COMMAND_HISTORY_SIZE ELSE 0

\* A record and a queue entry for each target, one target after the other: an
\* id is chosen, then a finished record gives way if the table is full.
Insert(request, automatic) ==
  LET S == Targets(request)
      noted == IF request.kind \in ModeKind /\ ~automatic THEN S ELSE {}
      Asked(ids, T) == [s \in Target |-> IF s \in T THEN ids[s] ELSE policy_command[s]]
      Finished == DOMAIN commands \ Pending(commands)
  IN  \E ids \in Injection(S, Id), out \in Injection(1 .. Excess(Cardinality(S)), Finished) :
        /\ \A t \in S :
             LET before == {s \in S : s < t}
             IN  ids[t] \in next_id({out[k] : k \in 1 .. Excess(Cardinality(before))},
                                    Asked(ids, noted \cap before))
        /\ commands' = [id \in (DOMAIN commands \ Range(out)) \cup Range(ids) |->
             IF id \in Range(ids)
             THEN [target |-> CHOOSE t \in S : ids[t] = id, automatic |-> automatic,
                   got |-> 0, kind |-> request.kind, state |-> "QUEUED"]
             ELSE commands[id]]
        /\ queue' = [p \in Peer |-> queue[p] \o
             [k \in 1 .. Cardinality(TargetsOf(p, request)) |->
                [id |-> ids[Ascending(TargetsOf(p, request))[k]],
                 due |-> request.kind # "COORDINATE_AT"]]]
        /\ policy_command' = Asked(ids, noted)

\* queued: it is admitted.  Otherwise it is refused; a Local's status may be
\* found too old at any time.
enqueue_command(request, automatic, queued) ==
  LET ready == IF request.kind = "TRAIN" THEN train_ready
               ELSE \A t \in Targets(request) : local_ready(t)
      admits == running /\ HasRoom(request) /\ ready
  IN  IF queued THEN admits /\ Insert(request, automatic)
      ELSE (admits => request.kind # "TRAIN") /\ UNCHANGED central

\* Queued schedule requests give way to the operator.
cancel_automatic(c, target) ==
  LET superseded == {id \in UNION {{e.id : e \in Range(c.queue[p])} : p \in Peer} :
        \E i \in find_command(c.commands, id) :
           c.commands[i].automatic /\ c.commands[i].target \in Members(target)}
  IN  [c EXCEPT
         !.commands = finish_command(@, superseded, "CANCELED"),
         !.queue = [p \in Peer |->
            Keep(@[p], {k \in DOMAIN @[p] : @[p][k].id \notin superseded})]]

central_policy_note_operator(pol, S, kind) ==
  CASE kind = "SET" -> [persistent |-> pol.persistent \cup S,
                        temporary |-> pol.temporary \ S]
    [] kind = "TEMPORARY" -> [pol EXCEPT !.temporary = @ \cup S]
    [] kind = "REVERT" -> [pol EXCEPT !.temporary = @ \ S]

central_policy_operator_active(pol, t) == t \in pol.persistent \cup pol.temporary

-----------------------------------------------------------------------------
(***************************************************************************)
(* The operator (execute_command) and the schedule (schedule_tick), one at *)
(* a time under operator_mutex; peer threads run between their steps.      *)
(***************************************************************************)
\* The requests that cancel those of the schedule first.
Superseding == ModeKind \cup {"COORDINATE"}

\* Mutant: requests of the schedule are left in the queue.
OperatorCommand_NoCancel(request) ==
  /\ operator.pc = "idle" /\ request.kind \in Superseding
  /\ operator' = [pc |-> "command", request |-> request]
  /\ UNCHANGED <<monitor, endpoint_connected, central, policy, thread, running,
                 reported>>

OperatorCommand(request) ==
  /\ operator.pc = "idle" /\ request.kind \in Superseding
  /\ operator' = [pc |-> "command", request |-> request]
  /\ Becomes(cancel_automatic(Now, request.target))
  /\ UNCHANGED <<monitor, endpoint_connected, policy, thread, running, reported>>

OperatorEnqueue(request) ==
  /\ IF request.kind \in Superseding
     THEN operator = [pc |-> "command", request |-> request]
     ELSE operator.pc = "idle"
  /\ operator' = Idle
  /\ \E queued \in BOOLEAN :
       /\ enqueue_command(request, FALSE, queued)
       /\ IF queued /\ request.kind \in ModeKind
          THEN LET S == Members(request.target)
               IN  /\ operator_policy' = central_policy_note_operator(
                                            operator_policy, S, request.kind)
                   /\ scheduled_mode' = [t \in Target |->
                        IF t \in S THEN NoMode ELSE scheduled_mode[t]]
          ELSE UNCHANGED <<operator_policy, scheduled_mode>>
  /\ UNCHANGED <<monitor, endpoint_connected, policy_ack, thread, running, reported>>

\* schedule-resume
ScheduleResume(target) ==
  LET S == Members(target)
      Cleared(f, value) == [t \in Target |-> IF t \in S THEN value ELSE f[t]]
  IN  /\ operator.pc = "idle"
      /\ operator_policy' = [persistent |-> operator_policy.persistent \ S,
                             temporary |-> operator_policy.temporary \ S]
      /\ Becomes([cancel_automatic(Now, target) EXCEPT
                    !.policy_command = Cleared(@, NoId)])
      /\ policy_ack' = Cleared(policy_ack, NoId)
      /\ scheduled_mode' = Cleared(scheduled_mode, NoMode)
      /\ UNCHANGED <<monitor, endpoint_connected, thread, operator, running, reported>>

(***************************************************************************)
(* schedule_tick, target by target under one hold of operator_mutex: an    *)
(* operator request that was accepted is noted, one that was not holds the *)
(* schedule.  Then the desired mode, any mode the daily schedule may call  *)
(* for, is queued unless it already was.                                   *)
(***************************************************************************)
NextTarget(t) ==
  IF t + 1 \in Target THEN [pc |-> "tick", target |-> t + 1] ELSE Idle

ScheduleTick(t) ==
  LET last == policy_command[t]
      known == last \in DOMAIN commands
      held == IF known THEN commands[last].state # "ACCEPTED"
              ELSE last # NoId /\ policy_ack[t] # last
      note == known /\ ~held /\ policy_ack[t] # last
      pol == IF note
             THEN central_policy_note_operator(operator_policy, {t}, commands[last].kind)
             ELSE operator_policy
  IN  /\ IF t = 0 THEN operator.pc = "idle"
         ELSE operator = [pc |-> "tick", target |-> t]
      /\ operator_policy' = pol
      /\ policy_ack' = IF note THEN [policy_ack EXCEPT ![t] = last] ELSE policy_ack
      /\ \/ operator' = NextTarget(t)
         \/ /\ ~held /\ ~central_policy_operator_active(pol, t) /\ local_ready(t)
            /\ \E desired \in Mode \ {scheduled_mode[t]} :
                 operator' = [pc |-> "schedule", target |-> t, mode |-> desired]
      /\ UNCHANGED <<monitor, endpoint_connected, central, scheduled_mode, thread,
                     running, reported>>

ScheduleEnqueue ==
  /\ operator.pc = "schedule"
  /\ \E queued \in BOOLEAN :
       /\ enqueue_command([kind |-> "SET", target |-> operator.target], TRUE, queued)
       /\ scheduled_mode' = IF queued
            THEN [scheduled_mode EXCEPT ![operator.target] = operator.mode]
            ELSE scheduled_mode
  /\ operator' = NextTarget(operator.target)
  /\ UNCHANGED <<monitor, endpoint_connected, operator_policy, policy_ack, thread,
                 running, reported>>

-----------------------------------------------------------------------------
(***************************************************************************)
(* A peer thread: a probe every second, commands in between.               *)
(***************************************************************************)
Thread(p, t) == thread' = [thread EXCEPT ![p] = t]

ProbeStart(p) ==
  /\ running /\ thread[p].pc = "wait"
  /\ \/ /\ p \in endpoint_connected
        /\ Thread(p, [thread[p] EXCEPT !.pc = "probe", !.ready = FALSE])
        /\ UNCHANGED <<monitor, endpoint_connected>>
     \/ /\ p \in Reachable \ endpoint_connected    \* central_link_connect succeeds
        /\ Thread(p, [thread[p] EXCEPT !.pc = "probe", !.ready = FALSE, !.misses = 0])
        /\ endpoint_connected' = endpoint_connected \cup {p}
        /\ monitor' = [monitor EXCEPT !.connected = @ \cup {SourceOf(p)}]
  /\ UNCHANGED <<central, policy, operator, running, reported>>

ProbeAnswered(p) ==
  /\ thread[p].pc = "probe"
  /\ Thread(p, [thread[p] EXCEPT !.pc = "wait", !.ready = TRUE, !.misses = 0])
  /\ monitor' = central_observe_peer(monitor, SourceOf(p))
  /\ UNCHANGED <<endpoint_connected, central, policy, operator, running, reported>>

LinkLost(p) ==
  LET left == endpoint_connected \ {p}
      m == [monitor EXCEPT !.synchronized = @ \ {t \in Target : Route[t] = p}]
  IN  /\ endpoint_connected' = left
      /\ reported' = reported \ {t \in Target : Route[t] = p}
      /\ monitor' = IF p = "train" \/ left \cap Local = {}
                    THEN central_peer_disconnected(m, SourceOf(p)) ELSE m
      /\ Becomes(discard_queue(Now, {p}))

ProbeMissed(p) ==
  LET misses == thread[p].misses + 1
  IN  /\ thread[p].pc = "probe"
      /\ Thread(p, [thread[p] EXCEPT !.pc = "wait", !.misses = misses])
      /\ IF misses >= HEARTBEAT_MISS_LIMIT THEN LinkLost(p)
         ELSE UNCHANGED <<monitor, endpoint_connected, central, reported>>
      /\ UNCHANGED <<policy, operator, running>>

\* take_command: the first due command leaves the queue, to be given up or sent.
TakeCommand(p) ==
  /\ running /\ thread[p].pc = "wait" /\ thread[p].ready
  /\ \E i \in DOMAIN queue[p] :
       LET id == queue[p][i].id
           waiting == {s \in find_command(commands, id) : commands[s].state = "QUEUED"}
           can == \E s \in waiting :
                    IF p = "train" THEN train_ready ELSE local_ready(commands[s].target)
           Finish(state) ==
             /\ queue' = [queue EXCEPT ![p] = Keep(@, DOMAIN @ \ {i})]
             /\ commands' = finish_command(commands, waiting, state)
       IN  /\ queue[p][i].due /\ \A j \in DOMAIN queue[p] : j < i => ~queue[p][j].due
           /\ \/ Finish("EXPIRED") /\ UNCHANGED thread
              \/ ~(can /\ p = "train") /\ Finish("CANCELED") /\ UNCHANGED thread
              \/ /\ can
                 /\ Finish("SENDING")
                 /\ Thread(p, [thread[p] EXCEPT !.pc = "send", !.work = id])
  /\ UNCHANGED <<monitor, endpoint_connected, policy_command, policy, operator, running,
                 reported>>

\* Mutant: a command without an answer is queued again.
CommandSent_Retries(p) ==
  LET id == thread[p].work
  IN  /\ thread[p].pc = "send"
      /\ \E got \in {0, 1} :
           commands' = [commands EXCEPT ![id].state = "QUEUED", ![id].got = @ + got]
      /\ queue' = [queue EXCEPT ![p] = Append(@, [id |-> id, due |-> TRUE])]
      /\ Thread(p, [thread[p] EXCEPT !.pc = "wait", !.work = NoId])
      /\ UNCHANGED <<monitor, endpoint_connected, policy_command, policy, operator,
                     running, reported>>

(***************************************************************************)
(* send_command after central_send: with any other answer than a receipt   *)
(* or a refusal, the peer may have got the command or not.                 *)
(***************************************************************************)
CommandSent(p) ==
  LET found == find_command(commands, thread[p].work)
      Outcome(state, got) ==
        commands' = [s \in DOMAIN commands |->
          IF s \in found THEN [commands[s] EXCEPT !.state = state, !.got = @ + got]
          ELSE commands[s]]
      back == [thread[p] EXCEPT !.pc = "wait", !.work = NoId]
  IN  /\ thread[p].pc = "send"
      /\ \/ /\ Outcome("ACCEPTED", 1) \/ Outcome("REJECTED", 1)
            /\ Thread(p, back)
         \/ /\ Outcome("UNCONFIRMED", 0) \/ Outcome("UNCONFIRMED", 1)
            /\ Thread(p, [back EXCEPT !.ready = FALSE])
      /\ UNCHANGED <<monitor, endpoint_connected, queue, policy_command, policy,
                     operator, running, reported>>

-----------------------------------------------------------------------------
(***************************************************************************)
(* The receiver (handle_message), the passing of time, and the end.        *)
(***************************************************************************)
OnlyMonitor ==
  UNCHANGED <<endpoint_connected, central, policy, thread, operator, running>>

StatusArrives(t) ==
  /\ monitor' = central_monitor_status(monitor, t)
  /\ reported' = reported \cup {t}
  /\ OnlyMonitor

HeartbeatArrives(t, healthy) ==
  /\ monitor' = central_monitor_heartbeat(monitor, t, healthy)
  /\ OnlyMonitor /\ UNCHANGED reported

\* A railway status, or a heartbeat that carries no health.
PeerReports(source) ==
  /\ monitor' = central_observe_peer(monitor, source)
  /\ OnlyMonitor /\ UNCHANGED reported

\* HEARTBEAT_MISS_LIMIT seconds without contact: nothing is done about it yet.
PeerSilent(source) ==
  /\ monitor' = [monitor EXCEPT !.online = @ \ {source}]
  /\ reported' = IF source = "LOCAL" THEN {} ELSE reported
  /\ OnlyMonitor

\* not_before of a delayed coordination command comes.
BecomesDue(p, i) ==
  /\ i \in DOMAIN queue[p] /\ ~queue[p][i].due
  /\ queue' = [queue EXCEPT ![p][i].due = TRUE]
  /\ UNCHANGED <<monitor, endpoint_connected, commands, policy_command, policy,
                 thread, operator, running, reported>>

TemporaryEnds(t) ==
  /\ t \in operator_policy.temporary
  /\ operator_policy' = [operator_policy EXCEPT !.temporary = @ \ {t}]
  /\ UNCHANGED <<monitor, endpoint_connected, central, policy_ack, scheduled_mode,
                 thread, operator, running, reported>>

Stop ==
  /\ running
  /\ running' = FALSE
  /\ Becomes(discard_queue(Now, Peer))
  /\ UNCHANGED <<monitor, endpoint_connected, policy, thread, operator, reported>>

Next ==
  \/ \E request \in Requests : OperatorCommand(request) \/ OperatorEnqueue(request)
  \/ ScheduleEnqueue \/ Stop
  \/ \E target \in Target \cup {ALL} : ScheduleResume(target)
  \/ \E t \in Target : ScheduleTick(t) \/ TemporaryEnds(t)
  \/ \E t \in {x \in Target : Route[x] \in Reachable} : StatusArrives(t)
  \/ \E t \in {x \in Target : Route[x] \in Reachable}, healthy \in BOOLEAN :
       HeartbeatArrives(t, healthy)
  \/ \E p \in Peer : ProbeStart(p) \/ ProbeAnswered(p) \/ ProbeMissed(p)
                       \/ TakeCommand(p) \/ CommandSent(p)
  \/ \E p \in Peer, i \in 1 .. COMMAND_QUEUE_SIZE : BecomesDue(p, i)
  \/ \E p \in Reachable : PeerReports(SourceOf(p)) \/ PeerSilent(SourceOf(p))

Spec == Init /\ [][Next]_vars

-----------------------------------------------------------------------------
\* Every variable has its type; queues and history stay within their arrays,
\* and a peer is not tried again past HEARTBEAT_MISS_LIMIT misses.
TypeOK ==
  /\ monitor \in MonitorState
  /\ endpoint_connected \subseteq Peer
  /\ \A p \in Peer : /\ queue[p] \in Seq([id: Id, due: BOOLEAN])
                     /\ Len(queue[p]) <= COMMAND_QUEUE_SIZE
  /\ DOMAIN commands \subseteq Id
  /\ Cardinality(DOMAIN commands) <= COMMAND_HISTORY_SIZE
  /\ \A id \in DOMAIN commands : commands[id] \in Record
  /\ operator_policy \in [persistent: SUBSET Target, temporary: SUBSET Target]
  /\ policy_command \in [Target -> Id \cup {NoId}]
  /\ policy_ack \in [Target -> Id \cup {NoId}]
  /\ scheduled_mode \in [Target -> Mode \cup {NoMode}]
  /\ thread \in [Peer -> [pc: {"wait", "probe", "send"}, ready: BOOLEAN,
                          misses: 0 .. HEARTBEAT_MISS_LIMIT, work: Id \cup {NoId}]]
  /\ running \in BOOLEAN
  /\ reported \subseteq Target

\* The waiting commands and the records agree, whatever operators, schedule,
\* link losses and the end of Central do between the steps of a peer thread:
\* each queued command has its own QUEUED record and vice versa, and a record
\* is SENDING exactly while its peer thread sends it.  So no command is lost,
\* sent under another's id, or overwritten in the history, and both arrays keep
\* to their sizes.
QueueMatchesRecords ==
  /\ TypeOK
  /\ \A p \in Peer : \A i, j \in DOMAIN queue[p] :
       i # j => queue[p][i].id # queue[p][j].id
  /\ \A p \in Peer :
       /\ {e.id : e \in Range(queue[p])} = InState(commands, p, "QUEUED")
       /\ (IF thread[p].pc = "send" THEN {thread[p].work} ELSE {})
            = InState(commands, p, "SENDING")

\* A command goes to an intersection only on the strength of a status that
\* came since contact with it was last lost, by silence or with the link:
\* silence leaves the old status in place until the next contact, which then
\* must not make it count again.
ReadyIsFresh ==
  \A t \in Target : local_ready(t) => t \in reported

\* The outcome shown to the operator is true: a peer gets a command at most
\* once, "not sent" (CANCELED, EXPIRED) means it did not get it, ACCEPTED and
\* REJECTED that it did (central_controller/README.md:98-101).
OutcomeTruthful ==
  \A id \in DOMAIN commands :
    LET r == commands[id]
    IN  /\ r.got <= 1
        /\ r.state \in {"QUEUED", "SENDING", "CANCELED", "EXPIRED"} => r.got = 0
        /\ r.state \in {"ACCEPTED", "REJECTED"} => r.got = 1

\* Operator commands take priority (README.md:361): while a request of the
\* schedule waits for an intersection, no operator hold is in force there and
\* the last operator mode request is not under way and did not fail.
AutomationYields ==
  \A id \in DOMAIN commands :
    LET t == commands[id].target
    IN  commands[id].automatic /\ commands[id].state = "QUEUED"
          => /\ ~central_policy_operator_active(operator_policy, t)
             /\ \A last \in find_command(commands, policy_command[t]) :
                  commands[last].state = "ACCEPTED"
=============================================================================
