----------------------------- MODULE Reporting -----------------------------
(***************************************************************************)
(* How Central's picture of the others is made: the status history of a    *)
(* Local's core (local_core.c), the report thread of its comm process      *)
(* (local_comm.c), the status and fault reports of the Train               *)
(* (train_controller.c), and the receiver of Central (receive_frame of     *)
(* ipc.c, handle_message of central_controller.c).                         *)
(*                                                                         *)
(* A sender is blocked until Central has handled its frame, the call times *)
(* out or the connection breaks, and Central's only receiver thread also   *)
(* answers the name_open that a reconnection begins with: so a call is one *)
(* step, which Central may have heard although the caller sees it fail.    *)
(***************************************************************************)
EXTENDS Frames, Sequences, SequencesExt

CONSTANTS
  STATUS_HISTORY_SIZE,    \* records the core keeps (64)
  Running,                \* the peers that may be running beside Central
  MaxRecord,              \* bound: status records
  MaxChange,              \* bound: changes of the crossings
  MaxFailures             \* bound: calls that fail, processes that end, contacts lost

ASSUME HistoryAssumption == STATUS_HISTORY_SIZE \in Nat \ {0}
ASSUME RunningAssumption == Running \subseteq SUBSET Source

Crossing == 1 .. NUM_CROSSINGS
LocalId == 0              \* the intersection

VARIABLES
  running,                \* the peers that are running: a Local, the Train
  core,                   \* history and fault_sequence of the Local's core
  recorded,               \* the last event_id: it grows over restarts of the core
  due,                    \* the comm process's next heartbeat is due
  comm,                   \* its report thread
  crossing,               \* changes of each crossing so far
  train,                  \* the Train's status thread
  outbox,                 \* fault alerts of the Train to send
  dialect,                \* the frames this build of the Train sends
  monitor,                \* Central's monitor
  picture,                \* the records it holds
  failures                \* failures so far

local == <<core, recorded, due, comm>>
setting == <<running, dialect>>
railway == <<crossing, train, outbox, setting>>
central == <<monitor, picture>>
vars == <<local, railway, central, failures>>

-----------------------------------------------------------------------------
(***************************************************************************)
(* A connection is "none", "open", or "dead" when its server has ended.    *)
(***************************************************************************)
Link == {"none", "open", "dead"}

\* Nothing is known of an intersection or a crossing.
Unknown == 0

NoPicture ==
  [status |-> Unknown,                                       \* intersections[0]
   crossings |-> [x \in CrossingIndex |-> [of |-> 0, n |-> 0]],
   faults |-> [x \in CrossingIndex |-> Unknown]]             \* the crossing of the alert

ReportThread == [pc |-> "poll", central |-> "none", delivered |-> 0, last_fault |-> 0,
                 heartbeat_due |-> FALSE, event |-> 0, fault |-> 0]

StatusThread == [link |-> "none", next |-> 0, snapshot |-> [x \in Crossing |-> 0]]

Init ==
  /\ running \in Running
  /\ core = [history |-> << 1 >>, fault |-> 1] /\ recorded = 1
  /\ due = TRUE /\ comm = ReportThread
  /\ crossing = [x \in Crossing |-> 0]
  /\ train = StatusThread /\ outbox = << >> /\ dialect \in Size
  /\ monitor = central_monitor_init /\ picture = NoPicture
  /\ failures = 0

-----------------------------------------------------------------------------
(***************************************************************************)
(* The core of the Local.                                                  *)
(***************************************************************************)
\* The ring, oldest first; the newest record takes the place of the oldest.
record_status(history, id) ==
  LET all == Append(history, id)
  IN  IF Len(all) > STATUS_HISTORY_SIZE THEN Tail(all) ELSE all

\* Mutant: always the newest.
next_status_event_Latest(history, delivered) == Last(history)

\* The least id beyond the delivered one; the newest for a new connection.
next_status_event(history, delivered) ==
  LET later == {id \in Range(history) : id > delivered}
  IN  IF delivered = 0 \/ later = {} THEN Last(history) ELSE Min(later)

\* A tick or a request that changes the status, and perhaps clears a fault.
StatusChanges ==
  /\ "LOCAL" \in running /\ recorded < MaxRecord
  /\ recorded' = recorded + 1
  /\ \E bump \in {0, 1} :
       core' = [history |-> record_status(core.history, recorded'), fault |-> core.fault + bump]
  /\ UNCHANGED <<due, comm, railway, central, failures>>

\* The core's first event_id is the time, so it is beyond those it used before.
CoreRestarts ==
  /\ "LOCAL" \in running /\ recorded < MaxRecord /\ failures < MaxFailures
  /\ recorded' = recorded + 1
  /\ core' = [history |-> << recorded' >>, fault |-> 1]
  /\ failures' = failures + 1
  /\ UNCHANGED <<due, comm, railway, central>>

-----------------------------------------------------------------------------
(***************************************************************************)
(* Central's receiver.                                                     *)
(***************************************************************************)
handle_message(frame) ==
  CASE frame.type = "HEARTBEAT" ->
         /\ monitor' = IF frame.src = "LOCAL" THEN central_monitor_heartbeat(monitor, frame.id, TRUE)
                       ELSE central_observe_peer(monitor, frame.src)
         /\ UNCHANGED picture
    [] frame.type = "STATUS_UPDATE" ->
         /\ monitor' = central_monitor_status(monitor, frame.id)
         /\ picture' = [picture EXCEPT !.status = frame.value]
    [] frame.type = "RAILWAY_STATUS" ->
         /\ monitor' = central_monitor_railway(monitor, frame.id)
         /\ picture' = [picture EXCEPT !.crossings[frame.id] = frame.value]
    [] frame.type = "FAULT_ALERT" ->
         /\ picture' = IF frame.src = "TRAIN" THEN [picture EXCEPT !.faults[frame.id] = frame.value.of]
                       ELSE picture
         /\ UNCHANGED monitor

\* A frame that Central does not accept is an error to the sender.
receive_frame(link, frame) == link = "open" /\ central_frame_normalize(frame)

\* A call over a link: it fails, which closes the link, or Central handles the
\* frame, and the caller may still see it fail.  After is the link after it.
exchange(link, frame, after) ==
  \/ /\ receive_frame(link, frame) /\ after = "open"
     /\ handle_message(normalized(frame)) /\ UNCHANGED failures
  \/ /\ receive_frame(link, frame) /\ after = "none"
     /\ handle_message(normalized(frame)) \/ UNCHANGED central
     /\ failures < MaxFailures /\ failures' = failures + 1
  \/ /\ ~receive_frame(link, frame) /\ after = "none"
     /\ UNCHANGED <<central, failures>>

\* Central starts anew; connections to it are dead.
CentralRestarts ==
  /\ failures < MaxFailures
  /\ monitor' = central_monitor_init /\ picture' = NoPicture
  /\ comm' = [comm EXCEPT !.central = IF @ = "open" THEN "dead" ELSE @]
  /\ train' = [train EXCEPT !.link = IF @ = "open" THEN "dead" ELSE @]
  /\ failures' = failures + 1
  /\ UNCHANGED <<core, recorded, due, crossing, outbox, setting>>

\* Central's own link to a peer is lost, or the peer was silent too long.
ContactLost(source) ==
  /\ failures < MaxFailures /\ source \in monitor.online
  /\ monitor' \in {central_peer_disconnected(monitor, source),
                   [monitor EXCEPT !.online = @ \ {source}]}
  /\ failures' = failures + 1
  /\ UNCHANGED <<local, railway, picture>>

-----------------------------------------------------------------------------
(***************************************************************************)
(* The report thread: a round every 100 ms, a heartbeat every second.      *)
(***************************************************************************)
HeartbeatDue ==
  /\ "LOCAL" \in running /\ ~due
  /\ due' = TRUE
  /\ UNCHANGED <<core, recorded, comm, railway, central, failures>>

\* The start of a round: a lost connection is opened anew at a heartbeat, and
\* the core asked for what to send.  Either may fail, the latter after a restart
\* of the core; without Central there is nothing more to do in this round.
Poll ==
  LET reopen == due /\ comm.central = "none"
      delivered == IF reopen THEN 0 ELSE comm.delivered
      Opened(link) == [comm EXCEPT !.delivered = delivered,
                                   !.last_fault = IF reopen THEN 0 ELSE @,
                                   !.central = IF reopen THEN link ELSE @]
  IN  /\ "LOCAL" \in running /\ comm.pc = "poll"
      /\ due' = FALSE
      /\ \/ /\ comm' = [Opened("open") EXCEPT !.pc = "status", !.heartbeat_due = due,
                          !.event = next_status_event(core.history, delivered),
                          !.fault = core.fault]
            /\ UNCHANGED failures
         \/ /\ failures < MaxFailures /\ failures' = failures + 1
            /\ comm' \in {Opened("open"), Opened("none")}
      /\ UNCHANGED <<core, recorded, railway, central>>

Envelope(type, value) ==
  [size |-> "envelope", src |-> "LOCAL", type |-> type, id |-> LocalId, value |-> value]

\* Mutant: sent only when it is new.
StatusWanted_New == comm.delivered # comm.event

StatusWanted == comm.delivered # comm.event \/ comm.heartbeat_due

SendStatus ==
  /\ comm.pc = "status"
  /\ IF comm.central # "none" /\ StatusWanted
     THEN \E after \in {"open", "none"} :
            /\ exchange(comm.central, Envelope("STATUS_UPDATE", comm.event), after)
            /\ comm' = [comm EXCEPT !.pc = "fault", !.central = after,
                          !.delivered = IF after = "open" THEN comm.event ELSE @]
     ELSE comm' = [comm EXCEPT !.pc = "fault"] /\ UNCHANGED <<central, failures>>
  /\ UNCHANGED <<core, recorded, due, railway>>

SendFault ==
  /\ comm.pc = "fault"
  /\ IF comm.central # "none" /\ comm.last_fault # comm.fault
     THEN \E after \in {"open", "none"} :
            /\ exchange(comm.central, Envelope("FAULT_ALERT", 0), after)
            /\ comm' = [comm EXCEPT !.pc = "heartbeat", !.central = after,
                          !.last_fault = IF after = "open" THEN comm.fault ELSE @]
     ELSE comm' = [comm EXCEPT !.pc = "heartbeat"] /\ UNCHANGED <<central, failures>>
  /\ UNCHANGED <<core, recorded, due, railway>>

\* The end of the round; what it worked on is of no further use.
SendHeartbeat ==
  LET over == [comm EXCEPT !.pc = "poll", !.heartbeat_due = FALSE, !.event = 0, !.fault = 0]
  IN  /\ comm.pc = "heartbeat"
      /\ IF comm.central # "none" /\ comm.heartbeat_due
         THEN \E after \in {"open", "none"} :
                /\ exchange(comm.central, Envelope("HEARTBEAT", 0), after)
                /\ comm' = [over EXCEPT !.central = after]
         ELSE comm' = over /\ UNCHANGED <<central, failures>>
      /\ UNCHANGED <<core, recorded, due, railway>>

CommRestarts ==
  /\ "LOCAL" \in running /\ failures < MaxFailures
  /\ comm' = ReportThread /\ due' = TRUE
  /\ failures' = failures + 1
  /\ UNCHANGED <<core, recorded, railway, central>>

-----------------------------------------------------------------------------
(***************************************************************************)
(* The Train.                                                              *)
(***************************************************************************)
CrossingFrame(type, x, n) ==
  [size |-> IF dialect = "old" /\ type # "RAILWAY_STATUS" THEN "compact" ELSE dialect,
   src |-> "TRAIN", type |-> type,
   id |-> IF dialect = "envelope" THEN x - 1 ELSE x, value |-> [of |-> x, n |-> n]]

\* A crossing changes; if it goes into fault, an alert is queued.
CrossingChanges(x, fault) ==
  /\ "TRAIN" \in running /\ crossing[x] < MaxChange
  /\ crossing' = [crossing EXCEPT ![x] = @ + 1]
  /\ outbox' = IF fault THEN Append(outbox, x) ELSE outbox
  /\ UNCHANGED <<local, train, setting, central, failures>>

\* The sender thread; an alert that is not delivered is not kept.
cx_fault_alert ==
  /\ outbox # << >>
  /\ outbox' = Tail(outbox)
  /\ IF train.link # "none"
     THEN \E after \in {"open", "none"} :
            /\ exchange(train.link, CrossingFrame("FAULT_ALERT", Head(outbox), 0), after)
            /\ train' = [train EXCEPT !.link = after]
     ELSE UNCHANGED <<train, central, failures>>
  /\ UNCHANGED <<local, crossing, setting>>

TrainConnects ==
  /\ "TRAIN" \in running /\ train.link = "none"
  /\ train' = [train EXCEPT !.link = "open"]
  /\ UNCHANGED <<local, crossing, outbox, setting, central, failures>>

\* A heartbeat without contents.
TrainHeartbeat ==
  /\ train.link # "none"
  /\ \E after \in {"open", "none"} :
       /\ exchange(train.link, [size |-> "envelope", src |-> "TRAIN", type |-> "HEARTBEAT",
                               id |-> 0, value |-> 0], after)
       /\ train' = [train EXCEPT !.link = after]
  /\ UNCHANGED <<local, crossing, outbox, setting>>

\* Every second, with a link, the crossings are looked at together ...
status_thread ==
  /\ train.next = 0 /\ train.link # "none"
  /\ train' = [train EXCEPT !.next = 1, !.snapshot = crossing]
  /\ UNCHANGED <<local, crossing, outbox, setting, central, failures>>

\* ... and reported one by one, until a send fails.
send_railway_status ==
  LET x == train.next
      over == [train EXCEPT !.next = 0, !.snapshot = [y \in Crossing |-> 0]]
  IN  /\ x # 0
      /\ \E after \in {"open", "none"} :
           /\ exchange(train.link, CrossingFrame("RAILWAY_STATUS", x, train.snapshot[x]), after)
           /\ train' = IF after = "open" /\ x < NUM_CROSSINGS THEN [train EXCEPT !.next = x + 1]
                       ELSE [over EXCEPT !.link = after]
      /\ UNCHANGED <<local, crossing, outbox, setting>>

-----------------------------------------------------------------------------
Next ==
  \/ StatusChanges \/ CoreRestarts \/ CommRestarts
  \/ HeartbeatDue \/ Poll \/ SendStatus \/ SendFault \/ SendHeartbeat
  \/ \E x \in Crossing, fault \in BOOLEAN : CrossingChanges(x, fault)
  \/ cx_fault_alert \/ TrainConnects \/ TrainHeartbeat \/ status_thread \/ send_railway_status
  \/ CentralRestarts \/ (\E source \in Source : ContactLost(source))

(***************************************************************************)
(* The threads run: a round every 100 ms, a heartbeat and a railway status *)
(* every second, an attempt to connect every two.                          *)
(***************************************************************************)
Fairness ==
  /\ WF_vars(HeartbeatDue) /\ WF_vars(Poll \/ SendStatus \/ SendFault \/ SendHeartbeat)
  /\ WF_vars(cx_fault_alert) /\ WF_vars(TrainConnects) /\ WF_vars(status_thread \/ send_railway_status)

Spec == Init /\ [][Next]_vars /\ Fairness

-----------------------------------------------------------------------------
\* Central shows for a crossing only what was said of that crossing, in
\* whichever dialect (central_frame_normalize), also in its list of alerts.
OwnEntries ==
  \A x \in Crossing :
    /\ picture.crossings[x - 1].of \in {0, x}
    /\ picture.faults[x - 1] \in {Unknown, x}

\* No record goes back in time, whatever is restarted or sent twice.
NeverBack ==
  /\ picture'.status # picture.status => picture'.status \in {Unknown} \cup (picture.status + 1 .. recorded)
  /\ \A x \in CrossingIndex :
       picture'.crossings[x] # picture.crossings[x] =>
         picture'.crossings[x].n \in {Unknown} \cup (picture.crossings[x].n .. crossing[x + 1])

\* Over one connection no record is passed over that the history still holds.
NoneSkipped ==
  picture'.status \notin {picture.status, Unknown} /\ comm.delivered # 0 =>
    \A id \in Range(core.history) : ~(comm.delivered < id /\ id < picture'.status)

\* What Central stores was said of that very intersection or crossing, is newer
\* than what it replaces, and leaves out no record that could still be had: a
\* record counts as delivered only when Central has accepted it (report_thread),
\* and a full history gives up its oldest (record_status).
ReportsTrue == [][OwnEntries' /\ NeverBack /\ NoneSkipped]_vars

PictureCurrent ==
  /\ monitor.online = running
  /\ "LOCAL" \in running => /\ LocalId \in monitor.synchronized
                            /\ picture.status = recorded
  /\ "TRAIN" \in running =>
       \A x \in Crossing : x - 1 \in monitor.crossings /\ picture.crossings[x - 1].n = crossing[x]

\* After any failures, restarts and losses of contact Central's picture is
\* complete and current again, also if nothing changes any more: the heartbeat
\* repeats the last status (report_thread), the status thread every crossing's.
PictureComesBack == <>[]PictureCurrent
=============================================================================
