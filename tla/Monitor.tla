------------------------------ MODULE Monitor ------------------------------
(***************************************************************************)
(* Central's view of its peers: central_monitor_t of monitor.c, as far as  *)
(* the decision to send a command depends on it.  Each function maps a     *)
(* monitor to a monitor.  A peer's "online" stands for seen and last_seen  *)
(* together: it is lost by silence at any moment (PeerSilent of            *)
(* CommandQueue).  What the records say is kept by module Reporting.       *)
(***************************************************************************)
EXTENDS Integers

CONSTANTS
  NUM_INTERSECTIONS,           \* 6
  NUM_CROSSINGS                \* 3

ASSUME SizeAssumption ==
  /\ NUM_INTERSECTIONS \in Nat \ {0}
  /\ NUM_CROSSINGS \in Nat \ {0}

Target == 0 .. NUM_INTERSECTIONS - 1
CrossingIndex == 0 .. NUM_CROSSINGS - 1
Source == {"LOCAL", "TRAIN"}

MonitorState ==
  [connected: SUBSET Source,       \* some endpoint of the source is connected
   online: SUBSET Source,          \* heard of within HEARTBEAT_MISS_LIMIT seconds
   synchronized: SUBSET Target,    \* a status came since contact was last lost
   crossings: SUBSET CrossingIndex, \* the same for the crossings
   degraded: SUBSET Target]        \* health was reported, and is 0

central_monitor_init ==
  [connected |-> {}, online |-> {}, synchronized |-> {}, crossings |-> {},
   degraded |-> {}]

central_peer_disconnected(m, source) ==
  [m EXCEPT !.connected = @ \ {source}, !.online = @ \ {source},
            !.synchronized = IF source = "LOCAL" THEN {} ELSE @,
            !.crossings = IF source = "TRAIN" THEN {} ELSE @]

\* Mutant: what was known of the source is taken up again.
central_observe_peer_KeepsStatus(m, source) ==
  [m EXCEPT !.online = @ \cup {source}]

\* Contact after a silence: what was known of the source is out of date.
central_observe_peer(m, source) ==
  IF source \in m.online THEN m
  ELSE [central_peer_disconnected(m, source) EXCEPT
          !.connected = m.connected, !.online = @ \cup {source}]

central_monitor_status(m, t) ==
  [central_observe_peer(m, "LOCAL") EXCEPT !.synchronized = @ \cup {t}]

central_monitor_railway(m, x) ==
  [central_observe_peer(m, "TRAIN") EXCEPT !.crossings = @ \cup {x}]

central_monitor_heartbeat(m, t, healthy) ==
  [central_observe_peer(m, "LOCAL") EXCEPT
     !.degraded = IF healthy THEN @ \ {t} ELSE @ \cup {t}]

\* The age of the status, the other condition, is the caller's choice.
central_can_command(m, t) ==
  /\ "LOCAL" \in m.connected \cap m.online
  /\ t \notin m.degraded
  /\ t \in m.synchronized
=============================================================================
