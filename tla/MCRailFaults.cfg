CONSTANTS
  GEN_MOD = 2
  GATE_CLOSE_DELAY_SEC = 1
  GATE_MOVE_SEC = 1
  GATE_CLOSE_TIMEOUT_SEC = 2
  GATE_OPEN_TIMEOUT_SEC = 2
  TRAIN_TIMEOUT_SEC = 2
  TRAIN_WARNING_SEC = 3
  TRAIN_LENGTH_SEC = 1
  NUM_CROSSINGS = 1
  DISTANCE_SEC <- OneCrossing
  MAX_PENDING_EVENTS = 8
  SEC = 1
  Scales = {1}
  Commands = {"train-up", "noexit", "fault", "reset"}
SPECIFICATION FairSpec
INVARIANTS TimersQueued GateInTime
PROPERTIES P1Implements ServiceRestored
