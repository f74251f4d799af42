CONSTANTS
  GEN_MOD = 2
  GATE_CLOSE_DELAY_SEC = 5
  GATE_MOVE_SEC = 3
  GATE_CLOSE_TIMEOUT_SEC = 10
  GATE_OPEN_TIMEOUT_SEC = 10
  TRAIN_TIMEOUT_SEC = 60
  TRAIN_WARNING_SEC = 10
  TRAIN_LENGTH_SEC = 7
  NUM_CROSSINGS = 1
  DISTANCE_SEC <- OneCrossing
  MAX_PENDING_EVENTS = 64
  SEC = 1
  Scales = {1}
  Commands = {"train"}
SPECIFICATION Spec
INVARIANT TrainProtected

