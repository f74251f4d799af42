CONSTANTS
  GREEN_BASE_SEC = 4
  GREEN_MIN_SEC = 2
  GREEN_MAX_SEC = 6
  YELLOW_SEC = 2
  PED_WALK_START_SEC = 1
  PED_WALK_END_SEC = 1
  PED_GREEN_CAP_SEC = 2
  SENSOR_ADJUST_SEC = 1
  RAILWAY_RECOVERY_SEC = 2
  TRAIN_PASSING_SECONDS = 2
  InitialDir = "EW"
  Etas = {0, 1}
  Durations = {1, 2}
  Offsets = {0, 3, 5, 8}
  Inputs = {"clock", "time", "sim", "mode", "temporary", "revert", "demo-train", "links", "ped", "sensor", "toggle", "m", "reset", "coordination", "railway", "train"}
SPECIFICATION DeskSpec
INVARIANTS TypeOK SignalsSafe WalkSafe PlanBalanced
PROPERTIES TempKeepsBaseline GreenEndsYellow HeldUntilClear GreenPaysBack
