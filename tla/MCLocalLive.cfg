CONSTANTS
  GREEN_BASE_SEC = 3
  GREEN_MIN_SEC = 2
  GREEN_MAX_SEC = 4
  YELLOW_SEC = 2
  PED_WALK_START_SEC = 1
  PED_WALK_END_SEC = 0
  PED_GREEN_CAP_SEC = 2
  SENSOR_ADJUST_SEC = 1
  RAILWAY_RECOVERY_SEC = 1
  TRAIN_PASSING_SECONDS = 1
  InitialDir = "NS"
  Etas = {0}
  Durations = {2}
  Offsets = {0, 4, 9}
  Inputs = {"ped", "railway", "sensor", "m", "coordination"}
SPECIFICATION LiveSpec
PROPERTIES TrainGetsRed PedServed
