CONSTANTS
  NUM_INTERSECTIONS = 1
  NUM_CROSSINGS = 1
  Route <- MCRoute
  COMMAND_QUEUE_SIZE = 2
  COMMAND_HISTORY_SIZE = 2
  Id = {a, b, c, d}
  NoId = NoId
  HEARTBEAT_MISS_LIMIT = 1
  Reachable = {"local"}
  Mode = {fixed, sensor}
  NoMode = NoMode
  Requests <- MCRequests
SPECIFICATION Spec
INVARIANTS QueueMatchesRecords ReadyIsFresh OutcomeTruthful AutomationYields
SYMMETRY MCSymmetry
