SPECIFICATION Spec
CONSTANTS
  NUM_INTERSECTIONS = 1
  NUM_CROSSINGS = 2
  STATUS_HISTORY_SIZE = 2
  Running <- MCRunning
  MaxRecord = 5
  MaxChange = 1
  MaxFailures = 2
PROPERTIES ReportsTrue PictureComesBack
