CONSTANTS
  NumEvents = 2
  Word = 8
  Quarter = 2
  MinuteTicks = 7
  MaxSleepUnits = 3
  MaxTimerUnits = 3
  NapDuration = 1
  WakeTimeout = 2
  HoldingEvents = {2}
  TimedTasks = {"response"}
  Builds = {"near", "far", "tasks"}
  AppEvents <- MCAppEvents
  Delays <- MCDelays
  Tasks <- MCTasks
  MaxGap = 2
SPECIFICATION Spec
INVARIANTS EventsInTime NextEventExact
PROPERTIES NeverEarly TasksHeld
CHECK_DEADLOCK FALSE
