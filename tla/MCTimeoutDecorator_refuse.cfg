SPECIFICATION Spec
CONSTANTS
  IdSpace = 3
  Tasks = {1, 2}
  Refuses = TRUE
  SpawnFails = FALSE
  MaxEvents = 3
  MaxTime = 2
  Delays = {1}
  Intervals = {0, 1}
INVARIANT EventsAreFiled
