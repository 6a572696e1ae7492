SPECIFICATION FairSpec
CONSTANTS
  IdSpace = 3
  Tasks = {1}
  Refuses = FALSE
  SpawnFails = TRUE
  MaxEvents = 4
  MaxTime = 3
  Delays = {1}
  Intervals = {0, 2}
INVARIANTS EventsAreFiled ResponsesBalance
PROPERTIES DeletedNeverRuns FiledEventsAreServed OverdueEventsBegin
