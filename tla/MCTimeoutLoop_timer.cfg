CONSTANTS
  IdSpace = 4
  Tasks <- MCTasks
  MaxTime = 3
  OutsideDelays <- MCOutside
  TaskDelays <- MCOutside
  Intervals <- MCIntervals
SPECIFICATION FairSpec
INVARIANTS
  IndexMatchesQueue
PROPERTIES
  IdsKeepTheirMeaning
  FireInDeadlineOrder
  TimeOutReturns
  DueTimersFire
