SPECIFICATION FairSpec
CONSTANTS
  UIntSpace = 16
  TimeSpace = 64
  Options <- Sound
  Times <- Readings
  HasScheduler = TRUE
  Backlog = 4
INVARIANTS DealInRange RoundBudget OnProcTime
PROPERTY SettlesAtLimits
