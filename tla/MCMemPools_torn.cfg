SPECIFICATION Spec
CONSTANTS
  max_num = 2
  MaxCrashes = 1
INVARIANT SurvivesAnyCrash
