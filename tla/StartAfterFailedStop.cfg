CONSTANTS
  Caller = {c1, c2}
  NoCaller = none
  MaxRuns = 1
SPECIFICATION Spec
CHECK_DEADLOCK FALSE
PROPERTIES StartMeansServing
