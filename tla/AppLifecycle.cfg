CONSTANTS
  Caller = {c1, c2}
  NoCaller = none
  MaxRuns = 2
SPECIFICATION FairSpec
CHECK_DEADLOCK FALSE
INVARIANTS
  TypeOK
  WaitsHaveOwners
  NothingLeftRunning
  OnMeansServing
  NoSpuriousRelaunch
PROPERTIES
  StopClearsSystemProxy
  
