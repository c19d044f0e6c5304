CONSTANTS
  Thread = {t1, t2}
  NoThread = NoThread
  Hash = {h1, h2}
  MaxTime = 4
  MaxCrashes = 1
SYMMETRY Symmetry
SPECIFICATION Spec
CHECK_DEADLOCK FALSE
INVARIANTS
  TypeOK
  MetaNotNewerThanContent
  
PROPERTIES
  WritersAreOrdered
  
