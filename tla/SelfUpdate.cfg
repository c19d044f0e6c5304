SPECIFICATION Spec
CONSTANTS
  Builds <- MCBuilds
  OldReleases <- MCOldReleases
  MaxFaults = 2
  MaxEdits = 2
INVARIANTS
  TypeOK
  
PROPERTIES
  MigrationsRunOnce
  
