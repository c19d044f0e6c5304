SPECIFICATION Spec
CONSTANTS
  Caller = {c1}
  MaxCAs = 2
  MaxFaults = 1
  None = None
INVARIANT HalfDeletedCanBeCleanedUp
