CONSTANTS
  Getter = {g1, g2, g3}
  NoGetter = NoGetter
  Url = {u1}
  NoUrl = NoUrl
  Slots = 2
  Retries = 1
  Versions = 2
  ConsistentOrigin = TRUE
  DiskFaults = TRUE
SYMMETRY Symmetry
SPECIFICATION Spec
INVARIANTS
  TypeOK
  
PROPERTIES
  NeverDowngraded
  ImplementsSingleFlight
