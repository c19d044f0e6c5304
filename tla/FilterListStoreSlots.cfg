CONSTANTS
  Getter = {g1, g2}
  NoGetter = NoGetter
  Url = {u1, u2}
  NoUrl = NoUrl
  Slots = 1
  Retries = 1
  Versions = 1
  ConsistentOrigin = TRUE
  DiskFaults = FALSE
SPECIFICATION FairSpec
PROPERTY GetsReturn
