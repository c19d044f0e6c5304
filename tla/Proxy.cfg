SPECIFICATION FairSpec
CONSTANTS
  Conn = {c1, c2}
  site = site
  Local = local
  Address = address
  Allowlist = FALSE
  Host = {site, local, address}
  Subdomain <- MCSubdomain
CHECK_DEADLOCK FALSE
INVARIANTS
  TypeOK
  
PROPERTIES
  FinalResponseIsLast
  
