SPECIFICATION Spec
CONSTANTS
  Thread = {t1, t2}
  Host = {h1, h2, h3}
  TTL = 2
  Backdate = 1
  Margin = 1
  Retry = 1
  MaxSize = 2
  MaxTime = 3
  None = None
SYMMETRY Symmetry
INVARIANTS
  TypeOK
  

  
