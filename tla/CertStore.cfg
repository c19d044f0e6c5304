SPECIFICATION Spec
CONSTANTS
  Caller = {c1, c2, c3}
  MaxCAs = 3
  MaxFaults = 1
  None = None
SYMMETRY CallerSymmetry
INVARIANTS
  TypeOK
  KeysMatchCA
PROPERTIES
  SwitchSparesRunningProxy
  
