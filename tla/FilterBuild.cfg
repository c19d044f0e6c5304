CONSTANTS
  a = a
  b = b
  Url <- MCUrl
  List <- MCUrl
  Includes <- MCIncludes
  MaxDepth = 1
  Slots = 1
  Faults = {"disk", "empty"}
SPECIFICATION Spec
INVARIANTS
  TypeOK
  AcceptedIsComplete
  
  BuildEnds
