SPECIFICATION Spec
CONSTANTS
  Clients = {c1, c2}
  Lines <- MCLines
  IgnoredHosts <- MCIgnoredHosts
  Regexp <- MCRegexp
  WebRequests <- MCRequests
  WebResponses <- MCResponses
  MaxLines = 2
  MaxDepth = 3
SYMMETRY MCSymmetry
INVARIANTS
  TypeOK
  LinesApply
  

  
