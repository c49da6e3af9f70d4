SPECIFICATION Spec
CONSTANTS
  CodeReq = {}
  PassReq = {p1, p2}
  LockAfter = 2
  SaneFailures = 2
  MaxVersion = 3
  MaxWrong = 0
  Faults = FALSE
PROPERTIES KickedStayOut
