SPECIFICATION Spec
CONSTANTS
  CodeReq = {c1}
  PassReq = {p1}
  LockAfter = 2
  SaneFailures = 2
  MaxVersion = 1
  MaxWrong = 2
  Faults = TRUE
INVARIANTS SessionsTypeOK LockedAfterFailures NoFutureTokens ProofBehindPassword
