SPECIFICATION Spec
CONSTANTS
  u1 = u1
  Users = {u1}
  Tokens = {t1}
  DevReq = {d1}
  Keys = {k0}
  Fanouts = {}
  Recipients <- MCRecipients
  NoRef = {k0}
  Unreachable = {}
  Attempts <- MCAttempts
  ChunkSize = 1
  Workers = {w1}
  Serves <- MCServes
  Callers = {}
  Enqueue = {"ok"}
  MaxDispatch = 1
  MaxRecords = 4
  Faults = TRUE
INVARIANTS RetryRepeatsNothing
