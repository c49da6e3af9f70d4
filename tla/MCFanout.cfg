SPECIFICATION FirebaseSpec
CONSTANTS
  u1 = u1
  Users = {u1, u2}
  Tokens = {t1}
  DevReq = {d1, d2}
  Keys = {k0}
  Fanouts = {f1}
  Recipients <- MCRecipients
  NoRef = {k0}
  Unreachable = {u2}
  Attempts <- MCAttempts
  ChunkSize = 1
  Workers = {w1}
  Serves <- MCServes
  Callers = {q1}
  Enqueue = {"ok", "rejects"}
  MaxDispatch = 1
  MaxRecords = 4
  Faults = TRUE
SYMMETRY Symmetry
INVARIANTS CompletedReachesAll FanoutIsBounded OneOwner
