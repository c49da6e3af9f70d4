SPECIFICATION FairSpec
CONSTANTS
  u1 = u1
  Users = {u1}
  Tokens = {t1, t2}
  DevReq = {d1}
  Keys = {k1}
  Fanouts = {}
  Recipients <- MCRecipients
  NoRef = {}
  Unreachable = {}
  Attempts <- MCAttempts
  ChunkSize = 1
  Workers = {w1, w2}
  Serves <- MCServes
  Callers = {q1}
  Enqueue = {"ok", "rejects"}
  MaxDispatch = 2
  MaxRecords = 3
  Faults = TRUE
INVARIANTS TypeOK OneRecordPerReference PushedWasReceived
PROPERTIES JobsSettle
