SPECIFICATION PublishedSpec
CONSTANTS
  j1 = j1
  c1 = c1
  a1 = a1
  Jobs = {j1}
  Companies = {c1}
  JobOwner <- MCJobOwner
  JobReq = {}
  Apps = {a1}
  JobOf <- MCJobOf
  Texts = {remark}
  Remark = remark
  FromApp = {}
  ConvReq = {}
  CallReq = {q1, q2}
  MaxMsgs = 1
  Faults = FALSE
INVARIANTS OneConversation
