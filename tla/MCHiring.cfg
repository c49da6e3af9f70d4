SPECIFICATION SceneSpec
CONSTANTS
  j1 = j1
  c1 = c1
  a1 = a1
  Jobs = {j1}
  Companies = {c1}
  JobOwner <- MCJobOwner
  JobReq = {p1}
  Apps = {a1, a2}
  JobOf <- MCJobOf
  Texts = {remark}
  Remark = remark
  FromApp = {a2}
  ConvReq = {v1}
  CallReq = {q1, q2}
  MaxMsgs = 2
  Faults = TRUE
SYMMETRY Symmetry
INVARIANTS TypeOK SeekerAnswers CompanyWritesAfterDecision UnreadWasWritten ThreadsAreBounded
PROPERTIES ImplementsMessageFlow DecisionStoredBeforeNotice
