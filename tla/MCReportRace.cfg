SPECIFICATION Spec
CONSTANTS
  Days = {d1}
  Amounts = {0, 1}
  Req = {q1, q2}
  MaxReports = 1
  Faults = FALSE
INVARIANTS TotalIsSum
