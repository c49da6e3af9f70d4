SPECIFICATION SceneSpec
CONSTANTS
  Days = {d1}
  Amounts = {0, 1}
  Req = {q1, q2, q3}
  MaxReports = 1
  Faults = TRUE
SYMMETRY Symmetry
INVARIANTS TypeOK TotalIsSumUnlessRaced ReviewedWasSubmitted
