SPECIFICATION MCSpec
CONSTANTS
  Faults = TRUE
  DoubleToggles = FALSE
  PostUsers = {u1, u2}
  PostReq = {p1, p2}
  MaxLikes = 3
  MaxComments = 2
  MaxShares = 1
  Payments = {pay}
  PayReq = {y1, y2}
  AttUsers = {w1}
  DayLength = 3
  STANDARD_DAY_MINUTES = 1
  MaxTime = 4
  AttReq = {t1, t2}
  ExportIds = {e1, e2}
  Uploads = {k1, k2}
  Resumes = {cv}
  FileReq = {f1, f2}
  MaxEdits = 2
SYMMETRY Symmetry
INVARIANTS ServicesTypeOK NoHourTwice CountersAddUp CompletedWasPaid AnsweredIsFound NamedIsStored EditsAreKept
CHECK_DEADLOCK FALSE
