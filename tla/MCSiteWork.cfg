SPECIFICATION MCSpec
CONSTANTS
  s1 = s1
  s2 = s2
  p1 = p1
  p2 = p2
  c1 = c1
  c2 = c2
  e1 = e1
  m1 = m1
  Projects = {p1, p2}
  SiteIds = {s1, s2}
  Engineers = {e1}
  Contractors = {c1, c2}
  ProjectOf <- MCProjectOf
  OwnerOf <- MCOwnerOf
  Edits = {"completed"}
  g1 = g1
  g2 = g2
  ManageReq = {g1, g2}
  MaxAssignments = 2
  Days = {1, 2}
  Materials = {m1}
  Labours <- MCLabours
  Movements <- MCMovements
  Expenses <- MCExpenses
  RequestStatuses = {"approved"}
  Admin = admin
  RecordReq = {r1}
  MaxRows = 2
  Budget <- MCBudget
  ContractValue <- MCContractValue
  CategoryOf <- MCCategoryOf
  OtherCosts <- MCOtherCosts
  Revenue <- MCRevenue
  AnySite = any
  Queries <- MCQueries
  FigureReq = {f1}
  Faults = TRUE
INVARIANTS ReportsTypeOK AssignedHaveAccess RecordsHaveAssignment ReportsAgree SpentIsBetween
CHECK_DEADLOCK FALSE
