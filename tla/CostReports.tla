----------------------------- MODULE CostReports -----------------------------
(***************************************************************************)
(* The figures that ReportsService computes from the records of the sites: *)
(* costs of projects, sites and portfolios.  A report writes nothing; each *)
(* of its queries is a statement of its own, outside a transaction, while  *)
(* records are inserted and expenses edited.                               *)
(*                                                                         *)
(* The figures are functions of the tables.  getProjectCost is also a      *)
(* handler, query by query.  Percentages, rankings, the lists of rows that *)
(* accompany the figures and rounding to two decimals are left out.        *)
(***************************************************************************)
EXTENDS SiteRecords, FiniteSetsExt

CONSTANTS
  Budget, ContractValue,   \* of each project
  CategoryOf,              \* of each material
  OtherCosts, Revenue,     \* of each site: sums over its daily reports
  AnySite,                 \* no siteId in the query
  Queries,                 \* filters that reports are asked with
  FigureReq                \* reports that can be computed together

ASSUME FiguresAssumption ==
  /\ Budget \in [Projects -> Nat] /\ ContractValue \in [Projects -> Nat]
  /\ OtherCosts \in [SiteIds -> Nat] /\ Revenue \in [SiteIds -> Nat]
  /\ CategoryOf \in [Materials -> STRING]
  /\ AnySite \notin SiteIds
  /\ Queries \subseteq [site : SiteIds \cup {AnySite}, from : Days, to : Days]
  /\ IsFiniteSet(Projects) /\ IsFiniteSet(SiteIds) /\ IsFiniteSet(Contractors)
  /\ IsFiniteSet(Days) /\ Days # {}

VARIABLE freq   \* what each report has read so far

figureVars == <<siteVars, recordVars, freq>>

-----------------------------------------------------------------------------
\* The filters of a query: one site or all, first and last day.
Filter == [site : SiteIds \cup {AnySite}, from : Days, to : Days]
NoFilter == [site |-> AnySite, from |-> Min(Days), to |-> Max(Days)]

\* siteIds of a report on project p; a siteId is taken as it comes.
SitesIn(p, q) == IF q.site = AnySite THEN SitesOf(p) ELSE {q.site}

Booked(rows, sites, q) ==
  {i \in DOMAIN rows : rows[i].site \in sites /\ rows[i].day \in q.from .. q.to}

OfType(is, type) == {i \in is : movement[i].body.type = type}

\* COALESCE(SUM(column), 0) over the rows with an id in is.
Sum(rows, column, is) == SumFunctionOnSet([i \in DOMAIN rows |-> rows[i][column]], is)

\* The same of a column that the model keeps in the body of the row.
SumOfBodies(rows, column, is) ==
  SumFunctionOnSet([i \in DOMAIN rows |-> rows[i].body[column]], is)

\* The totals of a Map keyed by category: one entry for each category met.
ByCategory(rows, column, category) ==
  [c \in Range(category) |->
     Sum(rows, column, {i \in DOMAIN category : category[i] = c})]

-----------------------------------------------------------------------------
\* Wrong on purpose: the sum over movements of every type.
PurchaseSumOfAnything(sites, q) == Sum(movement, "cost", Booked(movement, sites, q))

LabourSum(sites, q) == Sum(labour, "cost", Booked(labour, sites, q))
PurchaseSum(sites, q) == Sum(movement, "cost", OfType(Booked(movement, sites, q), "purchase"))
ExpenseSum(sites, q) == Sum(expense, "amount", Booked(expense, sites, q))

Parts == {"labour", "materials", "expenses"}
PartSum(part, sites, q) ==
  CASE part = "labour" -> LabourSum(sites, q)
    [] part = "materials" -> PurchaseSum(sites, q)
    [] part = "expenses" -> ExpenseSum(sites, q)

ProjectCost(p, q) ==
  LET breakdown == [part \in Parts |-> PartSum(part, SitesIn(p, q), q)]
      total == SumFunction(breakdown)
  IN [breakdown |-> breakdown, totalSpent |-> total,
      remainingBudget |-> Budget[p] - total]

\* category || 'General', here and below a category of the body.
ProjectLabourCost(p, q) ==
  LET is == Booked(labour, SitesIn(p, q), q)
      trade == [i \in is |-> labour[i].body.category]
  IN [totalCost |-> Sum(labour, "cost", is),
      totalWorkers |-> SumOfBodies(labour, "headcount", is),
      overtimeHours |-> SumOfBodies(labour, "overtimeHours", is),
      trades |-> ByCategory(labour, "cost", trade),
      workers |-> [t \in Range(trade) |->
                     SumOfBodies(labour, "headcount", {i \in is : trade[i] = t})]]

\* categories counts the movements of every type, the totals two of them.
ProjectMaterialCost(p, q) ==
  LET is == Booked(movement, SitesIn(p, q), q)
      category == [i \in is |-> CategoryOf[movement[i].body.material]]
  IN [totalPurchases |-> Sum(movement, "cost", OfType(is, "purchase")),
      totalConsumption |-> Sum(movement, "cost", OfType(is, "consumption")),
      categories |-> ByCategory(movement, "cost", category)]

ProjectExpenses(p, q) ==
  LET is == Booked(expense, SitesIn(p, q), q)
      category == [i \in is |-> expense[i].category]
  IN [totalExpenses |-> Sum(expense, "amount", is),
      categories |-> ByCategory(expense, "amount", category)]

\* No filter; the other costs come from the daily reports of the sites, and so
\* does the revenue unless they report none.  A decimal column arrives as a
\* string: contractValue || budget is the contract value, be it "0.00".
ProjectSummary(p) ==
  LET other == SumFunctionOnSet(OtherCosts, SitesOf(p))
      reported == SumFunctionOnSet(Revenue, SitesOf(p))
      costs == [part \in Parts |-> PartSum(part, SitesOf(p), NoFilter)]
      total == SumFunction(costs) + other
      revenue == IF reported > 0 THEN reported ELSE ContractValue[p]
  IN [costs |-> costs, otherCosts |-> other, totalCost |-> total,
      totalRevenue |-> revenue, netProfit |-> revenue - total]

ProjectProfitability(p) ==
  LET summary == ProjectSummary(p) IN
  [contractValue |-> IF ContractValue[p] = 0 THEN Budget[p] ELSE ContractValue[p],
   actualCost |-> summary.totalCost, costVariance |-> Budget[p] - summary.totalCost,
   recognizedRevenue |-> summary.totalRevenue, netProfit |-> summary.netProfit]

-----------------------------------------------------------------------------
\* The reports on one site.
SiteLabourReport(s, q) == LabourSum({s}, q)
SiteExpenseReport(s, q) == ExpenseSum({s}, q)

\* MaterialsService.getStock: the balance of each material of the site, and
\* what its purchases cost.
Stock(s) ==
  LET is == {i \in DOMAIN movement : movement[i].site = s}
      Quantity(m, type) ==
        SumOfBodies(movement, "quantity",
                    {i \in OfType(is, type) : movement[i].body.material = m})
  IN [m \in {movement[i].body.material : i \in is} |->
       [balance |-> Quantity(m, "purchase") + Quantity(m, "issue")
                      - Quantity(m, "consumption") - Quantity(m, "return"),
        totalCost |-> Sum(movement, "cost",
                          {i \in OfType(is, "purchase") : movement[i].body.material = m})]]

\* getSiteMaterialCost, the material cost of a daily report.
SiteMaterialCost(s, d) ==
  LET is == {i \in DOMAIN movement : movement[i].site = s /\ movement[i].day = d}
  IN Sum(movement, "cost", OfType(is, "purchase") \cup OfType(is, "consumption"))

-----------------------------------------------------------------------------
\* The projects of a contractor, or all of them.
AccessibleProjects(u) ==
  {p \in Projects : project[p] # "none" /\ (u \in Contractors => OwnerOf[p] = u)}

FinancialCost(u, q) ==
  LET ps == AccessibleProjects(u) IN
  [totalBudget |-> SumFunctionOnSet(Budget, ps),
   totalSpent |-> SumFunction([p \in ps |-> ProjectCost(p, q).totalSpent])]

FinancialProfitability(u) ==
  LET ps == AccessibleProjects(u)
      revenue == SumFunction([p \in ps |-> ProjectProfitability(p).recognizedRevenue])
      cost == SumFunction([p \in ps |-> ProjectProfitability(p).actualCost])
  IN [totalRevenue |-> revenue, totalCost |-> cost, netProfit |-> revenue - cost]

-----------------------------------------------------------------------------
\* getProjectCost as it runs: the sites, then the three sums in any order.
FigureIdle == [pc |-> "idle"]

FigureFrame ==
  [pc : {"idle"}]
    \cup [pc : {"sites"}, project : Projects, filter : Filter, atStart : Nat,
          edited : BOOLEAN]
    \cup [pc : {"sums"}, project : Projects, filter : Filter, atStart : Nat,
          edited : BOOLEAN, sites : SUBSET SiteIds, left : SUBSET Parts, spent : Nat]
    \cup [pc : {"answered"}, atStart : Nat, edited : BOOLEAN, spent : Nat, atEnd : Nat]

FiguresTypeOK == freq \in [FigureReq -> FigureFrame]

FiguresInit == SiteWorkInit /\ freq = [r \in FigureReq |-> FigureIdle]

FigureGoto(r, frame) ==
  freq' = [freq EXCEPT ![r] = frame] /\ UNCHANGED <<siteVars, recordVars>>

BeginProjectCost(r, u, p, q) ==
  /\ freq[r].pc \in {"idle", "answered"}
  /\ p \in AccessibleProjects(u)
  /\ FigureGoto(r, [pc |-> "sites", project |-> p, filter |-> q, edited |-> FALSE,
                    atStart |-> ProjectCost(p, q).totalSpent])

\* Wrong on purpose: the sites are found without their project.
FindSitesEverywhere(r) ==
  /\ freq[r].pc = "sites"
  /\ LET f == freq[r] IN
     FigureGoto(r, [pc |-> "sums", project |-> f.project, filter |-> f.filter,
                    atStart |-> f.atStart, edited |-> f.edited,
                    sites |-> SiteIds, left |-> Parts, spent |-> 0])

FindSites(r) ==
  /\ freq[r].pc = "sites"
  /\ LET f == freq[r] IN
     FigureGoto(r, [pc |-> "sums", project |-> f.project, filter |-> f.filter,
                    atStart |-> f.atStart, edited |-> f.edited,
                    sites |-> SitesIn(f.project, f.filter), left |-> Parts, spent |-> 0])

ReadSum(r, part) ==
  /\ freq[r].pc = "sums" /\ part \in freq[r].left
  /\ LET f == freq[r] IN
     FigureGoto(r, [f EXCEPT !.left = @ \ {part},
                             !.spent = @ + PartSum(part, f.sites, f.filter)])

Answer(r) ==
  /\ freq[r].pc = "sums" /\ freq[r].left = {}
  /\ LET f == freq[r] IN
     FigureGoto(r, [pc |-> "answered", atStart |-> f.atStart, edited |-> f.edited,
                    spent |-> f.spent,
                    atEnd |-> ProjectCost(f.project, f.filter).totalSpent])

\* History: the reports under way when a stored expense changes.
Witnessed ==
  freq' = [r \in FigureReq |->
             IF freq[r].pc \in {"sites", "sums"}
               THEN [freq[r] EXCEPT !.edited =
                       @ \/ SubSeq(expense', 1, Len(expense)) # expense]
               ELSE freq[r]]

FiguresNext ==
  \/ SitesNext /\ UNCHANGED <<recordVars, freq>>
  \/ RecordsNext /\ Witnessed /\ UNCHANGED siteVars
  \/ \E r \in FigureReq :
       \/ \E u \in Contractors \cup {Admin}, p \in Projects, q \in Queries :
            BeginProjectCost(r, u, p, q)
       \/ FindSites(r) \/ Answer(r)
       \/ \E part \in Parts : ReadSum(r, part)

FiguresSpec == FiguresInit /\ [][FiguresNext]_figureVars

-----------------------------------------------------------------------------
\* Sites, records and reports in progress are of the types their columns and
\* locals have; every sum that has been read is a natural number.
ReportsTypeOK == SitesTypeOK /\ RecordsTypeOK /\ FiguresTypeOK

\* A project costs what its sites cost, with the purchases of getStock; it costs
\* what its days cost, and what the reports on its labour, material and expenses
\* say.
SitesAddUp(p) ==
  LET OfSite(s) == SiteLabourReport(s, NoFilter) + SiteExpenseReport(s, NoFilter)
                     + SumFunction([m \in DOMAIN Stock(s) |-> Stock(s)[m].totalCost])
  IN ProjectCost(p, NoFilter).totalSpent = SumFunction([s \in SitesOf(p) |-> OfSite(s)])

OnDay(d) == [NoFilter EXCEPT !.from = d, !.to = d]
DaysAddUp(p) ==
  ProjectCost(p, NoFilter).totalSpent =
    SumFunction([d \in Days |-> ProjectCost(p, OnDay(d)).totalSpent])

PartsAddUp(p) ==
  ProjectCost(p, NoFilter).totalSpent =
    ProjectLabourCost(p, NoFilter).totalCost
      + ProjectMaterialCost(p, NoFilter).totalPurchases
      + ProjectExpenses(p, NoFilter).totalExpenses

\* Trades and categories add up to the totals next to them.
CategoriesAddUp(p) ==
  LET work == ProjectLabourCost(p, NoFilter)
      goods == ProjectMaterialCost(p, NoFilter)
      spend == ProjectExpenses(p, NoFilter)
  IN /\ work.totalCost = SumFunction(work.trades)
     /\ work.totalWorkers = SumFunction(work.workers)
     /\ spend.totalExpenses = SumFunction(spend.categories)
     /\ goods.totalPurchases + goods.totalConsumption <= SumFunction(goods.categories)

\* The summary is the cost report with the other costs, and the daily reports
\* count the purchases and the consumption of the project.
SummaryAddsUp(p) ==
  LET cost == ProjectCost(p, NoFilter)
      goods == ProjectMaterialCost(p, NoFilter)
      summary == ProjectSummary(p)
      OfDays(s) == SumFunction([d \in Days |-> SiteMaterialCost(s, d)])
  IN /\ summary.totalCost = cost.totalSpent + summary.otherCosts
     /\ cost.remainingBudget - summary.otherCosts = ProjectProfitability(p).costVariance
     /\ goods.totalPurchases + goods.totalConsumption =
          SumFunction([s \in SitesOf(p) |-> OfDays(s)])

\* The portfolio of the admin is that of the contractors.
PortfolioAddsUp ==
  /\ FinancialCost(Admin, NoFilter).totalSpent =
       SumFunction([c \in Contractors |-> FinancialCost(c, NoFilter).totalSpent])
  /\ FinancialProfitability(Admin).netProfit =
       SumFunction([c \in Contractors |-> FinancialProfitability(c).netProfit])

\* The reports tell one story, though each computes its figures from rows of
\* its own selection.
ReportsAgree ==
  /\ \A p \in Projects : /\ SitesAddUp(p) /\ DaysAddUp(p) /\ PartsAddUp(p)
                         /\ CategoriesAddUp(p) /\ SummaryAddsUp(p)
  /\ PortfolioAddsUp

\* A report on the cost of a project reads the sites and the three sums one
\* after the other, while rows are added: unless somebody edits an expense
\* meanwhile, its total is between those of its start and its end.
SpentIsBetween ==
  \A r \in FigureReq :
    freq[r].pc = "answered" /\ ~freq[r].edited =>
      freq[r].atStart <= freq[r].spent /\ freq[r].spent <= freq[r].atEnd
=============================================================================
