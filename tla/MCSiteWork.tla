----------------------------- MODULE MCSiteWork ------------------------------
\* Two projects of two contractors, each with a site, in three scenes: managers
\* at work on the assignments, one manager and the records of the sites, and a
\* report while records are made.
EXTENDS CostReports, TLC

CONSTANTS s1, s2, p1, p2, c1, c2, e1, m1, g1, g2

VARIABLE scene

MCProjectOf == s1 :> p1 @@ s2 :> p2
MCOwnerOf == p1 :> c1 @@ p2 :> c2
MCBudget == p1 :> 10 @@ p2 :> 0
MCContractValue == p1 :> 0 @@ p2 :> 7
MCCategoryOf == [m \in Materials |-> "cement"]
MCOtherCosts == s1 :> 3 @@ s2 :> 0
MCRevenue == s1 :> 5 @@ s2 :> 0
MCQueries == {[site |-> AnySite, from |-> 1, to |-> 1]}

MCLabours == {[category |-> "mason", headcount |-> 2, dailyWage |-> 1,
               overtimeHours |-> 1, overtimeRate |-> 3]}
MCMovements ==
  {[material |-> m1, type |-> type, quantity |-> 2, rate |-> 1] :
     type \in {"purchase", "request", "consumption"}}
MCExpenses == {[category |-> "fuel", amount |-> 1], [category |-> "tools", amount |-> 2]}

\* Everything is there but assignments and records.
SetUp ==
  /\ project = [p \in Projects |-> "draft"]
  /\ site = [s \in SiteIds |-> "active"]
  /\ engineers = Engineers
  /\ assignment = <<>> /\ granted = {}
  /\ mreq = [r \in ManageReq |-> ManageIdle]
  /\ materials = Materials
  /\ labour = <<>> /\ movement = <<>> /\ expense = <<>>
  /\ rreq = [r \in RecordReq |-> RecordIdle]
  /\ freq = [r \in FigureReq |-> FigureIdle]

MCInit ==
  \/ scene = "assign" /\ FiguresInit
  \/ scene \in {"record", "figures"} /\ SetUp

\* Bounds of the scenes: in "record" nobody edits a project or a site, one row
\* on one day is enough, and c2 and the admin rest; in "figures" all records are
\* the admin's, s2 has expenses only, material is purchased and all reports are
\* on p1.
InRecord ==
  /\ Len(labour') + Len(movement') + Len(expense') <= 1
  /\ mreq'[g2].pc = "idle" /\ mreq'[g1].pc \notin {"project", "site"}
  /\ \A r \in RecordReq :
       rreq'[r].pc \in {"insertLabour", "findMaterial", "insertExpense", "mayEdit"} =>
         rreq'[r].row.day = 1
  /\ \A r \in RecordReq :
       /\ rreq'[r].pc = "mayEdit" => rreq'[r].user \in {e1, c1}
       /\ rreq'[r].pc \in {"findMaterial", "insertExpense"} => rreq'[r].row.by \in {e1, c1}

InFigures ==
  /\ \A r \in RecordReq :
       /\ rreq'[r].pc \in {"findMaterial", "insertExpense"} => rreq'[r].row.by = Admin
       /\ rreq'[r].pc = "findMaterial" => rreq'[r].row.body.type = "purchase"
       /\ rreq'[r].pc = "mayEdit" => rreq'[r].user = Admin
       /\ rreq'[r].pc = "insertExpense" => rreq'[r].row.day = 1
       /\ rreq'[r].pc \in {"findMaterial", "insertLabour"} => rreq'[r].row.site = s1
  /\ \A r \in FigureReq : freq'[r].pc = "sites" => freq'[r].project = p1

MCNext ==
  /\ UNCHANGED scene
  /\ \/ scene = "assign" /\ SitesNext /\ UNCHANGED <<recordVars, freq>>
     \/ scene = "record" /\ SiteWorkNext /\ InRecord /\ UNCHANGED freq
     \/ scene = "figures" /\ FiguresNext /\ InFigures /\ UNCHANGED siteVars

MCSpec == MCInit /\ [][MCNext]_<<scene, figureVars>>
=============================================================================
