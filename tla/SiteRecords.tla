----------------------------- MODULE SiteRecords -----------------------------
(***************************************************************************)
(* What is booked on a site: labour (AttendanceService), material          *)
(* movements (MaterialsService) and expenses (ExpensesService).            *)
(*                                                                         *)
(* Each service first asks whether the user may work on the site, by the   *)
(* assignments and the ownership of Sites, and inserts or saves some       *)
(* awaits later.  Rows are never deleted.  Costs are computed here, in     *)
(* whole units; remarks, suppliers and attachments are left out.           *)
(***************************************************************************)
EXTENDS Sites

CONSTANTS
  Days,             \* numbers, in the order of dates
  Materials,        \* the catalogue
  Labours,          \* bodies of a labour record
  Movements,        \* bodies of a material transaction
  Expenses,         \* bodies of an expense
  RequestStatuses,  \* what an answer to a material request may store
  Admin,            \* the user who may work on every site
  RecordReq,        \* handlers of these services that can be in flight together
  MaxRows           \* bound: rows ever inserted

ASSUME RecordsAssumption ==
  /\ Days \subseteq Nat
  /\ Labours \subseteq [category : STRING, headcount : Nat, dailyWage : Nat,
                        overtimeHours : Nat, overtimeRate : Nat]
  /\ Movements \subseteq [material : Materials,
                          type : {"purchase", "request", "issue", "consumption", "return"},
                          quantity : Nat, rate : Nat]
  /\ Expenses \subseteq [category : STRING, amount : Nat]
  /\ Admin \notin Engineers \cup Contractors
  /\ MaxRows \in Nat

VARIABLES
  materials,  \* rows of the catalogue
  labour,     \* labour_records; an id is a position, here and below
  movement,   \* material_transactions
  expense,    \* expenses
  rreq        \* what each handler holds

recordVars == <<materials, labour, movement, expense, rreq>>

Users == Engineers \cup Contractors \cup {Admin}

LabourRow == [site : SiteIds, day : Days, body : Labours, cost : Nat]
MovementRow ==
  [site : SiteIds, day : Days, by : Users, body : Movements, cost : Nat,
   status : {"none", "pending"} \cup RequestStatuses]
ExpenseRow ==
  [site : SiteIds, by : Users, day : Days, category : {b.category : b \in Expenses},
   amount : {b.amount : b \in Expenses}]

\* The columns of an expense that an edit may change.
ExpenseColumns == {"day", "category", "amount"}

RecordIdle == [pc |-> "idle"]

RecordFrame ==
  [pc : {"idle"}]
    \cup [pc : {"insertLabour"}, row : LabourRow]
    \cup [pc : {"findMaterial", "insertMovement"}, row : MovementRow]
    \cup [pc : {"insertExpense"}, row : ExpenseRow]
    \cup [pc : {"mayEdit"}, id : DOMAIN expense, row : ExpenseRow, user : Users]
    \cup [pc : {"expense", "expenseWrite"}, id : DOMAIN expense, row : ExpenseRow,
          diff : SUBSET ExpenseColumns]
    \cup [pc : {"status", "statusWrite"}, id : DOMAIN movement, status : RequestStatuses]

RecordsTypeOK ==
  /\ materials \in SUBSET Materials
  /\ labour \in Seq(LabourRow)
  /\ movement \in Seq(MovementRow)
  /\ expense \in Seq(ExpenseRow)
  /\ rreq \in [RecordReq -> RecordFrame]

RecordsInit ==
  /\ materials = {}
  /\ labour = <<>> /\ movement = <<>> /\ expense = <<>>
  /\ rreq = [r \in RecordReq |-> RecordIdle]

-----------------------------------------------------------------------------
RecordGoto(r, frame) == rreq' = [rreq EXCEPT ![r] = frame]

\* Wrong on purpose: an engineer passes with any assignment of his, as if
\* siteId were missing from the search.
MayWorkSomewhere(u, s) ==
  /\ site[s] # "none"
  /\ u \in Engineers => \E t \in SiteIds : Assigned(u, t)
  /\ u \in Contractors => Owns(u, s)

\* The foreign key of every row asks for the site, the services for access to
\* it: an engineer needs an active assignment, a contractor the project.
MayWork(u, s) ==
  /\ site[s] # "none"
  /\ u \in Engineers => Assigned(u, s)
  /\ u \in Contractors => Owns(u, s)

\* Wrong on purpose: overtime is taken off.
LabourCostLess(b) == b.headcount * b.dailyWage - b.overtimeHours * b.overtimeRate

LabourCost(b) == b.headcount * b.dailyWage + b.overtimeHours * b.overtimeRate

Begin(r, u, s, frame) ==
  /\ rreq[r].pc = "idle"
  /\ MayWork(u, s)
  /\ RecordGoto(r, frame)
  /\ UNCHANGED <<materials, labour, movement, expense>>

BeginLabour(r, u, s, d, b) ==
  Begin(r, u, s, [pc |-> "insertLabour",
                  row |-> [site |-> s, day |-> d, body |-> b, cost |-> LabourCost(b)]])

BeginMovement(r, u, s, d, b) ==
  Begin(r, u, s, [pc |-> "findMaterial",
                  row |-> [site |-> s, day |-> d, by |-> u, body |-> b,
                           cost |-> b.quantity * b.rate,
                           status |-> IF b.type = "request" THEN "pending" ELSE "none"]])

BeginExpense(r, u, s, d, b) ==
  Begin(r, u, s, [pc |-> "insertExpense",
                  row |-> [site |-> s, by |-> u, day |-> d, category |-> b.category,
                           amount |-> b.amount]])

HasRoom == Len(labour) + Len(movement) + Len(expense) < MaxRows

InsertLabour(r) ==
  /\ rreq[r].pc = "insertLabour" /\ HasRoom
  /\ labour' = Append(labour, rreq[r].row)
  /\ RecordGoto(r, RecordIdle)
  /\ UNCHANGED <<materials, movement, expense>>

CreateMaterial(m) ==
  /\ materials' = materials \cup {m}
  /\ UNCHANGED <<labour, movement, expense, rreq>>

FindMaterial(r) ==
  /\ rreq[r].pc = "findMaterial"
  /\ RecordGoto(r, IF rreq[r].row.body.material \in materials
                     THEN [rreq[r] EXCEPT !.pc = "insertMovement"] ELSE RecordIdle)
  /\ UNCHANGED <<materials, labour, movement, expense>>

InsertMovement(r) ==
  /\ rreq[r].pc = "insertMovement" /\ HasRoom
  /\ movement' = Append(movement, rreq[r].row)
  /\ RecordGoto(r, RecordIdle)
  /\ UNCHANGED <<materials, labour, expense>>

InsertExpense(r) ==
  /\ rreq[r].pc = "insertExpense" /\ HasRoom
  /\ expense' = Append(expense, rreq[r].row)
  /\ RecordGoto(r, RecordIdle)
  /\ UNCHANGED <<materials, labour, movement>>

-----------------------------------------------------------------------------
\* updateExpense: the row, then access to its site, the columns of the body,
\* and a save that writes the columns that differ from the row by then.
BeginEditExpense(r, u, i, new) ==
  /\ rreq[r].pc = "idle"
  /\ RecordGoto(r, [pc |-> "mayEdit", id |-> i, user |-> u,
                    row |-> [c \in DOMAIN expense[i] |->
                               IF c \in DOMAIN new THEN new[c] ELSE expense[i][c]]])
  /\ UNCHANGED <<materials, labour, movement, expense>>

MayEditExpense(r) ==
  /\ rreq[r].pc = "mayEdit"
  /\ LET q == rreq[r] IN
     RecordGoto(r, IF MayWork(q.user, q.row.site)
                     THEN [pc |-> "expense", id |-> q.id, row |-> q.row, diff |-> {}]
                     ELSE RecordIdle)
  /\ UNCHANGED <<materials, labour, movement, expense>>

SaveReadExpense(r) ==
  /\ rreq[r].pc = "expense"
  /\ LET q == rreq[r]
         diff == {c \in ExpenseColumns : q.row[c] # expense[q.id][c]}
     IN RecordGoto(r, IF diff = {} THEN RecordIdle
                      ELSE [q EXCEPT !.pc = "expenseWrite", !.diff = diff])
  /\ UNCHANGED <<materials, labour, movement, expense>>

SaveWriteExpense(r) ==
  /\ rreq[r].pc = "expenseWrite"
  /\ LET q == rreq[r] IN
     expense' = [expense EXCEPT ![q.id] =
                   [c \in DOMAIN @ |-> IF c \in q.diff THEN q.row[c] ELSE @[c]]]
  /\ RecordGoto(r, RecordIdle)
  /\ UNCHANGED <<materials, labour, movement>>

\* updateRequestStatus: a request gets any status of the body, whatever it had.
BeginStatus(r, i, status) ==
  /\ rreq[r].pc = "idle"
  /\ movement[i].body.type = "request"
  /\ RecordGoto(r, [pc |-> "status", id |-> i, status |-> status])
  /\ UNCHANGED <<materials, labour, movement, expense>>

SaveReadStatus(r) ==
  /\ rreq[r].pc = "status"
  /\ LET q == rreq[r] IN
     RecordGoto(r, IF movement[q.id].status = q.status THEN RecordIdle
                   ELSE [q EXCEPT !.pc = "statusWrite"])
  /\ UNCHANGED <<materials, labour, movement, expense>>

SaveWriteStatus(r) ==
  /\ rreq[r].pc = "statusWrite"
  /\ movement' = [movement EXCEPT ![rreq[r].id].status = rreq[r].status]
  /\ RecordGoto(r, RecordIdle)
  /\ UNCHANGED <<materials, labour, expense>>

\* A repository call rejects, or the process dies.
AbortRecord(r) ==
  /\ Faults
  /\ rreq[r].pc # "idle"
  /\ RecordGoto(r, RecordIdle)
  /\ UNCHANGED <<materials, labour, movement, expense>>

-----------------------------------------------------------------------------
RecordArrives(r) ==
  \/ \E u \in Users, s \in SiteIds, d \in Days :
       \/ \E b \in Labours : BeginLabour(r, u, s, d, b)
       \/ \E b \in Movements : BeginMovement(r, u, s, d, b)
       \/ \E b \in Expenses : BeginExpense(r, u, s, d, b)
  \/ \E u \in Users, i \in DOMAIN expense :
       \/ \E d \in Days : BeginEditExpense(r, u, i, [day |-> d])
       \/ \E b \in Expenses : BeginEditExpense(r, u, i, b)
  \/ \E i \in DOMAIN movement, status \in RequestStatuses : BeginStatus(r, i, status)

RecordContinues(r) ==
  \/ InsertLabour(r) \/ FindMaterial(r) \/ InsertMovement(r) \/ InsertExpense(r)
  \/ MayEditExpense(r) \/ SaveReadExpense(r) \/ SaveWriteExpense(r)
  \/ SaveReadStatus(r) \/ SaveWriteStatus(r)

RecordsNext ==
  \/ \E m \in Materials : CreateMaterial(m)
  \/ \E r \in RecordReq : RecordArrives(r) \/ RecordContinues(r) \/ AbortRecord(r)

\* The two parts share no handler: a step is one of theirs.
SiteWorkInit == SitesInit /\ RecordsInit
SiteWorkNext ==
  \/ SitesNext /\ UNCHANGED recordVars
  \/ RecordsNext /\ UNCHANGED siteVars

SiteWorkSpec == SiteWorkInit /\ [][SiteWorkNext]_<<siteVars, recordVars>>

-----------------------------------------------------------------------------
\* What an engineer booked is on a site he was assigned to at some time: access
\* is asked for before the insert, and an assignment may be removed between
\* them, but its row stays.
RecordsHaveAssignment ==
  \A row \in {movement[i] : i \in DOMAIN movement} \cup {expense[i] : i \in DOMAIN expense} :
    row.by \in Engineers =>
      \E i \in DOMAIN assignment :
        assignment[i].site = row.site /\ assignment[i].engineer = row.by
=============================================================================
