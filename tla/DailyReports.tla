---------------------------- MODULE DailyReports ----------------------------
(***************************************************************************)
(* The daily report of a construction site: ReportsService creates, edits, *)
(* submits and reviews it and records progress into it; the legacy route   *)
(* of SitesService inserts one from the client's own figures.              *)
(*                                                                         *)
(* The money columns are integers (the smallest currency unit).  booked    *)
(* stands for totalLabourCost + totalMaterialCost + totalExpense: every    *)
(* handler that assigns one of the three assigns all three, from the sums  *)
(* over the labour records, material transactions and expenses of the day, *)
(* which other services change at any time.  Progress, texts and           *)
(* attachments steer nothing and are left out.                             *)
(*                                                                         *)
(* A save is two round trips (see Server).  PostgreSQL returns decimals as *)
(* strings, so a money column the handler assigned a number to may count   *)
(* as changed even when the amounts are equal.                             *)
(***************************************************************************)
EXTENDS Server, Integers, Sequences

CONSTANTS
  Days,        \* pairs of a site and a date
  Amounts,     \* amounts of money that are entered or booked
  Req,         \* handlers of daily reports that can be in flight together
  MaxReports   \* bound: reports ever inserted

ASSUME AmountsAssumption == Amounts \subseteq Int
ASSUME MaxReportsAssumption == MaxReports \in Nat

VARIABLES
  books,         \* what is booked for a day right now
  report,        \* the daily_reports table; an id is a position
  everSubmitted, \* history: ids of reports that were stored as submitted
  overtaken,     \* history: requests whose save another one wrote under, between
                 \* its two halves, or whose entity is that of a raced report
  raced,         \* history: ids of reports whose last save was overtaken
  req            \* what each request holds

vars == <<books, report, everSubmitted, overtaken, raced, req>>

Status == {"draft", "submitted", "reviewed"}

Row == [day : Days, status : Status, booked : Int, other : Int, total : Int,
        revenue : Int, profit : Int]

Money == {"booked", "other", "total", "revenue", "profit"}
Columns == Money \cup {"status"}

\* id: the loaded row; row: the entity; assigned: money columns the handler
\* assigned a number to; dirty: what the select of the save found different.
Idle == [pc |-> "idle"]

Frame ==
  [pc : {"idle"}]
    \cup [pc : {"find", "findProgress", "costNew"}, day : Days, other : Int,
          revenue : Int]
    \cup [pc : {"insert"}, row : Row]
    \cup [pc : {"cost", "save", "write"}, id : Nat \ {0}, row : Row,
          assigned : SUBSET Money, dirty : SUBSET Columns]

HasRow(q) == q.pc \in {"cost", "save", "write"}

TypeOK ==
  /\ books \in [Days -> Int]
  /\ report \in Seq(Row)
  /\ everSubmitted \in SUBSET (DOMAIN report)
  /\ overtaken \in SUBSET Req
  /\ raced \in SUBSET (DOMAIN report)
  /\ req \in [Req -> Frame]
  /\ \A r \in Req : HasRow(req[r]) => req[r].id \in DOMAIN report

Init ==
  /\ books = [d \in Days |-> 0]
  /\ report = <<>>
  /\ everSubmitted = {}
  /\ overtaken = {}
  /\ raced = {}
  /\ req = [r \in Req |-> Idle]

-----------------------------------------------------------------------------
Goto(r, frame) == req' = [req EXCEPT ![r] = frame]

\* Wrong on purpose: the other costs are left out.
RecomputedWithoutOther(row) ==
  [row EXCEPT !.total = row.booked, !.profit = row.revenue - row.booked]

\* totalDailyCost and estimatedProfit as every handler of ReportsService
\* computes them from the other columns of its entity.
Recomputed(row) ==
  LET total == row.booked + row.other IN
  [row EXCEPT !.total = total, !.profit = row.revenue - total]

\* Wrong on purpose: the status has no default.
DraftWithoutStatus(d, booked, other, revenue) ==
  Recomputed([day |-> d, status |-> "none", booked |-> booked,
              other |-> other, total |-> 0, revenue |-> revenue,
              profit |-> 0])

Draft(d, booked, other, revenue) ==
  Recomputed([day |-> d, status |-> "draft", booked |-> booked,
              other |-> other, total |-> 0, revenue |-> revenue,
              profit |-> 0])

\* createLabourRecord, createTransaction, createExpense and updateExpense move
\* the sums of the day: an edited expense also downwards.
Book(d, amount) ==
  /\ books' = [books EXCEPT ![d] = amount]
  /\ UNCHANGED <<report, everSubmitted, overtaken, raced, req>>

\* SitesService.createDailyReport: figures from the body, no lookup.
InsertLegacyReport(d, row) ==
  /\ Len(report) < MaxReports
  /\ report' = Append(report, row)
  /\ UNCHANGED <<books, everSubmitted, overtaken, raced, req>>

\* estimatedProfit may come from the body too.
CreateLegacyReport(d, booked, other, revenue) ==
  LET row == Draft(d, booked, other, revenue) IN
  \/ InsertLegacyReport(d, row)
  \/ \E profit \in Amounts :
       InsertLegacyReport(d, [row EXCEPT !.profit = profit])

\* createDailyReport: lookup, cost queries, insert.
BeginCreate(r, d, other, revenue) ==
  /\ req[r].pc = "idle"
  /\ Goto(r, [pc |-> "find", day |-> d, other |-> other, revenue |-> revenue])
  /\ UNCHANGED <<books, report, everSubmitted, overtaken, raced>>

ReportsOf(d) == {i \in DOMAIN report : report[i].day = d}

FindReport(r) ==
  /\ req[r].pc = "find"
  /\ Goto(r, IF ReportsOf(req[r].day) = {}
               THEN [req[r] EXCEPT !.pc = "costNew"] ELSE Idle)
  /\ UNCHANGED <<books, report, everSubmitted, overtaken, raced>>

\* The three sums for a report that does not exist yet.
CostNewReport(r) ==
  /\ req[r].pc = "costNew"
  /\ LET q == req[r] IN
     Goto(r, [pc |-> "insert", row |-> Draft(q.day, books[q.day], q.other, q.revenue)])
  /\ UNCHANGED <<books, report, everSubmitted, overtaken, raced>>

InsertReport(r) ==
  /\ req[r].pc = "insert"
  /\ Len(report) < MaxReports
  /\ report' = Append(report, req[r].row)
  /\ Goto(r, Idle)
  /\ UNCHANGED <<books, everSubmitted, overtaken, raced>>

\* recordProgress: the report of the day, whatever its status, or a new one
\* without other costs and revenue.
BeginProgress(r, d) ==
  /\ req[r].pc = "idle"
  /\ Goto(r, [pc |-> "findProgress", day |-> d, other |-> 0, revenue |-> 0])
  /\ UNCHANGED <<books, report, everSubmitted, overtaken, raced>>

FindProgressReport(r) ==
  /\ req[r].pc = "findProgress"
  /\ \/ /\ ReportsOf(req[r].day) = {}
        /\ Goto(r, [req[r] EXCEPT !.pc = "costNew"])
     \/ \E i \in ReportsOf(req[r].day) :
          Goto(r, [pc |-> "cost", id |-> i, row |-> report[i],
                   assigned |-> {}, dirty |-> {}])
  /\ UNCHANGED <<books, report, everSubmitted, overtaken, raced>>

\* The three sums for the loaded report (recordProgress and submission).  The
\* submission notifies contractor and admins here, before its save.
CostReport(r) ==
  /\ req[r].pc = "cost"
  /\ LET q == req[r] IN
     Goto(r, [q EXCEPT !.pc = "save",
                       !.row = Recomputed([q.row EXCEPT !.booked = books[q.row.day]]),
                       !.assigned = {"booked", "total", "profit"}])
  /\ UNCHANGED <<books, report, everSubmitted, overtaken, raced>>

\* updateDailyReport: load, the check on a reviewed report, the figures the
\* body gives.
Edited(row, given, new) ==
  Recomputed([row EXCEPT
    !.other = IF "other" \in given THEN new.other ELSE row.other,
    !.revenue = IF "revenue" \in given THEN new.revenue ELSE row.revenue])

BeginUpdate(r, i, given, new) ==
  /\ req[r].pc = "idle"
  /\ report[i].status # "reviewed"
  /\ Goto(r, [pc |-> "save", id |-> i, row |-> Edited(report[i], given, new),
              assigned |-> {"total", "profit"} \cup given, dirty |-> {}])
  /\ UNCHANGED <<books, report, everSubmitted, overtaken, raced>>

\* updateReportStatus to submitted: only a draft; the costs are read next.
BeginSubmit(r, i) ==
  /\ req[r].pc = "idle"
  /\ report[i].status = "draft"
  /\ Goto(r, [pc |-> "cost", id |-> i,
              row |-> [report[i] EXCEPT !.status = "submitted"],
              assigned |-> {}, dirty |-> {}])
  /\ UNCHANGED <<books, report, everSubmitted, overtaken, raced>>

\* Wrong on purpose: only a report that is reviewed already is refused.
BeginReviewUnlessReviewed(r, i) ==
  /\ req[r].pc = "idle"
  /\ report[i].status # "reviewed"
  /\ Goto(r, [pc |-> "save", id |-> i,
              row |-> [report[i] EXCEPT !.status = "reviewed"],
              assigned |-> {}, dirty |-> {}])
  /\ overtaken' = IF i \in raced THEN overtaken \cup {r} ELSE overtaken
  /\ UNCHANGED <<books, report, everSubmitted, raced>>

\* updateReportStatus to reviewed: only a submitted report.
BeginReview(r, i) ==
  /\ req[r].pc = "idle"
  /\ report[i].status = "submitted"
  /\ Goto(r, [pc |-> "save", id |-> i,
              row |-> [report[i] EXCEPT !.status = "reviewed"],
              assigned |-> {}, dirty |-> {}])
  /\ overtaken' = IF i \in raced THEN overtaken \cup {r} ELSE overtaken
  /\ UNCHANGED <<books, report, everSubmitted, raced>>

\* First half of save: the columns in which the entity differs from the row as
\* it is now, and perhaps the assigned money columns.
SaveRead(r) ==
  /\ req[r].pc = "save"
  /\ LET q == req[r]
         differ == {k \in Columns : q.row[k] # report[q.id][k]}
     IN \E extra \in {{}, q.assigned} :
          Goto(r, [q EXCEPT !.pc = "write", !.dirty = differ \cup extra])
  /\ UNCHANGED <<books, report, everSubmitted, overtaken, raced>>

\* Second half of save.
Column(k, q, mine, theirs) == IF k \in q.dirty THEN mine ELSE theirs

Saved(q, old) ==
  [day |-> old.day,
   status |-> Column("status", q, q.row.status, old.status),
   booked |-> Column("booked", q, q.row.booked, old.booked),
   other |-> Column("other", q, q.row.other, old.other),
   total |-> Column("total", q, q.row.total, old.total),
   revenue |-> Column("revenue", q, q.row.revenue, old.revenue),
   profit |-> Column("profit", q, q.row.profit, old.profit)]

SaveWrite(r) ==
  /\ req[r].pc = "write"
  /\ LET q == req[r]
         new == Saved(q, report[q.id])
     IN /\ report' = [report EXCEPT ![q.id] = new]
        /\ everSubmitted' = IF new.status = "submitted"
                              THEN everSubmitted \cup {q.id} ELSE everSubmitted
        /\ raced' = IF r \in overtaken THEN raced \cup {q.id} ELSE raced \ {q.id}
        /\ overtaken' = (overtaken \ {r}) \cup
             (IF new = report[q.id] THEN {}
                ELSE {s \in Req \ {r} : req[s].pc = "write" /\ req[s].id = q.id})
  /\ Goto(r, Idle)
  /\ UNCHANGED books

\* A repository call rejects, or the process dies.
Abort(r) ==
  /\ Faults
  /\ req[r].pc # "idle"
  /\ Goto(r, Idle)
  /\ overtaken' = overtaken \ {r}
  /\ UNCHANGED <<books, report, everSubmitted, raced>>

Arrives(r) ==
  \/ \E d \in Days :
       \/ BeginProgress(r, d)
       \/ \E other, revenue \in Amounts : BeginCreate(r, d, other, revenue)
  \/ \E i \in DOMAIN report :
       \/ BeginSubmit(r, i) \/ BeginReview(r, i)
       \/ \E given \in SUBSET {"other", "revenue"},
             new \in [other : Amounts, revenue : Amounts] :
            BeginUpdate(r, i, given, new)

Continues(r) ==
  \/ FindReport(r) \/ CostNewReport(r) \/ InsertReport(r)
  \/ FindProgressReport(r) \/ CostReport(r) \/ SaveRead(r) \/ SaveWrite(r)

Next ==
  \/ \E r \in Req : Arrives(r) \/ Continues(r) \/ Abort(r)
  \/ \E d \in Days :
       \/ \E amount \in Amounts : Book(d, amount)
       \/ \E booked, other, revenue \in Amounts :
            CreateLegacyReport(d, booked, other, revenue)

Spec == Init /\ [][Next]_vars

-----------------------------------------------------------------------------
\* Only a report that was submitted is ever reviewed, in the row and in every
\* entity on its way into it, although each save may carry an old status.
ReviewedWasSubmitted ==
  \A i \in DOMAIN report : report[i].status = "reviewed" => i \in everSubmitted

\* "Daily Project Cost = Labour + Material + Expense + Other", in every report.
\* Two saves that overlap break it.
TotalIsSum ==
  \A i \in DOMAIN report : report[i].total = report[i].booked + report[i].other

\* They alone do, and not for good: however old the entities are that overlapping
\* requests save, a save that no other one wrote under leaves the sum right, in a
\* report that was raced before too, unless it is the review of one that was.
TotalIsSumUnlessRaced ==
  \A i \in DOMAIN report :
    i \notin raced => report[i].total = report[i].booked + report[i].other
=============================================================================
