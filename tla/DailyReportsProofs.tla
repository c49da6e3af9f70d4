------------------------- MODULE DailyReportsProofs -------------------------
\* Theorems about DailyReports, for any days, amounts, requests and faults.
EXTENDS DailyReports, TLAPS

-----------------------------------------------------------------------------
\* A frame that works on a loaded row is of the last kind, the only one with
\* an id.
LEMMA FrameKinds ==
  ASSUME NEW q \in Frame
  PROVE  /\ q.pc = "insert" => q \in [pc : {"insert"}, row : Row]
         /\ q.pc \in {"find", "findProgress", "costNew"} =>
              q \in [pc : {"find", "findProgress", "costNew"}, day : Days,
                     other : Int, revenue : Int]
         /\ HasRow(q) =>
              q \in [pc : {"cost", "save", "write"}, id : Nat \ {0}, row : Row,
                     assigned : SUBSET Money, dirty : SUBSET Columns]
  BY DEF Frame, HasRow

\* Recomputing keeps a row a row, whatever the amounts.
LEMMA RecomputedIsRow ==
  ASSUME NEW row \in Row
  PROVE  /\ Recomputed(row) \in Row
         /\ Recomputed(row).status = row.status
         /\ Recomputed(row).total = Recomputed(row).booked + Recomputed(row).other
<1> DEFINE total == row.booked + row.other
           profit == row.revenue - total
<1>1. total \in Int /\ profit \in Int
  BY DEF Row
<1>2. Recomputed(row) = [row EXCEPT !.total = total, !.profit = profit]
  BY DEF Recomputed
<1> HIDE DEF profit
<1>3. Recomputed(row) \in Row
  BY <1>1, <1>2 DEF Row
<1>4. /\ Recomputed(row).status = row.status
      /\ Recomputed(row).booked = row.booked
      /\ Recomputed(row).other = row.other
      /\ Recomputed(row).total = total
  BY <1>1, <1>2 DEF Row
<1> QED
  BY <1>3, <1>4

\* What createDailyReport and the legacy route insert is a draft whose total and
\* profit follow from the figures it was given.
LEMMA DraftIsRow ==
  ASSUME NEW d \in Days, NEW b \in Int, NEW o \in Int, NEW v \in Int
  PROVE  /\ Draft(d, b, o, v) \in Row
         /\ Draft(d, b, o, v).status = "draft"
         /\ Draft(d, b, o, v).total = Draft(d, b, o, v).booked + Draft(d, b, o, v).other
<1> DEFINE blank == [day |-> d, status |-> "draft", booked |-> b, other |-> o,
                     total |-> 0, revenue |-> v, profit |-> 0]
<1>1. blank \in Row /\ blank.status = "draft"
  BY DEF Row, Status
<1>2. Draft(d, b, o, v) = Recomputed(blank)
  BY DEF Draft
<1> HIDE DEF blank
<1> QED
  BY <1>1, <1>2, RecomputedIsRow

\* An edit keeps the status, whatever figures the body gives, and its total is
\* the sum again.
LEMMA EditedIsRow ==
  ASSUME NEW row \in Row, NEW given \in SUBSET {"other", "revenue"},
         NEW new \in [other : Amounts, revenue : Amounts]
  PROVE  /\ Edited(row, given, new) \in Row
         /\ Edited(row, given, new).status = row.status
         /\ Edited(row, given, new).total =
              Edited(row, given, new).booked + Edited(row, given, new).other
<1> DEFINE base == [row EXCEPT
             !.other = IF "other" \in given THEN new.other ELSE row.other,
             !.revenue = IF "revenue" \in given THEN new.revenue ELSE row.revenue]
<1>1. base \in Row /\ base.status = row.status
  BY AmountsAssumption DEF Row
<1>2. Edited(row, given, new) = Recomputed(base)
  BY DEF Edited
<1> HIDE DEF base
<1> QED
  BY <1>1, <1>2, RecomputedIsRow

\* The row after the second half of a save is a row: every column comes from the
\* entity or from the row as it was.
LEMMA SavedIsRow ==
  ASSUME NEW old \in Row,
         NEW q \in [pc : {"cost", "save", "write"}, id : Nat \ {0}, row : Row,
                    assigned : SUBSET Money, dirty : SUBSET Columns]
  PROVE  Saved(q, old) \in Row
  BY DEF Saved, Column, Row, Status
-----------------------------------------------------------------------------
\* The strengthening of ReviewedWasSubmitted: an old status that a save carries
\* back may be "reviewed" only for a report that was submitted before.
Harmless(f) ==
  /\ HasRow(f) /\ f.row.status = "reviewed" => f.id \in everSubmitted
  /\ f.pc = "insert" => f.row.status = "draft"

ReviewInv ==
  /\ TypeOK
  /\ \A i \in DOMAIN report : report[i].status # "draft" => i \in everSubmitted
  /\ \A r \in Req : Harmless(req[r])

\* A handler that has answered holds nothing.
LEMMA IdleFrame == Idle \in Frame /\ ~HasRow(Idle) /\ Harmless(Idle)
  BY DEF Idle, Frame, HasRow, Harmless

\* A step that only gives request r the frame f keeps the invariant if f is
\* well formed and works on an existing report it may carry the status of.
LEMMA GotoKeepsReview ==
  ASSUME ReviewInv, NEW r \in Req, NEW f \in Frame, Goto(r, f),
         HasRow(f) => f.id \in DOMAIN report, Harmless(f),
         overtaken' \subseteq overtaken \cup {r},
         UNCHANGED <<books, report, everSubmitted, raced>>
  PROVE  ReviewInv'
<1>1. req' \in [Req -> Frame] /\ \A s \in Req : req'[s] = IF s = r THEN f ELSE req[s]
  BY DEF ReviewInv, TypeOK, Goto
<1>2. TypeOK'
  BY <1>1 DEF ReviewInv, TypeOK, HasRow
<1> QED
  BY <1>1, <1>2 DEF ReviewInv, Harmless, HasRow

\* A row added to the table gets a new id and changes no other.
LEMMA InsertKeepsReview ==
  ASSUME ReviewInv, NEW row \in Row, row.status = "draft",
         report' = Append(report, row), req' \in [Req -> Frame],
         \A r \in Req : req'[r] \in {req[r], Idle},
         UNCHANGED <<books, everSubmitted, overtaken, raced>>
  PROVE  ReviewInv'
<1>1. /\ report' \in Seq(Row)
      /\ DOMAIN report \subseteq DOMAIN report'
      /\ \A i \in DOMAIN report' :
           IF i \in DOMAIN report THEN report'[i] = report[i] ELSE report'[i] = row
  BY DEF ReviewInv, TypeOK
<1>2. TypeOK'
  BY <1>1, IdleFrame DEF ReviewInv, TypeOK, HasRow
<1>3. \A r \in Req : Harmless(req'[r])
  BY IdleFrame DEF ReviewInv
<1> QED
  BY <1>1, <1>2, <1>3 DEF ReviewInv, Harmless

\* The empty table, with no request in flight, satisfies the invariant.
LEMMA ReviewInit == Init => ReviewInv
  BY IdleFrame DEF Init, ReviewInv, TypeOK

\* No step of any handler breaks the invariant.
LEMMA ReviewStep == ReviewInv /\ [Next]_vars => ReviewInv'
<1> SUFFICES ASSUME ReviewInv, [Next]_vars PROVE ReviewInv'
  OBVIOUS
<1> USE FrameKinds, IdleFrame
<1>1. ASSUME NEW r \in Req, Arrives(r) PROVE ReviewInv'
  <2>1. ASSUME NEW d \in Days, BeginProgress(r, d) PROVE ReviewInv'
    <3> DEFINE f == [pc |-> "findProgress", day |-> d, other |-> 0, revenue |-> 0]
    <3>1. f \in Frame /\ Harmless(f) /\ ~HasRow(f)
      BY DEF Frame, HasRow, Harmless
    <3> QED
      BY <2>1, <3>1, GotoKeepsReview DEF BeginProgress
  <2>2. ASSUME NEW d \in Days, NEW other \in Amounts, NEW revenue \in Amounts,
               BeginCreate(r, d, other, revenue)
        PROVE  ReviewInv'
    <3> DEFINE f == [pc |-> "find", day |-> d, other |-> other, revenue |-> revenue]
    <3>1. f \in Frame /\ Harmless(f) /\ ~HasRow(f)
      BY AmountsAssumption DEF Frame, HasRow, Harmless
    <3> QED
      BY <2>2, <3>1, GotoKeepsReview DEF BeginCreate
  <2>3. ASSUME NEW i \in DOMAIN report, BeginSubmit(r, i) PROVE ReviewInv'
    <3> DEFINE f == [pc |-> "cost", id |-> i,
                     row |-> [report[i] EXCEPT !.status = "submitted"],
                     assigned |-> {}, dirty |-> {}]
    <3>1. report[i] \in Row /\ i \in Nat \ {0}
      BY DEF ReviewInv, TypeOK
    <3>2. f \in Frame /\ f.id = i /\ Harmless(f)
      BY <3>1 DEF Frame, Row, Status, Harmless
    <3> QED
      BY <2>3, <3>2, GotoKeepsReview DEF BeginSubmit
  <2>4. ASSUME NEW i \in DOMAIN report, BeginReview(r, i) PROVE ReviewInv'
    <3> DEFINE f == [pc |-> "save", id |-> i,
                     row |-> [report[i] EXCEPT !.status = "reviewed"],
                     assigned |-> {}, dirty |-> {}]
    <3>1. report[i] \in Row /\ i \in Nat \ {0} /\ i \in everSubmitted
      BY <2>4 DEF ReviewInv, TypeOK, BeginReview
    <3>2. f \in Frame /\ f.id = i /\ Harmless(f)
      BY <3>1 DEF Frame, Row, Status, Harmless
    <3> QED
      BY <2>4, <3>1, <3>2, GotoKeepsReview DEF BeginReview
  <2>5. ASSUME NEW i \in DOMAIN report,
               NEW given \in SUBSET {"other", "revenue"},
               NEW new \in [other : Amounts, revenue : Amounts],
               BeginUpdate(r, i, given, new)
        PROVE  ReviewInv'
    <3> DEFINE f == [pc |-> "save", id |-> i, row |-> Edited(report[i], given, new),
                     assigned |-> {"total", "profit"} \cup given, dirty |-> {}]
    <3>1. report[i] \in Row /\ i \in Nat \ {0} /\ report[i].status # "reviewed"
      BY <2>5 DEF ReviewInv, TypeOK, BeginUpdate
    <3>2. /\ Edited(report[i], given, new) \in Row
          /\ Edited(report[i], given, new).status # "reviewed"
      BY <3>1, EditedIsRow
    <3>5. f \in Frame /\ f.id = i /\ Harmless(f)
      BY <3>1, <3>2 DEF Frame, Money, Columns, Harmless
    <3>6. Goto(r, f) /\ UNCHANGED <<books, report, everSubmitted, overtaken, raced>>
      BY <2>5 DEF BeginUpdate
    <3> HIDE DEF f
    <3> QED
      BY <3>5, <3>6, GotoKeepsReview
  <2> QED
    BY <1>1, <2>1, <2>2, <2>3, <2>4, <2>5 DEF Arrives
<1>2. ASSUME NEW r \in Req, Continues(r) PROVE ReviewInv'
  <2> req[r] \in Frame /\ req \in [Req -> Frame]
    BY DEF ReviewInv, TypeOK
  <2>1. CASE FindReport(r)
    <3> DEFINE f == [req[r] EXCEPT !.pc = "costNew"]
    <3>1. f \in Frame /\ Harmless(f) /\ ~HasRow(f)
      BY <2>1 DEF FindReport, Frame, HasRow, Harmless
    <3> HIDE DEF f
    <3>2. \/ Goto(r, f)
          \/ Goto(r, Idle)
      BY <2>1 DEF FindReport, f
    <3> QED
      BY <2>1, <3>1, <3>2, GotoKeepsReview DEF FindReport
  <2>2. CASE FindProgressReport(r)
    <3> DEFINE f == [req[r] EXCEPT !.pc = "costNew"]
               g(i) == [pc |-> "cost", id |-> i, row |-> report[i],
                        assigned |-> {}, dirty |-> {}]
    <3>1. f \in Frame /\ Harmless(f) /\ ~HasRow(f)
      BY <2>2 DEF FindProgressReport, Frame, HasRow, Harmless
    <3>2. ASSUME NEW i \in ReportsOf(req[r].day)
          PROVE  g(i) \in Frame /\ g(i).id \in DOMAIN report /\ Harmless(g(i))
      <4>1. i \in DOMAIN report /\ i \in Nat \ {0} /\ report[i] \in Row
        BY DEF ReportsOf, ReviewInv, TypeOK
      <4> QED
        BY <4>1 DEF Frame, ReviewInv, Harmless
    <3> HIDE DEF f, g
    <3>3. Goto(r, f) \/ \E i \in ReportsOf(req[r].day) : Goto(r, g(i))
      BY <2>2 DEF FindProgressReport, f, g
    <3> QED
      BY <2>2, <3>1, <3>2, <3>3, GotoKeepsReview DEF FindProgressReport
  <2>3. CASE CostNewReport(r)
    <3> DEFINE row == Draft(req[r].day, books[req[r].day], req[r].other, req[r].revenue)
               f == [pc |-> "insert", row |-> row]
    <3>1. row \in Row /\ row.status = "draft"
      BY <2>3, DraftIsRow DEF CostNewReport, ReviewInv, TypeOK
    <3> HIDE DEF row
    <3>2. f \in Frame /\ Harmless(f) /\ ~HasRow(f)
      BY <3>1 DEF Frame, HasRow, Harmless
    <3>3. Goto(r, f)
      BY <2>3 DEF CostNewReport, row
    <3> QED
      BY <2>3, <3>2, <3>3, GotoKeepsReview DEF CostNewReport
  <2>4. CASE InsertReport(r)
    <3>1. req[r].row \in Row /\ req[r].row.status = "draft"
      BY <2>4 DEF InsertReport, ReviewInv, Harmless
    <3>2. req' \in [Req -> Frame] /\ \A s \in Req : req'[s] \in {req[s], Idle}
      BY <2>4 DEF InsertReport, Goto
    <3> QED
      BY <2>4, <3>1, <3>2, InsertKeepsReview DEF InsertReport
  <2>5. CASE CostReport(r)
    <3> DEFINE row == [req[r].row EXCEPT !.booked = books[req[r].row.day]]
               f == [req[r] EXCEPT !.pc = "save", !.row = Recomputed(row),
                                   !.assigned = {"booked", "total", "profit"}]
    <3>1. HasRow(req[r]) /\ req[r].row \in Row /\ books[req[r].row.day] \in Int
      BY <2>5 DEF CostReport, HasRow, ReviewInv, TypeOK, Row
    <3>2. row \in Row /\ row.status = req[r].row.status
      BY <3>1 DEF Row
    <3>3. Recomputed(row) \in Row /\ Recomputed(row).status = req[r].row.status
      BY <3>2, RecomputedIsRow
    <3>4. Goto(r, f) /\ UNCHANGED <<books, report, everSubmitted, overtaken, raced>>
      BY <2>5 DEF CostReport
    <3> HIDE DEF row
    <3>5. f \in Frame /\ f.id = req[r].id /\ Harmless(f)
      BY <3>1, <3>3 DEF Frame, HasRow, Money, Harmless, ReviewInv
    <3> HIDE DEF f
    <3> QED
      BY <3>1, <3>4, <3>5, GotoKeepsReview DEF ReviewInv, TypeOK
  <2>6. CASE SaveRead(r)
    <3>1. HasRow(req[r]) /\ req[r].assigned \in SUBSET Money
      BY <2>6 DEF SaveRead, HasRow
    <3>2. PICK D \in SUBSET Columns : Goto(r, [req[r] EXCEPT !.pc = "write", !.dirty = D])
      BY <2>6, <3>1 DEF SaveRead, Columns
    <3> DEFINE f == [req[r] EXCEPT !.pc = "write", !.dirty = D]
    <3>3. f \in Frame /\ f.id = req[r].id /\ Harmless(f)
      BY <3>1 DEF Frame, HasRow, Harmless, ReviewInv
    <3>4. UNCHANGED <<books, report, everSubmitted, overtaken, raced>>
      BY <2>6 DEF SaveRead
    <3> HIDE DEF f
    <3> QED
      BY <3>1, <3>2, <3>3, <3>4, GotoKeepsReview DEF ReviewInv, TypeOK, f
  <2>7. CASE SaveWrite(r)
    <3> DEFINE i == req[r].id
               new == Saved(req[r], report[i])
    <3>1. HasRow(req[r]) /\ i \in DOMAIN report /\ report[i] \in Row
      BY <2>7 DEF SaveWrite, HasRow, ReviewInv, TypeOK
    <3>2. new \in Row
      BY <3>1, SavedIsRow
    <3>3. new.status \in {req[r].row.status, report[i].status}
      BY DEF Saved, Column
    <3>4. new.status = "reviewed" => i \in everSubmitted
      BY <3>1, <3>3 DEF ReviewInv, Harmless
    <3>5. /\ report' = [report EXCEPT ![i] = new]
          /\ everSubmitted' = IF new.status = "submitted"
                                THEN everSubmitted \cup {i} ELSE everSubmitted
          /\ req' = [req EXCEPT ![r] = Idle]
          /\ books' = books
          /\ raced' \subseteq raced \cup {i} /\ overtaken' \subseteq overtaken \cup Req
      BY <2>7 DEF SaveWrite, Goto
    <3> HIDE DEF i, new
    <3>6. report' \in Seq(Row) /\ DOMAIN report' = DOMAIN report
      BY <3>1, <3>2, <3>5 DEF ReviewInv, TypeOK
    <3>7. TypeOK'
      BY <3>1, <3>5, <3>6 DEF ReviewInv, TypeOK, HasRow
    <3>8. \A k \in DOMAIN report' : report'[k].status # "draft" => k \in everSubmitted'
      BY <3>1, <3>2, <3>4, <3>5, <3>6 DEF ReviewInv, Row, Status
    <3>9. \A s \in Req : Harmless(req[s])'
      BY <3>5 DEF ReviewInv, Harmless
    <3> QED
      BY <3>7, <3>8, <3>9 DEF ReviewInv
  <2> QED
    BY <1>2, <2>1, <2>2, <2>3, <2>4, <2>5, <2>6, <2>7 DEF Continues
<1>3. ASSUME NEW r \in Req, Abort(r) PROVE ReviewInv'
  BY <1>3, GotoKeepsReview DEF Abort
<1>4. ASSUME NEW d \in Days, NEW amount \in Amounts, Book(d, amount) PROVE ReviewInv'
  BY <1>4, AmountsAssumption DEF Book, ReviewInv, TypeOK, HasRow, Harmless
<1>5. ASSUME NEW d \in Days, NEW booked \in Amounts, NEW other \in Amounts,
             NEW revenue \in Amounts, CreateLegacyReport(d, booked, other, revenue)
      PROVE  ReviewInv'
  <2> DEFINE row == Draft(d, booked, other, revenue)
  <2>1. row \in Row /\ row.status = "draft"
    <3>1. booked \in Int /\ other \in Int /\ revenue \in Int
      BY AmountsAssumption
    <3> QED
      BY <3>1, DraftIsRow
  <2>2. PICK p \in Int : \/ InsertLegacyReport(d, row)
                         \/ InsertLegacyReport(d, [row EXCEPT !.profit = p])
    BY <1>5, AmountsAssumption DEF CreateLegacyReport
  <2> HIDE DEF row
  <2>3. [row EXCEPT !.profit = p] \in Row /\ [row EXCEPT !.profit = p].status = "draft"
    BY <2>1 DEF Row
  <2>4. req \in [Req -> Frame]
    BY DEF ReviewInv, TypeOK
  <2> QED
    BY <2>1, <2>2, <2>3, <2>4, InsertKeepsReview DEF InsertLegacyReport
<1>6. CASE UNCHANGED vars
  BY <1>6 DEF vars, ReviewInv, TypeOK, HasRow, Harmless
<1> QED
  BY <1>1, <1>2, <1>3, <1>4, <1>5, <1>6 DEF Next

\* The rows, the frames and the history are well formed in every reachable
\* state, for any number of requests, days and reports.
THEOREM TypeCorrect == Spec => []TypeOK
<1>1. ReviewInv => TypeOK
  BY DEF ReviewInv
<1> QED
  BY <1>1, ReviewInit, ReviewStep, PTL DEF Spec

\* A review is always preceded by a submission (updateReportStatus), however
\* many requests save stale snapshots of the same report.
THEOREM ReviewNeedsSubmission == Spec => []ReviewedWasSubmitted
<1>1. ReviewInv => ReviewedWasSubmitted
  BY DEF ReviewInv, ReviewedWasSubmitted
<1> QED
  BY <1>1, ReviewInit, ReviewStep, PTL DEF Spec

-----------------------------------------------------------------------------
\* The total.  A handler saves an entity whose total is right, however old the
\* entity is, unless it reviews a report that is raced.
Balanced(row) == row.total = row.booked + row.other

\* The entity a handler is about to save or insert is balanced, and the columns
\* it will not write are those of the row.
Prepared(f) ==
  /\ f.pc \in {"insert", "save", "write"} => Balanced(f.row)
  /\ f.pc = "write" =>
       /\ "booked" \notin f.dirty => f.row.booked = report[f.id].booked
       /\ "other" \notin f.dirty => f.row.other = report[f.id].other
       /\ "total" \notin f.dirty => f.row.total = report[f.id].total

\* The strengthening of TotalIsSumUnlessRaced.
SumInv ==
  /\ ReviewInv
  /\ TotalIsSumUnlessRaced
  /\ \A r \in Req : req[r].pc \in {"save", "write"} \/ r \notin overtaken
  /\ \A r \in Req : Prepared(req[r]) \/ r \in overtaken

\* The empty table, with no request in flight, is balanced.
LEMMA SumInit == Init => SumInv
  BY ReviewInit DEF Init, SumInv, TotalIsSumUnlessRaced, Prepared, Idle

\* A step that changes no row needs a frame that is prepared, or a save that
\* counts as overtaken.
LEMMA FrameKeepsSum ==
  ASSUME SumInv, ReviewInv', NEW r \in Req, NEW f, Goto(r, f),
         f.pc \in {"save", "write"} \/ r \notin overtaken',
         Prepared(f) \/ r \in overtaken',
         \A s \in Req : s # r => (s \in overtaken' <=> s \in overtaken),
         UNCHANGED <<report, raced>>
  PROVE  SumInv'
<1>1. \A s \in Req : req'[s] = IF s = r THEN f ELSE req[s]
  BY DEF SumInv, ReviewInv, TypeOK, Goto
<1>2. ASSUME NEW s \in Req
      PROVE  /\ req'[s].pc \in {"save", "write"} \/ s \notin overtaken'
             /\ Prepared(req[s])' \/ s \in overtaken'
  BY <1>1 DEF SumInv, Prepared, Balanced
<1>3. TotalIsSumUnlessRaced'
  BY DEF SumInv, TotalIsSumUnlessRaced
<1> QED
  BY <1>2, <1>3 DEF SumInv

LEMMA GotoKeepsSum ==
  ASSUME SumInv, ReviewInv', NEW r \in Req, NEW f, Prepared(f), Goto(r, f),
         req[r].pc \in {"save", "write"} => f.pc \in {"save", "write"},
         UNCHANGED <<report, overtaken, raced>>
  PROVE  SumInv'
  BY FrameKeepsSum DEF SumInv

\* A row added to the table must be balanced itself.
LEMMA InsertKeepsSum ==
  ASSUME SumInv, ReviewInv', NEW row \in Row, Balanced(row),
         report' = Append(report, row),
         \A r \in Req : \/ req'[r] = req[r]
                        \/ req'[r] = Idle /\ r \notin overtaken,
         UNCHANGED <<overtaken, raced>>
  PROVE  SumInv'
<1>1. /\ DOMAIN report \subseteq DOMAIN report'
      /\ \A i \in DOMAIN report' :
           IF i \in DOMAIN report THEN report'[i] = report[i] ELSE report'[i] = row
  BY DEF SumInv, ReviewInv, TypeOK
<1>2. TotalIsSumUnlessRaced'
  BY <1>1 DEF SumInv, TotalIsSumUnlessRaced, Balanced
<1>3. ASSUME NEW r \in Req
      PROVE  /\ req'[r].pc \in {"save", "write"} \/ r \notin overtaken'
             /\ Prepared(req[r])' \/ r \in overtaken'
  <2>1. CASE req'[r] = Idle
    BY <2>1 DEF SumInv, Prepared, Idle
  <2>2. CASE req'[r] = req[r]
    <3>1. req[r].pc = "write" => req[r].id \in DOMAIN report
      BY DEF SumInv, ReviewInv, TypeOK, HasRow
    <3> QED
      BY <1>1, <2>2, <3>1 DEF SumInv, Prepared
  <2> QED
    BY <2>1, <2>2
<1> QED
  BY <1>2, <1>3 DEF SumInv

\* Only a save that another one wrote under leaves a total that is not the sum.
LEMMA SumStep ==
  ASSUME SumInv, [Next]_vars
  PROVE  SumInv'
<1>1. ReviewInv'
  BY ReviewStep DEF SumInv
<1>2. Prepared(Idle)
  BY DEF Prepared, Idle
<1>3. ASSUME NEW r \in Req, Arrives(r) PROVE SumInv'
  <2>1. ASSUME NEW d \in Days, BeginProgress(r, d) PROVE SumInv'
    <3>1. Prepared([pc |-> "findProgress", day |-> d, other |-> 0, revenue |-> 0])
      BY DEF Prepared
    <3> QED
      BY <1>1, <2>1, <3>1, GotoKeepsSum DEF BeginProgress
  <2>2. ASSUME NEW d \in Days, NEW other \in Amounts, NEW revenue \in Amounts,
               BeginCreate(r, d, other, revenue)
        PROVE  SumInv'
    <3>1. Prepared([pc |-> "find", day |-> d, other |-> other, revenue |-> revenue])
      BY DEF Prepared
    <3> QED
      BY <1>1, <2>2, <3>1, GotoKeepsSum DEF BeginCreate
  <2>3. ASSUME NEW i \in DOMAIN report, BeginSubmit(r, i) PROVE SumInv'
    <3>1. Prepared([pc |-> "cost", id |-> i,
                    row |-> [report[i] EXCEPT !.status = "submitted"],
                    assigned |-> {}, dirty |-> {}])
      BY DEF Prepared
    <3> QED
      BY <1>1, <2>3, <3>1, GotoKeepsSum DEF BeginSubmit
  <2>4. ASSUME NEW i \in DOMAIN report, BeginReview(r, i) PROVE SumInv'
    <3> DEFINE row == [report[i] EXCEPT !.status = "reviewed"]
               f == [pc |-> "save", id |-> i, row |-> row, assigned |-> {}, dirty |-> {}]
    <3>1. f.pc = "save"
      OBVIOUS
    <3>2. i \notin raced => Prepared(f)
      <4>1. report[i] \in Row
        BY DEF SumInv, ReviewInv, TypeOK
      <4>2. i \notin raced => Balanced(report[i])
        BY DEF SumInv, TotalIsSumUnlessRaced, Balanced
      <4>3. i \notin raced => Balanced(row)
        BY <4>1, <4>2 DEF Balanced, Row
      <4> QED
        BY <4>3 DEF Prepared
    <3>3. /\ Goto(r, f) /\ UNCHANGED <<report, raced>>
          /\ overtaken' = IF i \in raced THEN overtaken \cup {r} ELSE overtaken
      BY <2>4 DEF BeginReview
    <3>4. r \notin overtaken
      BY <2>4 DEF BeginReview, SumInv
    <3> HIDE DEF f
    <3> QED
      BY <1>1, <3>1, <3>2, <3>3, <3>4, FrameKeepsSum
  <2>5. ASSUME NEW i \in DOMAIN report,
               NEW given \in SUBSET {"other", "revenue"},
               NEW new \in [other : Amounts, revenue : Amounts],
               BeginUpdate(r, i, given, new)
        PROVE  SumInv'
    <3>1. report[i] \in Row
      BY DEF SumInv, ReviewInv, TypeOK
    <3>2. Balanced(Edited(report[i], given, new))
      BY <3>1, EditedIsRow DEF Balanced
    <3>5. Prepared([pc |-> "save", id |-> i, row |-> Edited(report[i], given, new),
                    assigned |-> {"total", "profit"} \cup given, dirty |-> {}])
      BY <3>2 DEF Prepared
    <3> QED
      BY <1>1, <2>5, <3>5, GotoKeepsSum DEF BeginUpdate
  <2> QED
    BY <1>3, <2>1, <2>2, <2>3, <2>4, <2>5 DEF Arrives
<1>4. ASSUME NEW r \in Req, Continues(r) PROVE SumInv'
  <2>0. req[r] \in Frame /\ req \in [Req -> Frame]
    BY DEF SumInv, ReviewInv, TypeOK
  <2>1. CASE FindReport(r)
    <3> DEFINE f == [req[r] EXCEPT !.pc = "costNew"]
    <3>1. Prepared(f)
      BY <2>0, <2>1, FrameKinds DEF FindReport, Prepared
    <3> HIDE DEF f
    <3>2. Goto(r, f) \/ Goto(r, Idle)
      BY <2>1 DEF FindReport, f
    <3> QED
      BY <1>1, <1>2, <2>1, <3>1, <3>2, GotoKeepsSum DEF FindReport
  <2>2. CASE FindProgressReport(r)
    <3> DEFINE f == [req[r] EXCEPT !.pc = "costNew"]
               g(i) == [pc |-> "cost", id |-> i, row |-> report[i],
                        assigned |-> {}, dirty |-> {}]
    <3>1. Prepared(f)
      BY <2>0, <2>2, FrameKinds DEF FindProgressReport, Prepared
    <3>2. \A i : Prepared(g(i))
      BY DEF Prepared
    <3> HIDE DEF f, g
    <3>3. Goto(r, f) \/ \E i \in ReportsOf(req[r].day) : Goto(r, g(i))
      BY <2>2 DEF FindProgressReport, f, g
    <3> QED
      BY <1>1, <2>2, <3>1, <3>2, <3>3, GotoKeepsSum DEF FindProgressReport
  <2>3. CASE CostNewReport(r)
    <3> DEFINE row == Draft(req[r].day, books[req[r].day], req[r].other, req[r].revenue)
    <3>1. Balanced(row)
      BY <2>0, <2>3, FrameKinds, DraftIsRow
      DEF CostNewReport, Balanced, SumInv, ReviewInv, TypeOK
    <3> HIDE DEF row
    <3>2. Prepared([pc |-> "insert", row |-> row])
      BY <3>1 DEF Prepared
    <3>3. Goto(r, [pc |-> "insert", row |-> row])
      BY <2>3 DEF CostNewReport, row
    <3> QED
      BY <1>1, <2>3, <3>2, <3>3, GotoKeepsSum DEF CostNewReport
  <2>4. CASE InsertReport(r)
    <3>1. req[r].row \in Row /\ Balanced(req[r].row)
      BY <2>0, <2>4, FrameKinds DEF InsertReport, SumInv, Prepared
    <3>2. \A s \in Req : req'[s] = req[s] \/ (req'[s] = Idle /\ s \notin overtaken)
      BY <2>0, <2>4 DEF InsertReport, Goto, SumInv
    <3> QED
      BY <1>1, <2>4, <3>1, <3>2, InsertKeepsSum DEF InsertReport
  <2>5. CASE CostReport(r)
    <3> DEFINE row == [req[r].row EXCEPT !.booked = books[req[r].row.day]]
               f == [req[r] EXCEPT !.pc = "save", !.row = Recomputed(row),
                                   !.assigned = {"booked", "total", "profit"}]
    <3>1. req[r] \in [pc : {"cost", "save", "write"}, id : Nat \ {0}, row : Row,
                      assigned : SUBSET Money, dirty : SUBSET Columns]
      BY <2>0, <2>5, FrameKinds DEF CostReport, HasRow
    <3>2. row \in Row
      BY <3>1 DEF SumInv, ReviewInv, TypeOK, Row
    <3>3. Balanced(Recomputed(row))
      BY <3>2, RecomputedIsRow DEF Balanced
    <3>4. Goto(r, f) /\ UNCHANGED <<report, overtaken, raced>> /\ req[r].pc = "cost"
      BY <2>5 DEF CostReport
    <3> HIDE DEF row
    <3>5. Prepared(f)
      BY <3>1, <3>3 DEF Prepared
    <3> HIDE DEF f
    <3> QED
      BY <1>1, <3>4, <3>5, GotoKeepsSum
  <2>6. CASE SaveRead(r)
    <3> DEFINE old == report[req[r].id]
               differ == {k \in Columns : req[r].row[k] # old[k]}
    <3>1. req[r] \in [pc : {"cost", "save", "write"}, id : Nat \ {0}, row : Row,
                      assigned : SUBSET Money, dirty : SUBSET Columns]
      BY <2>0, <2>6, FrameKinds DEF SaveRead, HasRow
    <3>2. old \in Row
      BY <2>6 DEF SaveRead, SumInv, ReviewInv, TypeOK, HasRow
    <3>3. /\ "booked" \notin differ => req[r].row.booked = old.booked
          /\ "other" \notin differ => req[r].row.other = old.other
          /\ "total" \notin differ => req[r].row.total = old.total
      BY DEF Columns, Money
    <3> HIDE DEF differ
    <3>4. PICK extra : Goto(r, [req[r] EXCEPT !.pc = "write", !.dirty = differ \cup extra])
      BY <2>6 DEF SaveRead, differ
    <3> DEFINE f == [req[r] EXCEPT !.pc = "write", !.dirty = differ \cup extra]
    <3>5. r \notin overtaken => Balanced(req[r].row)
      BY <2>6 DEF SaveRead, SumInv, Prepared
    <3>6. f.pc = "write" /\ (r \notin overtaken => Prepared(f))
      BY <3>1, <3>3, <3>5 DEF Prepared
    <3>7. UNCHANGED <<report, overtaken, raced>>
      BY <2>6 DEF SaveRead
    <3> HIDE DEF f
    <3> QED
      BY <1>1, <3>4, <3>6, <3>7, FrameKeepsSum DEF f
  <2>7. CASE SaveWrite(r)
    <3> DEFINE i == req[r].id
               q == req[r]
               new == Saved(q, report[i])
    <3>1. i \in DOMAIN report
      BY <2>7 DEF SaveWrite, HasRow, SumInv, ReviewInv, TypeOK
    <3>2. ASSUME r \notin overtaken PROVE Balanced(new)
      <4>1. /\ Balanced(q.row)
            /\ "booked" \notin q.dirty => q.row.booked = report[i].booked
            /\ "other" \notin q.dirty => q.row.other = report[i].other
            /\ "total" \notin q.dirty => q.row.total = report[i].total
        BY <2>7, <3>2 DEF SaveWrite, SumInv, Prepared
      <4> QED
        BY <4>1 DEF Saved, Column, Balanced
    <3>3. report' = [report EXCEPT ![i] = new] /\ Goto(r, Idle)
      BY <2>7 DEF SaveWrite
    <3>4. /\ raced' = IF r \in overtaken THEN raced \cup {i} ELSE raced \ {i}
          /\ r \notin overtaken'
          /\ \A s \in Req \ {r} :
               s \in overtaken' <=> \/ s \in overtaken
                                   \/ /\ new # report[i]
                                      /\ req[s].pc = "write" /\ req[s].id = i
      BY <2>7 DEF SaveWrite
    <3> HIDE DEF i, new
    <3>5. TotalIsSumUnlessRaced'
      BY <3>1, <3>2, <3>3, <3>4 DEF SumInv, ReviewInv, TypeOK, TotalIsSumUnlessRaced,
                                    Balanced
    <3>6. \A s \in Req : req'[s] = IF s = r THEN Idle ELSE req[s]
      BY <2>0, <3>3 DEF Goto
    <3>7. ASSUME NEW s \in Req
          PROVE  /\ req'[s].pc \in {"save", "write"} \/ s \notin overtaken'
                 /\ Prepared(req[s])' \/ s \in overtaken'
      <4>1. CASE s = r
        BY <3>4, <3>6, <4>1 DEF Prepared, Idle
      <4>2. CASE s # r
        <5>1. s \notin overtaken' /\ req[s].pc = "write"
                => report'[req[s].id] = report[req[s].id]
          BY <3>1, <3>3, <3>4, <4>2 DEF SumInv, ReviewInv, TypeOK, HasRow
        <5>2. /\ req'[s] = req[s]
              /\ Prepared(req[s]) \/ s \in overtaken'
              /\ req[s].pc \in {"save", "write"} \/ s \notin overtaken'
          BY <3>4, <3>6, <4>2 DEF SumInv
        <5> QED
          BY <5>1, <5>2 DEF Prepared
      <4> QED
        BY <4>1, <4>2
    <3> QED
      BY <1>1, <3>5, <3>7 DEF SumInv
  <2> QED
    BY <1>4, <2>1, <2>2, <2>3, <2>4, <2>5, <2>6, <2>7 DEF Continues
<1>5. ASSUME NEW r \in Req, Abort(r) PROVE SumInv'
  BY <1>1, <1>2, <1>5, FrameKeepsSum DEF Abort
<1>6. ASSUME NEW d \in Days, NEW amount \in Amounts, Book(d, amount) PROVE SumInv'
  BY <1>1, <1>6 DEF Book, SumInv, TotalIsSumUnlessRaced, Prepared
<1>7. ASSUME NEW d \in Days, NEW booked \in Amounts, NEW other \in Amounts,
             NEW revenue \in Amounts, CreateLegacyReport(d, booked, other, revenue)
      PROVE  SumInv'
  <2> DEFINE row == Draft(d, booked, other, revenue)
  <2>1. row \in Row /\ Balanced(row)
    <3>1. booked \in Int /\ other \in Int /\ revenue \in Int
      BY AmountsAssumption
    <3> QED
      BY <3>1, DraftIsRow DEF Balanced
  <2>2. PICK p \in Int : \/ InsertLegacyReport(d, row)
                         \/ InsertLegacyReport(d, [row EXCEPT !.profit = p])
    BY <1>7, AmountsAssumption DEF CreateLegacyReport
  <2> HIDE DEF row
  <2>3. [row EXCEPT !.profit = p] \in Row /\ Balanced([row EXCEPT !.profit = p])
    BY <2>1 DEF Row, Balanced
  <2>4. InsertLegacyReport(d, row) => SumInv'
    BY <1>1, <2>1, InsertKeepsSum DEF InsertLegacyReport
  <2>5. InsertLegacyReport(d, [row EXCEPT !.profit = p]) => SumInv'
    BY <1>1, <2>3, InsertKeepsSum DEF InsertLegacyReport
  <2> QED
    BY <2>2, <2>4, <2>5
<1>8. CASE UNCHANGED vars
  BY <1>8, <1>1 DEF vars, SumInv, TotalIsSumUnlessRaced, Prepared
<1> QED
  BY <1>3, <1>4, <1>5, <1>6, <1>7, <1>8 DEF Next

\* totalDailyCost is labour + material + expense + other in every report whose
\* last save no other one wrote under, for all amounts, any number of overlapping
\* handlers with entities of any age, and requests dying anywhere.
THEOREM TotalsAddUp == Spec => []TotalIsSumUnlessRaced
<1>1. SumInv /\ [Next]_vars => SumInv'
  BY SumStep
<1>2. SumInv => TotalIsSumUnlessRaced
  BY DEF SumInv
<1> QED
  BY <1>1, <1>2, SumInit, PTL DEF Spec

\* With one handler at a time no save is overtaken, and every total is right.
THEOREM SequentialTotals ==
  ASSUME \A r, s \in Req : r = s
  PROVE  Spec => []TotalIsSum
<1> DEFINE Alone == overtaken = {} /\ raced = {}
<1>1. Init => Alone
  BY DEF Init
<1>2. Alone /\ [Next]_vars => Alone'
  <2> SUFFICES ASSUME Alone, [Next]_vars PROVE Alone'
    OBVIOUS
  <2>1. ASSUME NEW r \in Req, Arrives(r) PROVE Alone'
    BY <2>1 DEF Arrives, BeginProgress, BeginCreate, BeginSubmit, BeginReview, BeginUpdate
  <2>2. ASSUME NEW r \in Req, Continues(r) PROVE Alone'
    BY <2>2 DEF Continues, FindReport, CostNewReport, InsertReport, FindProgressReport,
                CostReport, SaveRead, SaveWrite
  <2> QED
    BY <2>1, <2>2 DEF Next, vars, Abort, Book, CreateLegacyReport, InsertLegacyReport
<1>3. TotalIsSumUnlessRaced /\ Alone => TotalIsSum
  BY DEF TotalIsSumUnlessRaced, TotalIsSum
<1> QED
  BY <1>1, <1>2, <1>3, TotalsAddUp, PTL DEF Spec
=============================================================================
