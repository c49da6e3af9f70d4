--------------------------- MODULE ServicesProofs ---------------------------
(***************************************************************************)
(* Theorems about the services that keep to themselves: attendance, posts, *)
(* payments, exports and files, for any number of users, rows and requests.*)
(*                                                                         *)
(* Each part has one inductive invariant.  It says of a request in flight  *)
(* what a property says of the rows: the frame holds a row that may be     *)
(* saved, or knows something of the rows that nobody else can undo.        *)
(***************************************************************************)
EXTENDS Services, FiniteSetTheorems, TLAPS

-----------------------------------------------------------------------------
\* Attendance.  A check-out in flight holds the last row of its user.

\* What a handler holds, by its place in the code; ids is the set of row ids.
AttFrameOK(f, ids) ==
  /\ f.pc \in {"idle", "findToday", "insertIn", "findOpen", "out", "outWrite"}
  /\ f.pc \in {"findToday", "insertIn"} =>
       f \in [pc : {"findToday", "insertIn"}, user : AttUsers, date : Nat, at : MaybeTime]
  /\ f.pc = "findOpen" => f \in [pc : {"findOpen"}, user : AttUsers, date : Nat]
  /\ f.pc \in {"out", "outWrite"} =>
       f \in [pc : {"out", "outWrite"}, user : AttUsers, id : ids, row : AttendanceRow,
              diff : SUBSET HourColumns]

LEMMA AttFrameHas ==
  ASSUME NEW f \in AttFrame
  PROVE  AttFrameOK(f, DOMAIN attendance)
  BY DEF AttFrame, AttFrameOK

LEMMA AttFrames ==
  /\ AttIdle \in AttFrame /\ AttIdle.pc = "idle"
  /\ \A f \in [pc : {"findToday", "insertIn"}, user : AttUsers, date : Nat, at : MaybeTime] :
       f \in AttFrame
  /\ \A f \in [pc : {"findOpen"}, user : AttUsers, date : Nat] : f \in AttFrame
  /\ \A f \in [pc : {"out", "outWrite"}, user : AttUsers, id : DOMAIN attendance,
               row : AttendanceRow, diff : SUBSET HourColumns] : f \in AttFrame
  BY DEF AttFrame, AttIdle

LEMMA AttFrameGrows ==
  ASSUME DOMAIN attendance \subseteq DOMAIN attendance'
  PROVE  AttFrame \subseteq AttFrame'
<1> SUFFICES ASSUME NEW f \in AttFrame PROVE f \in AttFrame'
  OBVIOUS
<1>1. CASE f.pc \in {"out", "outWrite"}
  BY <1>1 DEF AttFrame
<1>2. CASE f.pc \in {"idle", "findToday", "insertIn", "findOpen"}
  BY <1>2 DEF AttFrame
<1> QED BY <1>1, <1>2, AttFrameHas DEF AttFrameOK

-----------------------------------------------------------------------------
\* The date of a minute.
DateOf(t) == t \div DayLength

LEMMA DatesGrow ==
  ASSUME NEW t \in Nat
  PROVE  DateOf(t) \in Nat /\ DateOf(t + 1) \in Nat /\ DateOf(t) <= DateOf(t + 1)
<1>1. DayLength \in Nat \ {0} /\ t + 1 \in Nat
  BY AttendanceAssumption
<1>2. ASSUME NEW d \in Nat \ {0}, NEW n \in Nat PROVE n \div d \in Nat
  OBVIOUS
<1>3. ASSUME NEW d \in Nat \ {0}, NEW n \in Nat PROVE n \div d <= (n + 1) \div d
  OBVIOUS
<1> QED BY <1>1, <1>2, <1>3 DEF DateOf

\* A row that is right by minute n: nothing lies ahead of the clock.
RowOK(a, n) ==
  a.date <= DateOf(n) /\ a.checkIn <= n /\ \A t \in a.checkOut : t <= n

\* Not of a date of its user with two requests at once, by the history D.
Clear(a, D) == <<a.user, a.date>> \notin D

\* The total of a clear row is the time between the two stamps.
RowExact(a, D) ==
  Clear(a, D) => \A t \in a.checkOut : a.checkIn <= t /\ a.total = t - a.checkIn

\* The clear shifts of a user lie in the order of their dates.
RowsOrdered(att, D) ==
  \A i, j \in DOMAIN att :
    i # j /\ att[i].user = att[j].user /\ Clear(att[i], D) /\ Clear(att[j], D) =>
      /\ att[i].date # att[j].date
      /\ att[i].date < att[j].date => \A t \in att[i].checkOut : t <= att[j].checkIn

\* What any request knows at minute n: its stamps are past, and the row of a
\* check-out is one of its user and its date.
RequestOK(q, att, n) ==
  /\ q.pc \in {"findToday", "insertIn", "findOpen"} => q.date <= DateOf(n)
  /\ q.pc \in {"findToday", "insertIn"} => \A t \in q.at : t <= n
  /\ q.pc \in {"out", "outWrite"} =>
       /\ att[q.id].user = q.user /\ att[q.id].date = q.row.date
       /\ \A t \in q.row.checkOut : t <= n

\* A request that has its user to itself.
Alone(q, D) == q.pc # "idle" /\ <<q.user, DateOfRequest(q)>> \notin D

\* What it knows besides: it came on the last date its user has a clear row for
\* or later, a check-in that is to be inserted found no row of its date, and a
\* check-out holds the last clear row of its user, which is open.
AloneOK(q, att, D) ==
  /\ q.pc \in {"findToday", "insertIn", "findOpen"} =>
       \A i \in DOMAIN att : att[i].user = q.user /\ Clear(att[i], D) => att[i].date <= q.date
  /\ q.pc \in {"findToday", "insertIn"} =>
       \A t \in q.at : \A i \in DOMAIN att :
         att[i].user = q.user /\ Clear(att[i], D) => \A o \in att[i].checkOut : o <= t
  /\ q.pc = "insertIn" =>
       \A i \in DOMAIN att : att[i].user = q.user => att[i].date # q.date
  /\ q.pc \in {"out", "outWrite"} =>
       /\ att[q.id].checkOut = {}
       /\ \A j \in DOMAIN att :
            j # q.id /\ att[j].user = q.user /\ Clear(att[j], D) => att[j].date < att[q.id].date
       /\ \E t \in Minutes :
            /\ q.row.checkOut = {t} /\ q.row.total = t - att[q.id].checkIn
            /\ att[q.id].checkIn <= t
  /\ q.pc = "outWrite" =>
       \A c \in HourColumns : c \in q.diff \/ q.row[c] = att[q.id][c]

\* Two requests of a user: the dates of both are in the history.
OneEach ==
  \A r, s \in AttReq :
    r # s /\ areq[r].pc # "idle" /\ areq[s].pc # "idle" /\ areq[r].user = areq[s].user =>
      ~ Alone(areq[r], doubled)

RowsInv ==
  /\ \A i \in DOMAIN attendance : RowOK(attendance[i], now) /\ RowExact(attendance[i], doubled)
  /\ RowsOrdered(attendance, doubled)

RequestsInv ==
  \A r \in AttReq :
    /\ RequestOK(areq[r], attendance, now)
    /\ Alone(areq[r], doubled) => AloneOK(areq[r], attendance, doubled)

AttInv == AttendanceTypeOK /\ OneEach /\ RowsInv /\ RequestsInv

LEMMA AttInvInit == AttendanceInit => AttInv
<1> SUFFICES ASSUME AttendanceInit PROVE AttInv
  OBVIOUS
<1>1. \A r \in AttReq : areq[r] = AttIdle
  BY DEF AttendanceInit
<1>2. DOMAIN attendance = {} /\ now \in Minutes
  BY AttendanceAssumption DEF AttendanceInit, Minutes
<1>3. AttendanceTypeOK
  BY <1>2, AttFrames DEF AttendanceInit, AttendanceTypeOK
<1>4. \A r \in AttReq : areq[r].pc = "idle"
  BY <1>1, AttFrames
<1>5. OneEach
  BY <1>4 DEF OneEach
<1>6. RowsInv
  BY <1>2 DEF RowsInv, RowsOrdered
<1>7. RequestsInv
  BY <1>4 DEF RequestsInv, RequestOK, Alone
<1> QED BY <1>3, <1>5, <1>6, <1>7 DEF AttInv

LEMMA RowDates ==
  ASSUME AttInv
  PROVE  \A i \in DOMAIN attendance :
           attendance[i] \in AttendanceRow /\ attendance[i].date \in Nat
<1>1. \A i \in DOMAIN attendance : attendance[i] \in AttendanceRow
  BY DEF AttInv, AttendanceTypeOK
<1>2. \A a \in AttendanceRow : a.date \in Nat
  BY DEF AttendanceRow
<1> QED BY <1>1, <1>2

\* A handler goes on for the same user and date, or ends.
GoesOn(r, f) ==
  f.pc # "idle" =>
    areq[r].pc # "idle" /\ areq[r].user = f.user /\ DateOfRequest(areq[r]) = DateOfRequest(f)

LEMMA OneEachStep ==
  ASSUME AttInv, NEW r \in AttReq, NEW f, GoesOn(r, f), AttGoto(r, f), doubled' = doubled
  PROVE  OneEach'
<1>1. areq' = [areq EXCEPT ![r] = f] /\ areq \in [AttReq -> AttFrame]
  BY DEF AttGoto, AttInv, AttendanceTypeOK
<1>2. \A s \in AttReq : areq'[s] = IF s = r THEN f ELSE areq[s]
  BY <1>1
<1>3. Alone(f, doubled) => Alone(areq[r], doubled)
  BY DEF Alone, GoesOn
<1> QED BY <1>2, <1>3 DEF OneEach, AttInv, GoesOn, Alone

\* A step of one handler that changes no row.
LEMMA AttQuietStep ==
  ASSUME AttInv, NEW r \in AttReq, NEW f \in AttFrame, GoesOn(r, f), AttGoto(r, f),
         RequestOK(f, attendance, now),
         Alone(f, doubled) => AloneOK(f, attendance, doubled),
         UNCHANGED <<now, attendance, doubled>>
  PROVE  AttInv'
<1>1. areq' = [areq EXCEPT ![r] = f] /\ areq \in [AttReq -> AttFrame]
  BY DEF AttGoto, AttInv, AttendanceTypeOK
<1>2. \A s \in AttReq : areq'[s] = IF s = r THEN f ELSE areq[s]
  BY <1>1
<1>3. AttendanceTypeOK'
  <2>1. areq' \in [AttReq -> AttFrame]
    BY <1>1
  <2>2. AttFrame' = AttFrame
    BY DEF AttFrame
  <2> QED BY <2>1, <2>2 DEF AttInv, AttendanceTypeOK
<1>4. RequestsInv'
  BY <1>2 DEF AttInv, RequestsInv
<1>5. RowsInv'
  BY DEF AttInv, RowsInv
<1> QED BY <1>3, <1>4, <1>5, OneEachStep DEF AttInv

LEMMA RequestLater ==
  ASSUME NEW q, NEW att, NEW n \in Nat, AttFrameOK(q, DOMAIN att), RequestOK(q, att, n)
  PROVE  RequestOK(q, att, n + 1)
<1>1. DateOf(n) \in Nat /\ DateOf(n + 1) \in Nat /\ DateOf(n) <= DateOf(n + 1)
  BY DatesGrow
<1>2. q.pc \in {"findToday", "insertIn", "findOpen"} => q.date \in Nat
  BY DEF AttFrameOK
<1>3. q.pc \in {"findToday", "insertIn"} => \A t \in q.at : t \in Nat
  BY AttendanceAssumption DEF AttFrameOK, MaybeTime, Minutes
<1>4. q.pc \in {"out", "outWrite"} => \A t \in q.row.checkOut : t \in Nat
  BY AttendanceAssumption DEF AttFrameOK, AttendanceRow, MaybeTime, Minutes
<1> QED BY <1>1, <1>2, <1>3, <1>4 DEF RequestOK

LEMMA TickStep ==
  ASSUME AttInv, Tick
  PROVE  AttInv'
<1>1. now \in Nat /\ now' = now + 1 /\ now' \in Minutes /\ UNCHANGED <<attendance, doubled, areq>>
  BY AttendanceAssumption DEF Tick, AttInv, AttendanceTypeOK, Minutes
<1>2. DateOf(now) \in Nat /\ DateOf(now') \in Nat /\ DateOf(now) <= DateOf(now')
  BY <1>1, DatesGrow
<1>3. AttendanceTypeOK'
  BY <1>1 DEF AttInv, AttendanceTypeOK, AttFrame
<1>4. ASSUME NEW i \in DOMAIN attendance PROVE RowOK(attendance[i], now')
  <2>1. attendance[i] \in AttendanceRow /\ RowOK(attendance[i], now)
    BY DEF AttInv, RowsInv, AttendanceTypeOK
  <2>2. attendance[i].date \in Nat /\ attendance[i].checkIn \in Nat
          /\ attendance[i].checkOut \in MaybeTime
    BY <2>1, AttendanceAssumption DEF AttendanceRow, Minutes
  <2>3. \A t \in attendance[i].checkOut : t \in Nat
    BY <2>2, AttendanceAssumption DEF MaybeTime, Minutes
  <2> QED BY <1>1, <1>2, <2>1, <2>2, <2>3 DEF RowOK
<1>5. RowsInv'
  BY <1>1, <1>4 DEF AttInv, RowsInv
<1>6. ASSUME NEW r \in AttReq PROVE RequestOK(areq[r], attendance, now')
  <2>1. AttFrameOK(areq[r], DOMAIN attendance) /\ RequestOK(areq[r], attendance, now)
    BY AttFrameHas DEF AttInv, RequestsInv, AttendanceTypeOK
  <2> QED BY <1>1, <2>1, RequestLater
<1>7. RequestsInv'
  BY <1>1, <1>6 DEF AttInv, RequestsInv
<1>8. OneEach'
  BY <1>1 DEF AttInv, OneEach
<1> QED BY <1>3, <1>5, <1>7, <1>8 DEF AttInv

\* What any handler relies on outlives a step that keeps users and dates of rows.
LEMMA RequestStays ==
  ASSUME NEW q, NEW att, NEW new, NEW n, AttFrameOK(q, DOMAIN att), RequestOK(q, att, n),
         \A i \in DOMAIN att : new[i].user = att[i].user /\ new[i].date = att[i].date
  PROVE  RequestOK(q, new, n)
<1>1. q.pc \in {"out", "outWrite"} => q.id \in DOMAIN att
  BY DEF AttFrameOK
<1> QED BY <1>1 DEF RequestOK

\* A handler of another user does not notice what happens to the rows of u.
LEMMA OthersRequest ==
  ASSUME NEW q, NEW att, NEW new, NEW n, NEW u, NEW D,
         AttFrameOK(q, DOMAIN att), q.user # u, RequestOK(q, att, n), AloneOK(q, att, D),
         DOMAIN att \subseteq DOMAIN new,
         \A i \in DOMAIN att : att[i].user # u => new[i] = att[i],
         \A i \in DOMAIN new : (i \notin DOMAIN att \/ att[i].user = u) => new[i].user = u
  PROVE  AloneOK(q, new, D)
<1>1. \A i \in DOMAIN new : new[i].user = q.user => i \in DOMAIN att /\ new[i] = att[i]
  OBVIOUS
<1>2. q.pc \in {"out", "outWrite"} => q.id \in DOMAIN att /\ new[q.id] = att[q.id]
  BY DEF AttFrameOK, RequestOK
<1> QED BY <1>1, <1>2 DEF AloneOK

\* A step of one handler that ends it and changes rows of its user only.
LEMMA AttWriteStep ==
  ASSUME AttInv, NEW r \in AttReq, areq[r].pc # "idle", AttGoto(r, AttIdle),
         UNCHANGED <<now, doubled>>,
         attendance' \in Seq(AttendanceRow),
         DOMAIN attendance \subseteq DOMAIN attendance',
         \A i \in DOMAIN attendance :
           /\ attendance'[i].user = attendance[i].user
           /\ attendance'[i].date = attendance[i].date
           /\ attendance[i].user # areq[r].user => attendance'[i] = attendance[i],
         \A i \in DOMAIN attendance' : i \notin DOMAIN attendance =>
           attendance'[i].user = areq[r].user,
         RowsInv'
  PROVE  AttInv'
<1>1. areq' = [areq EXCEPT ![r] = AttIdle] /\ areq \in [AttReq -> AttFrame]
  BY DEF AttGoto, AttInv, AttendanceTypeOK
<1>2. \A s \in AttReq : areq'[s] = IF s = r THEN AttIdle ELSE areq[s]
  BY <1>1
<1>3. AttendanceTypeOK'
  <2>1. areq' \in [AttReq -> AttFrame]
    BY <1>1, AttFrames
  <2>2. areq' \in [AttReq -> AttFrame']
    BY <2>1, AttFrameGrows
  <2> QED BY <2>2 DEF AttInv, AttendanceTypeOK
<1>4. ASSUME NEW s \in AttReq
      PROVE  /\ RequestOK(areq'[s], attendance', now)
             /\ Alone(areq'[s], doubled) => AloneOK(areq'[s], attendance', doubled)
  <2>1. CASE s = r
    BY <1>2, <2>1, AttFrames DEF RequestOK, Alone
  <2>2. CASE s # r
    <3>1. areq'[s] = areq[s] /\ areq[s] \in AttFrame /\ RequestOK(areq[s], attendance, now)
      BY <1>1, <1>2, <2>2 DEF AttInv, RequestsInv
    <3>2. AttFrameOK(areq[s], DOMAIN attendance)
      BY <3>1, AttFrameHas
    <3>3. RequestOK(areq[s], attendance', now)
      BY <3>1, <3>2, RequestStays
    <3>4. ASSUME Alone(areq[s], doubled) PROVE AloneOK(areq[s], attendance', doubled)
      <4>1. areq[s].user # areq[r].user
        BY <2>2, <3>4 DEF AttInv, OneEach, Alone
      <4>2. AloneOK(areq[s], attendance, doubled)
        BY <3>4 DEF AttInv, RequestsInv
      <4>3. \A i \in DOMAIN attendance' :
              (i \notin DOMAIN attendance \/ attendance[i].user = areq[r].user) =>
                attendance'[i].user = areq[r].user
        OBVIOUS
      <4>4. \A i \in DOMAIN attendance :
              attendance[i].user # areq[r].user => attendance'[i] = attendance[i]
        OBVIOUS
      <4> DEFINE u == areq[r].user
                 p == areq[s]
      <4>5. /\ AttFrameOK(p, DOMAIN attendance) /\ p.user # u /\ RequestOK(p, attendance, now)
            /\ AloneOK(p, attendance, doubled) /\ DOMAIN attendance \subseteq DOMAIN attendance'
        BY <3>1, <3>2, <4>1, <4>2
      <4> HIDE DEF u, p
      <4>6. /\ \A i \in DOMAIN attendance : attendance[i].user # u => attendance'[i] = attendance[i]
            /\ \A i \in DOMAIN attendance' :
                 (i \notin DOMAIN attendance \/ attendance[i].user = u) => attendance'[i].user = u
        BY <4>3, <4>4 DEF u
      <4>7. AloneOK(p, attendance', doubled)
        BY ONLY <4>5, <4>6, OthersRequest
      <4> QED BY <4>7 DEF p
    <3> QED BY <3>1, <3>3, <3>4
  <2> QED BY <2>1, <2>2
<1>5. OneEach'
  BY OneEachStep, AttFrames DEF GoesOn
<1>6. RequestsInv'
  BY <1>4 DEF RequestsInv
<1> QED BY <1>3, <1>5, <1>6 DEF AttInv

LEMMA InsertInStep ==
  ASSUME AttInv, NEW r \in AttReq, InsertIn(r)
  PROVE  AttInv'
<1> DEFINE q == areq[r]
           row == [user |-> q.user, date |-> q.date,
                   checkIn |-> IF q.at = {} THEN now ELSE CHOOSE t \in q.at : TRUE,
                   checkOut |-> {}, total |-> 0, overtime |-> 0]
           n == Len(attendance) + 1
<1>1. /\ q \in [pc : {"findToday", "insertIn"}, user : AttUsers, date : Nat, at : MaybeTime]
      /\ q.pc = "insertIn" /\ RequestOK(q, attendance, now)
      /\ Alone(q, doubled) => AloneOK(q, attendance, doubled)
      /\ attendance \in Seq(AttendanceRow) /\ now \in Minutes
  BY AttFrameHas DEF InsertIn, AttInv, RequestsInv, AttendanceTypeOK, AttFrameOK
<1>2. /\ attendance' = Append(attendance, row) /\ AttGoto(r, AttIdle) /\ now' = now
      /\ doubled' = doubled
  BY DEF InsertIn
<1>3. /\ row.checkIn \in Minutes /\ row.checkIn <= now
      /\ AloneOK(q, attendance, doubled) =>
           \A i \in DOMAIN attendance : attendance[i].user = q.user /\ Clear(attendance[i], doubled) =>
             \A o \in attendance[i].checkOut : o <= row.checkIn
  <2>1. CASE q.at = {}
    <3>1. row.checkIn = now
      BY <2>1
    <3>2. \A i \in DOMAIN attendance : \A o \in attendance[i].checkOut : o <= now
      BY DEF AttInv, RowsInv, RowOK
    <3>3. now <= now
      BY <1>1, AttendanceAssumption DEF Minutes
    <3> HIDE DEF row
    <3> QED BY <1>1, <3>1, <3>2, <3>3
  <2>2. CASE q.at # {}
    <3>1. row.checkIn \in q.at
      BY <2>2
    <3>2. row.checkIn \in Minutes
      BY <1>1, <3>1 DEF MaybeTime
    <3> HIDE DEF row
    <3> QED BY <1>1, <3>1, <3>2 DEF RequestOK, AloneOK
  <2> QED BY <2>1, <2>2
<1>4. /\ row.user = q.user /\ row.date = q.date /\ row.checkOut = {} /\ row \in AttendanceRow
  <2>1. 0 \in Minutes /\ {} \in MaybeTime
    BY AttendanceAssumption DEF Minutes, MaybeTime
  <2> QED BY <1>1, <1>3, <2>1 DEF AttendanceRow
<1>5. q.date <= DateOf(now) /\ q.date \in Nat /\ q.pc # "idle"
  BY <1>1 DEF RequestOK
<1> HIDE DEF row
<1>6. /\ attendance' \in Seq(AttendanceRow)
      /\ DOMAIN attendance \subseteq DOMAIN attendance'
      /\ \A i \in DOMAIN attendance : attendance'[i] = attendance[i]
      /\ n \in DOMAIN attendance' /\ attendance'[n] = row
      /\ \A i \in DOMAIN attendance' : i = n \/ i \in DOMAIN attendance
      /\ n \notin DOMAIN attendance
  BY <1>1, <1>2, <1>4
<1> HIDE DEF n
<1>7. RowOK(row, now) /\ RowExact(row, doubled)
  BY <1>3, <1>4, <1>5 DEF RowOK, RowExact
<1>8. ASSUME NEW i \in DOMAIN attendance' PROVE RowOK(attendance'[i], now)
                                                  /\ RowExact(attendance'[i], doubled)
  BY <1>6, <1>7 DEF AttInv, RowsInv
<1>9. ASSUME NEW i \in DOMAIN attendance, attendance[i].user = q.user,
             Clear(attendance[i], doubled), Clear(row, doubled)
      PROVE  /\ attendance[i].date # row.date /\ ~ (row.date < attendance[i].date)
             /\ \A o \in attendance[i].checkOut : o <= row.checkIn
  <2>0. AloneOK(q, attendance, doubled)
    BY <1>1, <1>4, <1>9 DEF Alone, Clear, DateOfRequest
  <2>1. attendance[i].date # q.date /\ attendance[i].date <= q.date
    BY <1>1, <1>9, <2>0 DEF AloneOK
  <2>2. attendance[i].date \in Nat /\ q.date \in Nat
    BY <1>1, RowDates
  <2> QED BY <1>3, <1>4, <1>9, <2>0, <2>1, <2>2
<1>10. RowsOrdered(attendance', doubled)
  <2> SUFFICES ASSUME NEW i \in DOMAIN attendance', NEW j \in DOMAIN attendance', i # j,
                      attendance'[i].user = attendance'[j].user,
                      Clear(attendance'[i], doubled), Clear(attendance'[j], doubled)
               PROVE  /\ attendance'[i].date # attendance'[j].date
                      /\ attendance'[i].date < attendance'[j].date =>
                           \A t \in attendance'[i].checkOut : t <= attendance'[j].checkIn
    BY DEF RowsOrdered
  <2>1. CASE i = n
    BY <1>4, <1>6, <1>9, <2>1
  <2>2. CASE j = n
    BY <1>4, <1>6, <1>9, <2>2
  <2>3. CASE i # n /\ j # n
    BY <1>6, <2>3 DEF AttInv, RowsInv, RowsOrdered
  <2> QED BY <2>1, <2>2, <2>3
<1>11. RowsInv'
  BY <1>2, <1>8, <1>10 DEF RowsInv
<1>12. \A i \in DOMAIN attendance' : i \notin DOMAIN attendance => attendance'[i].user = q.user
  BY <1>4, <1>6
<1> QED BY <1>2, <1>5, <1>6, <1>11, <1>12, AttWriteStep

\* The columns that a check-out does not write hold what it would write, if its
\* user has no other request.
LEMMA SaveWriteOutStep ==
  ASSUME AttInv, NEW r \in AttReq, SaveWriteOut(r)
  PROVE  AttInv'
<1> DEFINE q == areq[r]
           old == attendance[q.id]
           m == [c \in DOMAIN old |-> IF c \in q.diff THEN q.row[c] ELSE old[c]]
<1>1. /\ q \in [pc : {"out", "outWrite"}, user : AttUsers, id : DOMAIN attendance,
                row : AttendanceRow, diff : SUBSET HourColumns]
      /\ q.pc = "outWrite" /\ RequestOK(q, attendance, now)
      /\ Alone(q, doubled) => AloneOK(q, attendance, doubled)
      /\ attendance \in Seq(AttendanceRow) /\ now \in Minutes
  BY AttFrameHas DEF SaveWriteOut, AttInv, RequestsInv, AttendanceTypeOK, AttFrameOK
<1>2. old \in AttendanceRow /\ q.row \in AttendanceRow /\ q.id \in DOMAIN attendance
        /\ RowOK(old, now)
  BY <1>1 DEF AttInv, RowsInv
<1>3. DOMAIN old = {"user", "date", "checkIn", "checkOut", "total", "overtime"}
  BY <1>2 DEF AttendanceRow
<1>4. /\ m = [c \in {"user", "date", "checkIn", "checkOut", "total", "overtime"} |-> m[c]]
      /\ m["user"] = old.user /\ m["date"] = old.date /\ m["checkIn"] = old.checkIn
      /\ m["checkOut"] = IF "checkOut" \in q.diff THEN q.row.checkOut ELSE old.checkOut
      /\ m["total"] = IF "total" \in q.diff THEN q.row.total ELSE old.total
      /\ m["overtime"] = IF "overtime" \in q.diff THEN q.row.overtime ELSE old.overtime
  BY <1>1, <1>3 DEF HourColumns
<1>5. attendance' = [attendance EXCEPT ![q.id] = m] /\ AttGoto(r, AttIdle) /\ now' = now
        /\ doubled' = doubled
  BY DEF SaveWriteOut
<1> HIDE DEF m
<1>6. m = [user |-> m.user, date |-> m.date, checkIn |-> m.checkIn, checkOut |-> m.checkOut,
           total |-> m.total, overtime |-> m.overtime]
  BY <1>4
<1>7. /\ m.user = old.user /\ m.date = old.date /\ m.checkIn = old.checkIn
      /\ m.checkOut \in {q.row.checkOut, old.checkOut}
      /\ m.total \in {q.row.total, old.total} /\ m.overtime \in {q.row.overtime, old.overtime}
  BY <1>4
<1>8. m \in AttendanceRow
  BY <1>2, <1>6, <1>7 DEF AttendanceRow
<1>9. RowOK(m, now)
  BY <1>1, <1>2, <1>7 DEF RowOK, RequestOK
<1>10. /\ attendance' \in Seq(AttendanceRow) /\ DOMAIN attendance' = DOMAIN attendance
       /\ \A i \in DOMAIN attendance : attendance'[i] = IF i = q.id THEN m ELSE attendance[i]
  BY <1>1, <1>5, <1>8
<1>11. q.pc # "idle" /\ old.user = q.user /\ old.date = DateOfRequest(q)
  BY <1>1 DEF RequestOK, DateOfRequest
<1>12. Clear(m, doubled) => AloneOK(q, attendance, doubled)
  BY <1>1, <1>7, <1>11 DEF Clear, Alone
<1>13. RowExact(m, doubled)
  <2> SUFFICES ASSUME Clear(m, doubled), NEW o \in m.checkOut
               PROVE  m.checkIn <= o /\ m.total = o - m.checkIn
    BY DEF RowExact
  <2>1. PICK t \in Minutes :
          q.row.checkOut = {t} /\ q.row.total = t - old.checkIn /\ old.checkIn <= t
    BY <1>1, <1>12 DEF AloneOK
  <2>2. m.checkOut = q.row.checkOut /\ m.total = q.row.total
    BY <1>1, <1>4, <1>12 DEF AloneOK, HourColumns
  <2> QED BY <1>7, <2>1, <2>2
<1>14. \A i \in DOMAIN attendance' : RowOK(attendance'[i], now) /\ RowExact(attendance'[i], doubled)
  BY <1>9, <1>10, <1>13 DEF AttInv, RowsInv
<1>15. \A k \in DOMAIN attendance :
         /\ attendance'[k].user = attendance[k].user
         /\ attendance'[k].date = attendance[k].date
         /\ attendance'[k].checkIn = attendance[k].checkIn
         /\ k # q.id => attendance'[k].checkOut = attendance[k].checkOut
         /\ attendance[k].date \in Nat
         /\ Clear(attendance'[k], doubled) <=> Clear(attendance[k], doubled)
  BY <1>7, <1>10, RowDates DEF Clear
<1>16. RowsOrdered(attendance', doubled)
  <2> SUFFICES ASSUME NEW i \in DOMAIN attendance', NEW j \in DOMAIN attendance', i # j,
                      attendance'[i].user = attendance'[j].user,
                      Clear(attendance'[i], doubled), Clear(attendance'[j], doubled)
               PROVE  /\ attendance'[i].date # attendance'[j].date
                      /\ attendance'[i].date < attendance'[j].date =>
                           \A t \in attendance'[i].checkOut : t <= attendance'[j].checkIn
    BY DEF RowsOrdered
  <2>2. i \in DOMAIN attendance /\ j \in DOMAIN attendance
    BY <1>10
  <2>3. attendance[i].date # attendance[j].date
    BY <1>15, <2>2 DEF AttInv, RowsInv, RowsOrdered
  <2>4. CASE i = q.id
    <3>0. AloneOK(q, attendance, doubled)
      BY <1>10, <1>12, <2>2, <2>4
    <3>1. attendance[j].date < attendance[i].date
      BY <1>1, <1>11, <1>15, <2>2, <2>4, <3>0 DEF AloneOK
    <3> QED BY <1>15, <2>2, <2>3, <3>1
  <2>5. CASE i # q.id
    BY <1>15, <2>2, <2>3, <2>5 DEF AttInv, RowsInv, RowsOrdered
  <2> QED BY <2>4, <2>5
<1>17. RowsInv'
  BY <1>5, <1>14, <1>16 DEF RowsInv
<1>18. \A i \in DOMAIN attendance :
         attendance[i].user # q.user => attendance'[i] = attendance[i]
  BY <1>10, <1>11
<1> QED BY <1>5, <1>10, <1>11, <1>15, <1>17, <1>18, AttWriteStep

\* The history only grows, and less is known of fewer rows.
LEMMA LessIsClear ==
  ASSUME NEW D, NEW E, D \subseteq E
  PROVE  /\ \A a : Clear(a, E) => Clear(a, D)
         /\ \A q : Alone(q, E) => Alone(q, D)
         /\ \A a : RowExact(a, D) => RowExact(a, E)
         /\ \A att : RowsOrdered(att, D) => RowsOrdered(att, E)
         /\ \A q, att : AloneOK(q, att, D) => AloneOK(q, att, E)
<1>1. \A a : Clear(a, E) => Clear(a, D)
  BY DEF Clear
<1>2. \A q : Alone(q, E) => Alone(q, D)
  BY DEF Alone
<1>3. \A a : RowExact(a, D) => RowExact(a, E)
  BY <1>1 DEF RowExact
<1>4. \A att : RowsOrdered(att, D) => RowsOrdered(att, E)
  BY <1>1 DEF RowsOrdered
<1>5. ASSUME NEW q, NEW att, AloneOK(q, att, D) PROVE AloneOK(q, att, E)
  BY <1>1, <1>5 DEF AloneOK
<1> QED BY <1>1, <1>2, <1>3, <1>4, <1>5

\* A request arrives: with others of its user under way it puts all their dates
\* and its own into the history, else it has him to itself.
LEMMA ArriveStep ==
  ASSUME AttInv, NEW r \in AttReq, NEW u \in AttUsers, NEW f \in AttFrame,
         f.pc \in {"findToday", "findOpen"}, f.user = u, f.date = Today,
         f.pc = "findToday" => f.at = {} \/ f.at = {now},
         Arrive(r, u, f)
  PROVE  AttInv'
<1>1. now \in Nat /\ now \in Minutes /\ DateOf(now) \in Nat /\ Today = DateOf(now)
        /\ DateOf(now) <= DateOf(now) /\ now <= now
  <2>1. now \in Nat
    BY AttendanceAssumption DEF AttInv, AttendanceTypeOK, Minutes
  <2> QED BY <2>1, DatesGrow DEF AttInv, AttendanceTypeOK, Today, DateOf
<1>2. /\ areq' = [areq EXCEPT ![r] = f] /\ areq \in [AttReq -> AttFrame]
      /\ areq[r].pc = "idle" /\ UNCHANGED <<now, attendance>>
  BY DEF Arrive, AttGoto, AttInv, AttendanceTypeOK
<1>3. \A s \in AttReq : areq'[s] = IF s = r THEN f ELSE areq[s]
  BY <1>2
<1>4. ASSUME NEW s \in AttReq, areq[s].pc # "idle"
      PROVE  DateOfRequest(areq[s]) \in Nat
  <2>1. AttFrameOK(areq[s], DOMAIN attendance)
    BY <1>2, AttFrameHas
  <2> QED BY <1>4, <2>1 DEF AttFrameOK, DateOfRequest, AttendanceRow
<1>5. /\ doubled \subseteq doubled' /\ doubled' \in SUBSET (AttUsers \X Nat)
      /\ \A s \in AttReq : areq[s].pc # "idle" /\ areq[s].user = u =>
           <<u, Today>> \in doubled' /\ <<u, DateOfRequest(areq[s])>> \in doubled'
  <2>1. UnderWay(u) = {} \/ doubled' =
          doubled \cup ({u} \X ({Today} \cup {DateOfRequest(q) : q \in UnderWay(u)}))
    BY DEF Arrive
  <2>2. UnderWay(u) = {} => doubled' = doubled
    BY DEF Arrive
  <2>3. \A s \in AttReq : areq[s].pc # "idle" /\ areq[s].user = u => areq[s] \in UnderWay(u)
    BY DEF UnderWay
  <2>4. {DateOfRequest(q) : q \in UnderWay(u)} \subseteq Nat
    BY <1>4 DEF UnderWay
  <2>5. doubled \in SUBSET (AttUsers \X Nat) /\ Today \in Nat
    BY <1>1 DEF AttInv, AttendanceTypeOK
  <2>6. CASE UnderWay(u) = {}
    BY <2>2, <2>3, <2>5, <2>6
  <2>7. CASE UnderWay(u) # {}
    <3>1. doubled' = doubled \cup ({u} \X ({Today} \cup {DateOfRequest(q) : q \in UnderWay(u)}))
      BY <2>1, <2>7
    <3>2. \A s \in AttReq : areq[s].pc # "idle" /\ areq[s].user = u =>
            DateOfRequest(areq[s]) \in {DateOfRequest(q) : q \in UnderWay(u)}
      BY <2>3
    <3> QED BY <2>4, <2>5, <3>1, <3>2
  <2> QED BY <2>6, <2>7
<1>6. AttendanceTypeOK'
  <2>1. areq' \in [AttReq -> AttFrame]
    BY <1>2
  <2>2. AttFrame' = AttFrame
    BY <1>2 DEF AttFrame
  <2> QED BY <1>2, <1>5, <2>1, <2>2 DEF AttInv, AttendanceTypeOK
<1>7. DateOfRequest(f) = Today
  BY DEF DateOfRequest
<1>8. OneEach'
  <2> SUFFICES ASSUME NEW p \in AttReq, NEW s \in AttReq, p # s, areq'[p].pc # "idle",
                      areq'[s].pc # "idle", areq'[p].user = areq'[s].user
               PROVE  ~ Alone(areq'[p], doubled')
    BY DEF OneEach
  <2>1. CASE p = r
    BY <1>3, <1>5, <1>7, <2>1 DEF Alone
  <2>2. CASE s = r
    BY <1>3, <1>5, <2>2 DEF Alone
  <2>3. CASE p # r /\ s # r
    BY <1>3, <1>5, <2>3, LessIsClear DEF AttInv, OneEach
  <2> QED BY <2>1, <2>2, <2>3
<1>9. RowsInv'
  BY <1>2, <1>5, LessIsClear DEF AttInv, RowsInv
<1>10. RequestOK(f, attendance, now) /\ AloneOK(f, attendance, doubled')
  <2>1. \A i \in DOMAIN attendance :
          attendance[i].date <= Today /\ \A o \in attendance[i].checkOut : o <= now
    BY <1>1 DEF AttInv, RowsInv, RowOK
  <2> QED BY <1>1, <2>1 DEF RequestOK, AloneOK
<1>11. RequestsInv'
  BY <1>2, <1>3, <1>5, <1>10, LessIsClear DEF AttInv, RequestsInv
<1> QED BY <1>6, <1>8, <1>9, <1>11 DEF AttInv

LEMMA BeginStep ==
  ASSUME AttInv, NEW r \in AttReq, NEW u \in AttUsers,
         BeginCheckOut(r, u) \/ \E at \in MaybeTime : (at = {} \/ at = {now}) /\ BeginCheckIn(r, u, at)
  PROVE  AttInv'
<1>1. Today \in Nat
  <2>1. now \in Nat
    BY AttendanceAssumption DEF AttInv, AttendanceTypeOK, Minutes
  <2> QED BY <2>1, DatesGrow DEF Today, DateOf
<1>2. CASE BeginCheckOut(r, u)
  <2> DEFINE f == [pc |-> "findOpen", user |-> u, date |-> Today]
  <2>1. f \in AttFrame /\ f.pc = "findOpen" /\ f.user = u /\ f.date = Today
    BY <1>1, AttFrames
  <2>2. Arrive(r, u, f)
    BY <1>2 DEF BeginCheckOut
  <2> HIDE DEF f
  <2> QED BY <2>1, <2>2, ArriveStep
<1>3. ASSUME NEW at \in MaybeTime, at = {} \/ at = {now}, BeginCheckIn(r, u, at) PROVE AttInv'
  <2> DEFINE f == [pc |-> "findToday", user |-> u, date |-> Today, at |-> at]
  <2>1. f \in AttFrame /\ f.pc = "findToday" /\ f.user = u /\ f.date = Today /\ f.at = at
    BY <1>1, AttFrames
  <2>2. Arrive(r, u, f)
    BY <1>3 DEF BeginCheckIn
  <2> HIDE DEF f
  <2> QED BY <1>3, <2>1, <2>2, ArriveStep
<1> QED BY <1>2, <1>3

LEMMA FindTodayStep ==
  ASSUME AttInv, NEW r \in AttReq, FindToday(r)
  PROVE  AttInv'
<1> DEFINE q == areq[r]
           f == [q EXCEPT !.pc = "insertIn"]
<1>1. /\ q \in [pc : {"findToday", "insertIn"}, user : AttUsers, date : Nat, at : MaybeTime]
      /\ q.pc = "findToday" /\ RequestOK(q, attendance, now)
      /\ Alone(q, doubled) => AloneOK(q, attendance, doubled)
  BY AttFrameHas DEF FindToday, AttInv, RequestsInv, AttendanceTypeOK, AttFrameOK
<1>2. UNCHANGED <<now, attendance, doubled>>
  BY DEF FindToday
<1>3. CASE RowsOf(q.user, q.date) = {} /\ AttGoto(r, f)
  <2>1. f \in [pc : {"findToday", "insertIn"}, user : AttUsers, date : Nat, at : MaybeTime]
          /\ f.pc = "insertIn" /\ f.user = q.user /\ f.date = q.date /\ f.at = q.at
    BY <1>1
  <2>2. f \in AttFrame
    BY <2>1, AttFrames
  <2> HIDE DEF f
  <2>3. RequestOK(f, attendance, now)
    BY <1>1, <2>1 DEF RequestOK
  <2>4. GoesOn(r, f)
    BY <1>1, <2>1 DEF GoesOn, DateOfRequest
  <2>5. ASSUME Alone(f, doubled) PROVE AloneOK(f, attendance, doubled)
    <3>1. AloneOK(q, attendance, doubled)
      BY <1>1, <2>1, <2>5 DEF Alone, DateOfRequest
    <3> QED BY <1>1, <1>3, <2>1, <3>1 DEF AloneOK, RowsOf
  <2> QED BY <1>2, <1>3, <2>2, <2>3, <2>4, <2>5, AttQuietStep
<1>4. CASE AttGoto(r, AttIdle)
  BY <1>2, <1>4, AttFrames, AttQuietStep DEF RequestOK, GoesOn, Alone
<1> QED BY <1>3, <1>4 DEF FindToday

\* The row that a check-out finds is the last clear one of its user.
LEMMA FindOpenStep ==
  ASSUME AttInv, NEW r \in AttReq, FindOpen(r)
  PROVE  AttInv'
<1> DEFINE q == areq[r]
<1>1. /\ q \in [pc : {"findOpen"}, user : AttUsers, date : Nat]
      /\ q.pc = "findOpen" /\ RequestOK(q, attendance, now)
      /\ Alone(q, doubled) => AloneOK(q, attendance, doubled)
  BY AttFrameHas DEF FindOpen, AttInv, RequestsInv, AttendanceTypeOK, AttFrameOK
<1>2. UNCHANGED <<now, attendance, doubled>>
  BY DEF FindOpen
<1>3. CASE AttGoto(r, AttIdle)
  BY <1>2, <1>3, AttFrames, AttQuietStep DEF RequestOK, GoesOn, Alone
<1>4. ASSUME NEW i \in RowsOf(q.user, q.date), attendance[i].checkOut = {},
             AttGoto(r, [pc |-> "out", user |-> q.user, id |-> i,
                         row |-> Closed(attendance[i]), diff |-> {}])
      PROVE  AttInv'
  <2> DEFINE row == Closed(attendance[i])
             f == [pc |-> "out", user |-> q.user, id |-> i, row |-> row, diff |-> {}]
  <2>1. i \in DOMAIN attendance /\ attendance[i].user = q.user /\ attendance[i].date = q.date
          /\ attendance[i] \in AttendanceRow /\ RowOK(attendance[i], now)
    BY <1>4 DEF RowsOf, AttInv, RowsInv, AttendanceTypeOK
  <2>2. /\ now \in Minutes /\ now \in Nat /\ attendance[i].checkIn \in Nat
        /\ attendance[i].checkIn <= now /\ MaxTime \in Nat /\ now <= MaxTime
    BY <2>1, AttendanceAssumption
      DEF AttInv, AttendanceTypeOK, AttendanceRow, Minutes, RowOK
  <2>3. /\ row.checkOut = {now} /\ row.total = now - attendance[i].checkIn
        /\ row \in AttendanceRow /\ row.date = attendance[i].date
    <3> DEFINE total == now - attendance[i].checkIn
               over == IF total > STANDARD_DAY_MINUTES THEN total - STANDARD_DAY_MINUTES ELSE 0
    <3>1. total \in Minutes /\ over \in Minutes /\ {now} \in MaybeTime
      BY <2>2, AttendanceAssumption DEF Minutes, MaybeTime
    <3>2. row = [attendance[i] EXCEPT !.checkOut = {now}, !.total = total, !.overtime = over]
      BY DEF Closed
    <3> HIDE DEF row, over, total
    <3>3. row \in AttendanceRow /\ row.checkOut = {now} /\ row.total = total
            /\ row.date = attendance[i].date
      BY <2>1, <3>1, <3>2 DEF AttendanceRow
    <3> QED BY <3>3 DEF total
  <2>9. AttGoto(r, f)
    BY <1>4
  <2> HIDE DEF row
  <2>4. f \in AttFrame
    BY <1>1, <2>1, <2>3, AttFrames
  <2>5. /\ f.pc = "out" /\ f.user = q.user /\ f.id = i /\ f.row = row /\ f.diff = {}
        /\ DateOfRequest(f) = q.date /\ DateOfRequest(q) = q.date
    BY <1>1, <2>1, <2>3 DEF DateOfRequest
  <2> HIDE DEF f
  <2>6. now <= now
    BY <2>2
  <2>7. RequestOK(f, attendance, now)
    BY <2>1, <2>3, <2>5, <2>6 DEF RequestOK
  <2>8. GoesOn(r, f)
    BY <1>1, <2>5 DEF GoesOn
  <2>10. ASSUME Alone(f, doubled) PROVE AloneOK(f, attendance, doubled)
    <3>1. AloneOK(q, attendance, doubled) /\ Clear(attendance[i], doubled)
      BY <1>1, <2>1, <2>5, <2>10 DEF Alone, Clear
    <3>2. ASSUME NEW j \in DOMAIN attendance, j # i, attendance[j].user = q.user,
                 Clear(attendance[j], doubled)
          PROVE  attendance[j].date < attendance[i].date
      <4>1. attendance[j].date <= q.date
        BY <1>1, <3>1, <3>2 DEF AloneOK
      <4>2. attendance[j].date # attendance[i].date
        BY <2>1, <3>1, <3>2 DEF AttInv, RowsInv, RowsOrdered
      <4>3. attendance[j].date \in Nat /\ q.date \in Nat
        BY <1>1, RowDates
      <4> QED BY <2>1, <4>1, <4>2, <4>3
    <3> QED BY <1>4, <2>1, <2>2, <2>3, <2>5, <3>2 DEF AloneOK
  <2> QED BY <1>2, <2>4, <2>7, <2>8, <2>9, <2>10, AttQuietStep
<1>5. CASE RowsOf(q.user, q.date) # {}
  <2>1. PICK i \in RowsOf(q.user, q.date) :
          AttGoto(r, IF attendance[i].checkOut # {} THEN AttIdle
                     ELSE [pc |-> "out", user |-> q.user, id |-> i,
                           row |-> Closed(attendance[i]), diff |-> {}])
    BY <1>5 DEF FindOpen
  <2>2. CASE attendance[i].checkOut # {}
    BY <1>3, <2>1, <2>2
  <2>3. CASE attendance[i].checkOut = {}
    <3>1. AttGoto(r, [pc |-> "out", user |-> q.user, id |-> i,
                      row |-> Closed(attendance[i]), diff |-> {}])
      BY <2>1, <2>3
    <3> QED BY <1>4, <2>3, <3>1
  <2> QED BY <2>2, <2>3
<1>6. CASE RowsOf(q.user, q.date) = {}
  BY <1>3, <1>6 DEF FindOpen
<1> QED BY <1>5, <1>6

LEMMA SaveReadOutStep ==
  ASSUME AttInv, NEW r \in AttReq, SaveReadOut(r)
  PROVE  AttInv'
<1> DEFINE q == areq[r]
           diff == {c \in HourColumns : q.row[c] # attendance[q.id][c]}
           f == [q EXCEPT !.pc = "outWrite", !.diff = diff]
<1>1. /\ q \in [pc : {"out", "outWrite"}, user : AttUsers, id : DOMAIN attendance,
                row : AttendanceRow, diff : SUBSET HourColumns]
      /\ q.pc = "out" /\ RequestOK(q, attendance, now)
      /\ Alone(q, doubled) => AloneOK(q, attendance, doubled)
  BY AttFrameHas DEF SaveReadOut, AttInv, RequestsInv, AttendanceTypeOK, AttFrameOK
<1>2. AttGoto(r, f) /\ UNCHANGED <<now, attendance, doubled>>
  BY DEF SaveReadOut
<1>3. /\ diff \in SUBSET HourColumns
      /\ \A c \in HourColumns : c \in diff \/ q.row[c] = attendance[q.id][c]
  OBVIOUS
<1> HIDE DEF diff
<1>4. /\ f \in [pc : {"out", "outWrite"}, user : AttUsers, id : DOMAIN attendance,
                row : AttendanceRow, diff : SUBSET HourColumns]
      /\ f.pc = "outWrite" /\ f.user = q.user /\ f.id = q.id /\ f.row = q.row /\ f.diff = diff
  BY <1>1, <1>3
<1>5. f \in AttFrame
  BY <1>4, AttFrames
<1> HIDE DEF f
<1>6. RequestOK(f, attendance, now)
  BY <1>1, <1>4 DEF RequestOK
<1>7. GoesOn(r, f) /\ DateOfRequest(f) = DateOfRequest(q)
  BY <1>1, <1>4 DEF GoesOn, DateOfRequest
<1>8. ASSUME Alone(f, doubled) PROVE AloneOK(f, attendance, doubled)
  <2>1. AloneOK(q, attendance, doubled)
    BY <1>1, <1>4, <1>7, <1>8 DEF Alone
  <2> QED BY <1>1, <1>3, <1>4, <2>1 DEF AloneOK
<1> QED BY <1>2, <1>5, <1>6, <1>7, <1>8, AttQuietStep

LEMMA AttInvStep == AttInv /\ [AttendanceNext]_attendanceVars => AttInv'
<1> SUFFICES ASSUME AttInv, [AttendanceNext]_attendanceVars PROVE AttInv'
  OBVIOUS
<1>1. CASE UNCHANGED attendanceVars
  <2>1. UNCHANGED <<now, attendance, doubled, areq>>
    BY <1>1 DEF attendanceVars
  <2>2. AttendanceTypeOK'
    BY <2>1 DEF AttInv, AttendanceTypeOK, AttFrame
  <2>3. OneEach' /\ RowsInv' /\ RequestsInv'
    BY <2>1 DEF AttInv, OneEach, RowsInv, RequestsInv
  <2> QED BY <2>2, <2>3 DEF AttInv
<1>2. ASSUME NEW r \in AttReq, AbortAttendance(r) PROVE AttInv'
  BY <1>2, AttFrames, AttQuietStep DEF AbortAttendance, RequestOK, GoesOn, Alone
<1>3. ASSUME NEW r \in AttReq, NEW u \in AttUsers,
             BeginCheckOut(r, u) \/ BeginCheckIn(r, u, {}) \/ BeginCheckIn(r, u, {now})
      PROVE  AttInv'
  <2>1. {} \in MaybeTime /\ {now} \in MaybeTime
    BY DEF AttInv, AttendanceTypeOK, MaybeTime
  <2> QED BY <1>3, <2>1, BeginStep
<1> QED
  BY <1>1, <1>2, <1>3, TickStep, InsertInStep, SaveWriteOutStep, FindTodayStep, FindOpenStep,
     SaveReadOutStep DEF AttendanceNext

LEMMA AttInvAlways == AttendanceSpec => []AttInv
  BY AttInvInit, AttInvStep, PTL DEF AttendanceSpec

\* Rows, the clock, the history and what requests hold are of their types,
\* whatever requests a user sends at once: no time is negative.
THEOREM AttendanceTypeCorrect == AttendanceSpec => []AttendanceTypeOK
<1>1. AttInv => AttendanceTypeOK BY DEF AttInv
<1> QED BY <1>1, AttInvAlways, PTL

\* Shifts of a user on dates on which he waited for his answers never overlap, and
\* their hours are those between the stamps: across midnights, beside dates on
\* which two of his requests met, in whatever order requests of others run, and
\* with requests that stand still for days.
THEOREM HoursCountOnce == AttendanceSpec => []NoHourTwice
<1>1. ASSUME AttInv PROVE NoHourTwice
  <2>0. \A i \in Undisturbed : i \in DOMAIN attendance /\ Clear(attendance[i], doubled)
    BY DEF Undisturbed, Clear
  <2>1. ASSUME NEW i \in Undisturbed, NEW j \in Undisturbed, i # j,
               attendance[i].user = attendance[j].user
        PROVE  \/ \A t \in attendance[i].checkOut : t <= attendance[j].checkIn
               \/ \A t \in attendance[j].checkOut : t <= attendance[i].checkIn
    <3>1. attendance[i].date \in Nat /\ attendance[j].date \in Nat
      BY <1>1, <2>0, RowDates
    <3>2. attendance[i].date < attendance[j].date \/ attendance[j].date < attendance[i].date
      BY <1>1, <2>0, <2>1, <3>1 DEF AttInv, RowsInv, RowsOrdered
    <3> QED BY <1>1, <2>0, <2>1, <3>2 DEF AttInv, RowsInv, RowsOrdered
  <2>2. \A i \in Undisturbed :
          \A t \in attendance[i].checkOut : attendance[i].total = t - attendance[i].checkIn
    BY <1>1, <2>0 DEF AttInv, RowsInv, RowExact
  <2> QED BY <2>1, <2>2 DEF NoHourTwice
<1> QED BY <1>1, AttInvAlways, PTL

-----------------------------------------------------------------------------
\* Posts.  A counter and the handlers that owe it a step add up to the rows.

TogglePcs == {"findLike", "insertLike", "countLike", "deleteLike", "countUnlike"}
CountPcs == {"countLike", "countUnlike", "countComment", "countShare"}

\* A toggling handler carries its user, a saving one the post it loaded.
LEMMA PostFrameKinds ==
  ASSUME NEW f \in PostFrame
  PROVE  /\ f.pc \in {"idle", "insertComment", "countComment", "countShare", "softDelete",
                      "post", "postWrite"} \cup TogglePcs
         /\ f.pc \in TogglePcs => f.user \in PostUsers
         /\ f.pc = "deleteLike" => f.id \in 1 .. MaxLikes
         /\ f.pc \in {"post", "postWrite"} =>
              f \in [pc : {"post", "postWrite"}, row : PostRow, diff : SUBSET PostColumns]
  BY DEF PostFrame, TogglePcs

LEMMA PostFrames ==
  /\ PostIdle \in PostFrame /\ PostIdle.pc = "idle"
  /\ \A pc \in {"insertComment", "countComment", "countShare", "softDelete"} :
       [pc |-> pc] \in PostFrame
  /\ \A u \in PostUsers : \A pc \in {"findLike", "insertLike", "countLike", "countUnlike"} :
       [pc |-> pc, user |-> u] \in PostFrame
  /\ \A u \in PostUsers, i \in 1 .. MaxLikes :
       [pc |-> "deleteLike", user |-> u, id |-> i] \in PostFrame
  /\ \A f \in [pc : {"post", "postWrite"}, row : PostRow, diff : SUBSET PostColumns] :
       f \in PostFrame
  BY DEF PostFrame, PostIdle

AtCount(pc) == Cardinality(At(pc))
One(b) == IF b THEN 1 ELSE 0

\* A handler that goes from one place to another moves one count of each.
LEMMA AtCountMoves ==
  ASSUME IsFiniteSet(PostReq), PostsTypeOK, NEW r \in PostReq, NEW f \in PostFrame,
         PostGoto(r, f), NEW pc
  PROVE  /\ AtCount(pc) \in Nat /\ AtCount(pc)' \in Nat
         /\ AtCount(pc)' = AtCount(pc) + One(f.pc = pc) - One(preq[r].pc = pc)
<1>1. IsFiniteSet(At(pc)) /\ IsFiniteSet(At(pc)')
  <2>1. At(pc) \in SUBSET PostReq /\ At(pc)' \in SUBSET PostReq
    BY DEF At
  <2> QED BY <2>1, FS_Subset
<1>2. AtCount(pc) \in Nat /\ AtCount(pc)' \in Nat
  BY <1>1, FS_CardinalityType DEF AtCount
<1>3. preq' = [preq EXCEPT ![r] = f] /\ preq \in [PostReq -> PostFrame]
  BY DEF PostGoto, PostsTypeOK
<1>4. CASE f.pc = pc
  <2>1. At(pc)' = At(pc) \cup {r}
    BY <1>3, <1>4 DEF At
  <2>2. r \in At(pc) <=> preq[r].pc = pc
    BY DEF At
  <2> QED BY <1>1, <1>2, <1>4, <2>1, <2>2, FS_AddElement DEF AtCount, One
<1>5. CASE f.pc # pc
  <2>1. At(pc)' = At(pc) \ {r}
    BY <1>3, <1>5 DEF At
  <2>2. r \in At(pc) <=> preq[r].pc = pc
    BY DEF At
  <2> QED BY <1>1, <1>2, <1>5, <2>1, <2>2, FS_RemoveElement DEF AtCount, One
<1> QED BY <1>2, <1>4, <1>5

-----------------------------------------------------------------------------
Liked == {u \in PostUsers : like[u] # 0}

\* Neither the post nor a row that waits to be saved over it claims more
\* comments and shares than there are and will be counted.
Modest(row) ==
  /\ row.commentsCount + AtCount("countComment") <= comments
  /\ row.sharesCount + AtCount("countShare") <= shares

AllModest ==
  /\ Modest(post)
  /\ \A r \in PostReq : preq[r].pc \in {"post", "postWrite"} => Modest(preq[r].row)

\* Who toggles alone finds his like as he found it before.
TogglesAlone(r) ==
  preq[r].pc \in TogglePcs =>
    /\ \A s \in PostReq :
         preq[s].pc \in TogglePcs /\ preq[s].user = preq[r].user => s = r
    /\ preq[r].pc = "deleteLike" => like[preq[r].user] = preq[r].id
    /\ preq[r].pc = "insertLike" => like[preq[r].user] = 0

OneToggle == ~DoubleToggles => \A r \in PostReq : TogglesAlone(r)

Exact ==
  ~DoubleToggles /\ ~disturbed =>
    /\ post.likesCount + AtCount("countLike") - AtCount("countUnlike") = Cardinality(Liked)
    /\ post.commentsCount + AtCount("countComment") = comments

PostsInv == PostsTypeOK /\ AllModest /\ OneToggle /\ Exact

-----------------------------------------------------------------------------
LEMMA PostsInvInit == IsFiniteSet(PostReq) /\ PostsInit => PostsInv
<1> SUFFICES ASSUME IsFiniteSet(PostReq), PostsInit PROVE PostsInv
  OBVIOUS
<1>1. PostsTypeOK
  <2>1. post \in PostRow
    BY DEF PostsInit, PostRow
  <2>2. preq \in [PostReq -> PostFrame]
    BY PostFrames DEF PostsInit
  <2>3. like \in [PostUsers -> 0 .. MaxLikes] /\ nextLike \in 1 .. MaxLikes + 1
    BY PostsAssumption DEF PostsInit
  <2>4. comments \in Nat /\ shares \in Nat /\ disturbed \in BOOLEAN
    BY DEF PostsInit
  <2> QED BY <2>1, <2>2, <2>3, <2>4 DEF PostsTypeOK
<1>2. \A r \in PostReq : preq[r].pc = "idle"
  BY PostFrames DEF PostsInit
<1>3. \A pc \in CountPcs : AtCount(pc) = 0
  <2>1. \A pc \in CountPcs : At(pc) = {}
    BY <1>2 DEF At, CountPcs
  <2> QED BY <2>1, FS_EmptySet DEF AtCount
<1>4. Cardinality(Liked) = 0
  <2>1. Liked = {}
    BY DEF Liked, PostsInit
  <2> QED BY <2>1, FS_EmptySet
<1>5. AllModest /\ Exact
  BY <1>2, <1>3, <1>4 DEF PostsInit, AllModest, Modest, Exact, CountPcs
<1> QED BY <1>1, <1>2, <1>5 DEF PostsInv, OneToggle, TogglesAlone, TogglePcs

\* A like changes by the hand of its user, who toggles alone.
LEMMA OneToggleKept ==
  ASSUME PostsTypeOK, OneToggle, NEW r \in PostReq, NEW f \in PostFrame, PostGoto(r, f),
         f.pc \in TogglePcs /\ ~DoubleToggles =>
           \/ preq[r].pc \in TogglePcs /\ preq[r].user = f.user
           \/ ~Toggling(f.user),
         f.pc = "deleteLike" => like'[f.user] = f.id,
         f.pc = "insertLike" => like'[f.user] = 0,
         \/ like' = like
         \/ preq[r].pc \in TogglePcs /\ \A u \in PostUsers \ {preq[r].user} : like'[u] = like[u]
  PROVE  OneToggle'
<1> SUFFICES ASSUME ~DoubleToggles, NEW s \in PostReq PROVE TogglesAlone(s)'
  BY DEF OneToggle
<1>1. \A q \in PostReq : preq'[q] = IF q = r THEN f ELSE preq[q]
  BY DEF PostGoto, PostsTypeOK
<1>2. \A q \in PostReq : TogglesAlone(q)
  BY DEF OneToggle
<1>3. \A q \in PostReq : preq[q].pc \in TogglePcs => preq[q].user \in PostUsers
  BY PostFrameKinds DEF PostsTypeOK
<1>4. f.pc \in TogglePcs =>
        \A q \in PostReq \ {r} : ~(preq[q].pc \in TogglePcs /\ preq[q].user = f.user)
  BY <1>2 DEF TogglesAlone, Toggling, TogglePcs
<1>5. CASE s = r
  BY <1>1, <1>4, <1>5 DEF TogglesAlone
<1>6. CASE s # r
  <2>1. preq'[s] = preq[s] /\ TogglesAlone(s)
    BY <1>1, <1>2, <1>6
  <2>2. preq[s].pc \in TogglePcs =>
          \A q \in PostReq : preq'[q].pc \in TogglePcs /\ preq'[q].user = preq[s].user => q = s
    BY <1>1, <1>4, <1>6, <2>1 DEF TogglesAlone
  <2>3. preq[s].pc \in TogglePcs => like'[preq[s].user] = like[preq[s].user]
    BY <1>3, <1>6, <2>1 DEF TogglesAlone
  <2>4. "deleteLike" \in TogglePcs /\ "insertLike" \in TogglePcs
    BY DEF TogglePcs
  <2> QED BY <2>1, <2>2, <2>3, <2>4 DEF TogglesAlone
<1> QED BY <1>5, <1>6

\* The sums of a row after a step.
ModestNext(row) ==
  /\ row.commentsCount + AtCount("countComment")' <= comments'
  /\ row.sharesCount + AtCount("countShare")' <= shares'

Slack ==
  /\ AtCount("countComment")' + comments <= AtCount("countComment") + comments'
  /\ AtCount("countShare")' + shares <= AtCount("countShare") + shares'

LEMMA AllModestKept ==
  ASSUME IsFiniteSet(PostReq), PostsTypeOK, AllModest, NEW r \in PostReq,
         NEW f \in PostFrame, PostGoto(r, f), comments' \in Nat, shares' \in Nat, Slack,
         f.pc \in {"post", "postWrite"} => Modest(f.row),
         post' = post \/ ModestNext(post')
  PROVE  AllModest'
<1>1. \A pc \in CountPcs : AtCount(pc) \in Nat /\ AtCount(pc)' \in Nat
  BY AtCountMoves
<1>2. ASSUME NEW row \in PostRow, Modest(row) PROVE ModestNext(row)
  BY <1>1, <1>2 DEF Modest, ModestNext, Slack, CountPcs, PostRow, PostsTypeOK
<1>3. ModestNext(post')
  BY <1>2 DEF AllModest, PostsTypeOK
<1>4. \A q \in PostReq : preq'[q] = IF q = r THEN f ELSE preq[q]
  BY DEF PostGoto, PostsTypeOK
<1>5. ASSUME NEW q \in PostReq, preq'[q].pc \in {"post", "postWrite"}
      PROVE  ModestNext(preq'[q].row)
  <2>1. Modest(preq'[q].row)
    BY <1>4, <1>5 DEF AllModest
  <2>2. preq'[q].row \in PostRow
    BY <1>4, <1>5, PostFrameKinds DEF PostsTypeOK
  <2> QED BY <1>2, <2>1, <2>2
<1> QED BY <1>3, <1>5 DEF AllModest, Modest, ModestNext

\* A handler goes on without a statement on the counters or the likes.
LEMMA QuietStep ==
  ASSUME IsFiniteSet(PostReq), PostsInv, NEW r \in PostReq, NEW f \in PostFrame,
         PostGoto(r, f), preq[r].pc \notin CountPcs, f.pc \notin CountPcs,
         UNCHANGED <<post, like, nextLike, comments, shares, disturbed>>,
         f.pc \in TogglePcs /\ ~DoubleToggles =>
           \/ preq[r].pc \in TogglePcs /\ preq[r].user = f.user
           \/ ~Toggling(f.user),
         f.pc = "deleteLike" => like[f.user] = f.id,
         f.pc = "insertLike" => like[f.user] = 0,
         f.pc \in {"post", "postWrite"} => Modest(f.row)
  PROVE  PostsInv'
<1>1. PostsTypeOK'
  BY DEF PostsInv, PostsTypeOK, PostGoto
<1>2. \A pc \in CountPcs : AtCount(pc) \in Nat /\ AtCount(pc)' = AtCount(pc)
  <2> TAKE pc \in CountPcs
  <2>1. f.pc # pc /\ preq[r].pc # pc
    OBVIOUS
  <2>2. /\ AtCount(pc) \in Nat
        /\ AtCount(pc)' = AtCount(pc) + One(f.pc = pc) - One(preq[r].pc = pc)
    BY AtCountMoves DEF PostsInv
  <2> QED BY <2>1, <2>2 DEF One
<1>3. AllModest'
  <2>1. Slack
    BY <1>2 DEF Slack, CountPcs, PostsInv, PostsTypeOK
  <2> QED BY <2>1, AllModestKept DEF PostsInv, PostsTypeOK
<1>4. OneToggle'
  BY OneToggleKept DEF PostsInv
<1>5. Exact'
  <2>1. Liked' = Liked
    BY DEF Liked
  <2> QED BY <1>2, <2>1 DEF Exact, PostsInv, CountPcs
<1> QED BY <1>1, <1>3, <1>4, <1>5 DEF PostsInv

-----------------------------------------------------------------------------
LEMMA InsertLikeStep ==
  ASSUME IsFiniteSet(PostReq), IsFiniteSet(PostUsers), PostsInv, NEW r \in PostReq,
         InsertLike(r)
  PROVE  PostsInv'
<1> DEFINE u == preq[r].user
<1>1. preq[r].pc = "insertLike" /\ u \in PostUsers
  BY PostFrameKinds DEF InsertLike, PostsInv, PostsTypeOK, TogglePcs
<1>2. CASE like[u] # 0
  <2>1. PostGoto(r, PostIdle) /\ UNCHANGED <<post, like, nextLike, comments, shares, disturbed>>
    BY <1>2 DEF InsertLike
  <2> QED BY <1>1, <2>1, PostFrames, QuietStep DEF TogglePcs, CountPcs
<1>3. CASE like[u] = 0
  <2> DEFINE f == [pc |-> "countLike", user |-> u]
  <2>1. /\ PostGoto(r, f) /\ f \in PostFrame /\ f.pc = "countLike" /\ f.user = u
        /\ like' = [like EXCEPT ![u] = nextLike] /\ nextLike' = nextLike + 1
        /\ nextLike \in 1 .. MaxLikes
        /\ UNCHANGED <<post, comments, shares, disturbed>>
    <3>1. f \in PostFrame
      BY <1>1, PostFrames
    <3>2. nextLike \in 1 .. MaxLikes
      BY PostsAssumption DEF InsertLike, PostsInv, PostsTypeOK
    <3> QED BY <1>3, <3>1, <3>2 DEF InsertLike
  <2>2. PostsTypeOK'
    BY <1>1, <2>1, PostsAssumption DEF PostsInv, PostsTypeOK, PostGoto
  <2>3. \A pc \in CountPcs :
          /\ AtCount(pc) \in Nat
          /\ AtCount(pc)' = AtCount(pc) + One("countLike" = pc) - One("insertLike" = pc)
    BY <1>1, <2>1, AtCountMoves DEF PostsInv
  <2>4. Slack
    BY <2>1, <2>3 DEF Slack, CountPcs, One, PostsInv, PostsTypeOK
  <2>5. AllModest'
    BY <2>1, <2>4, AllModestKept DEF PostsInv, PostsTypeOK
  <2>6. OneToggle'
    BY <1>1, <2>1, OneToggleKept DEF PostsInv, TogglePcs, PostsTypeOK
  <2>7. Cardinality(Liked)' = Cardinality(Liked) + 1 /\ Cardinality(Liked) \in Nat
    <3>1. IsFiniteSet(Liked)
      BY FS_Subset DEF Liked
    <3>2. Liked' = Liked \cup {u} /\ u \notin Liked
      BY <1>1, <1>3, <2>1 DEF Liked, PostsInv, PostsTypeOK
    <3> QED BY <3>1, <3>2, FS_AddElement, FS_CardinalityType
  <2>8. Exact'
    BY <2>1, <2>3, <2>7 DEF Exact, PostsInv, PostsTypeOK, PostRow, CountPcs, One
  <2> QED BY <2>2, <2>5, <2>6, <2>8 DEF PostsInv
<1> QED BY <1>2, <1>3

LEMMA DeleteLikeStep ==
  ASSUME IsFiniteSet(PostReq), IsFiniteSet(PostUsers), PostsInv, NEW r \in PostReq,
         DeleteLike(r)
  PROVE  PostsInv'
<1> DEFINE u == preq[r].user
           f == [pc |-> "countUnlike", user |-> u]
<1>1. preq[r].pc = "deleteLike" /\ u \in PostUsers /\ preq[r].id \in 1 .. MaxLikes
  BY PostFrameKinds DEF DeleteLike, PostsInv, PostsTypeOK, TogglePcs
<1>2. /\ PostGoto(r, f) /\ f \in PostFrame /\ f.pc = "countUnlike" /\ f.user = u
      /\ like' = [like EXCEPT ![u] = IF @ = preq[r].id THEN 0 ELSE @]
      /\ UNCHANGED <<post, nextLike, comments, shares, disturbed>>
  BY <1>1, PostFrames DEF DeleteLike
<1>3. PostsTypeOK'
  BY <1>1, <1>2, PostsAssumption DEF PostsInv, PostsTypeOK, PostGoto
<1>4. \A pc \in CountPcs :
        /\ AtCount(pc) \in Nat
        /\ AtCount(pc)' = AtCount(pc) + One("countUnlike" = pc) - One("deleteLike" = pc)
  BY <1>1, <1>2, AtCountMoves DEF PostsInv
<1>5. Slack
  BY <1>2, <1>4 DEF Slack, CountPcs, One, PostsInv, PostsTypeOK
<1>6. AllModest'
  BY <1>2, <1>5, AllModestKept DEF PostsInv, PostsTypeOK
<1>7. OneToggle'
  BY <1>1, <1>2, OneToggleKept DEF PostsInv, TogglePcs, PostsTypeOK
<1>8. Exact'
  <2> SUFFICES ASSUME ~DoubleToggles, ~disturbed'
               PROVE  /\ post'.likesCount + AtCount("countLike")' - AtCount("countUnlike")'
                           = Cardinality(Liked)'
                      /\ post'.commentsCount + AtCount("countComment")' = comments'
    BY DEF Exact
  <2>1. like[u] = preq[r].id
    BY <1>1 DEF PostsInv, OneToggle, TogglesAlone, TogglePcs
  <2>2. IsFiniteSet(Liked)
    BY FS_Subset DEF Liked
  <2>3. Liked' = Liked \ {u} /\ u \in Liked
    BY <1>1, <1>2, <2>1 DEF Liked, PostsInv, PostsTypeOK
  <2>4. Cardinality(Liked)' = Cardinality(Liked) - 1 /\ Cardinality(Liked) \in Nat
    BY <2>2, <2>3, FS_RemoveElement, FS_CardinalityType
  <2> QED BY <1>2, <1>4, <2>4 DEF Exact, PostsInv, PostsTypeOK, PostRow, CountPcs, One
<1> QED BY <1>3, <1>6, <1>7, <1>8 DEF PostsInv

\* A step that counts nothing of likes keeps who toggles and what is liked.
LEMMA OtherStep ==
  ASSUME IsFiniteSet(PostReq), PostsInv, NEW r \in PostReq, NEW f \in PostFrame,
         PostGoto(r, f), f.pc \notin TogglePcs, f.pc \notin {"post", "postWrite"},
         like' = like, PostsTypeOK', Slack, post' = post \/ ModestNext(post'),
         ~DoubleToggles /\ ~disturbed' =>
           /\ post'.likesCount + AtCount("countLike")' - AtCount("countUnlike")'
                = Cardinality(Liked)
           /\ post'.commentsCount + AtCount("countComment")' = comments'
  PROVE  PostsInv'
<1>1. AllModest'
  BY AllModestKept DEF PostsInv, PostsTypeOK
<1>2. "deleteLike" \in TogglePcs /\ "insertLike" \in TogglePcs
  BY DEF TogglePcs
<1>3. OneToggle'
  BY <1>2, OneToggleKept DEF PostsInv
<1>4. Cardinality(Liked)' = Cardinality(Liked)
  <2>1. Liked' = Liked
    BY DEF Liked
  <2> QED BY <2>1
<1>5. Exact'
  BY <1>4 DEF Exact
<1> QED BY <1>1, <1>3, <1>5 DEF PostsInv

LEMMA BeginShareStep ==
  ASSUME IsFiniteSet(PostReq), PostsInv, NEW r \in PostReq, BeginShare(r)
  PROVE  PostsInv'
<1> DEFINE f == [pc |-> "countShare"]
<1>1. /\ preq[r].pc = "idle" /\ PostGoto(r, f) /\ f \in PostFrame /\ f.pc = "countShare"
      /\ shares' = shares + 1
      /\ UNCHANGED <<post, like, nextLike, comments, disturbed>>
  BY PostFrames DEF BeginShare, FindPost
<1>2. \A pc \in CountPcs :
        /\ AtCount(pc) \in Nat
        /\ AtCount(pc)' = AtCount(pc) + One("countShare" = pc) - One("idle" = pc)
  BY <1>1, AtCountMoves DEF PostsInv
<1>3. PostsTypeOK'
  BY <1>1 DEF PostsInv, PostsTypeOK, PostGoto
<1>4. Slack
  BY <1>1, <1>2 DEF Slack, CountPcs, One, PostsInv, PostsTypeOK
<1>5. /\ AtCount("countLike")' = AtCount("countLike")
      /\ AtCount("countUnlike")' = AtCount("countUnlike")
      /\ AtCount("countComment")' = AtCount("countComment")
  BY <1>2 DEF CountPcs, One
<1> QED BY <1>1, <1>3, <1>4, <1>5, OtherStep DEF PostsInv, Exact, TogglePcs

LEMMA InsertCommentStep ==
  ASSUME IsFiniteSet(PostReq), PostsInv, NEW r \in PostReq, InsertComment(r)
  PROVE  PostsInv'
<1> DEFINE f == [pc |-> "countComment"]
<1>1. /\ preq[r].pc = "insertComment" /\ PostGoto(r, f) /\ f \in PostFrame
      /\ f.pc = "countComment" /\ comments' = comments + 1
      /\ UNCHANGED <<post, like, nextLike, shares, disturbed>>
  BY PostFrames DEF InsertComment
<1>2. \A pc \in CountPcs :
        /\ AtCount(pc) \in Nat
        /\ AtCount(pc)' = AtCount(pc) + One("countComment" = pc) - One("insertComment" = pc)
  BY <1>1, AtCountMoves DEF PostsInv
<1>3. PostsTypeOK'
  BY <1>1 DEF PostsInv, PostsTypeOK, PostGoto
<1>4. Slack
  BY <1>1, <1>2 DEF Slack, CountPcs, One, PostsInv, PostsTypeOK
<1>5. /\ AtCount("countLike")' = AtCount("countLike")
      /\ AtCount("countUnlike")' = AtCount("countUnlike")
      /\ AtCount("countComment")' = AtCount("countComment") + 1
      /\ AtCount("countComment") \in Nat
  BY <1>2 DEF CountPcs, One
<1>6. ~DoubleToggles /\ ~disturbed' =>
        /\ post'.likesCount + AtCount("countLike")' - AtCount("countUnlike")'
             = Cardinality(Liked)
        /\ post'.commentsCount + AtCount("countComment")' = comments'
  BY <1>1, <1>5 DEF PostsInv, Exact, PostsTypeOK, PostRow
<1> QED BY <1>1, <1>3, <1>4, <1>6, OtherStep DEF TogglePcs

LEMMA CountStep ==
  ASSUME IsFiniteSet(PostReq), PostsInv, NEW r \in PostReq, Count(r)
  PROVE  PostsInv'
<1> DEFINE pc == preq[r].pc
<1>1. /\ pc \in CountPcs /\ PostGoto(r, PostIdle)
      /\ UNCHANGED <<like, nextLike, comments, shares, disturbed>>
  BY DEF Count, CountPcs
<1>2. \A p \in CountPcs :
        /\ AtCount(p) \in Nat /\ AtCount(p)' \in Nat
        /\ AtCount(p)' = AtCount(p) - One(pc = p)
  <2> TAKE p \in CountPcs
  <2>1. PostIdle.pc # p
    BY PostFrames DEF CountPcs
  <2>2. /\ AtCount(p) \in Nat /\ AtCount(p)' \in Nat
        /\ AtCount(p)' = AtCount(p) + One(PostIdle.pc = p) - One(pc = p)
    BY <1>1, PostFrames, AtCountMoves DEF PostsInv
  <2> QED BY <2>1, <2>2 DEF One
<1>3. /\ post' \in PostRow
      /\ post'.likesCount = post.likesCount + One(pc = "countLike") - One(pc = "countUnlike")
      /\ post'.commentsCount = post.commentsCount + One(pc = "countComment")
      /\ post'.sharesCount = post.sharesCount + One(pc = "countShare")
  BY DEF Count, One, PostRow, PostsInv, PostsTypeOK
<1>4. PostsTypeOK'
  BY <1>1, <1>3, PostFrames DEF PostsInv, PostsTypeOK, PostGoto
<1>5. Slack
  BY <1>1, <1>2 DEF Slack, CountPcs, One, PostsInv, PostsTypeOK
<1>6. ModestNext(post')
  <2>1. Modest(post) /\ post \in PostRow /\ comments \in Nat /\ shares \in Nat
    BY DEF PostsInv, AllModest, PostsTypeOK
  <2> QED BY <1>1, <1>2, <1>3, <2>1 DEF ModestNext, Modest, CountPcs, One, PostRow
<1>7. ~DoubleToggles /\ ~disturbed' =>
        /\ post'.likesCount + AtCount("countLike")' - AtCount("countUnlike")'
             = Cardinality(Liked)
        /\ post'.commentsCount + AtCount("countComment")' = comments'
  <2>1. post \in PostRow
    BY DEF PostsInv, PostsTypeOK
  <2> QED BY <1>1, <1>2, <1>3, <2>1 DEF PostsInv, Exact, CountPcs, One, PostRow
<1> QED BY <1>1, <1>4, <1>5, <1>6, <1>7, PostFrames, OtherStep DEF TogglePcs

\* A statement that counts nothing, of a handler that ends.
LEMMA EndStep ==
  ASSUME IsFiniteSet(PostReq), PostsInv, NEW r \in PostReq, preq[r].pc \notin CountPcs,
         PostGoto(r, PostIdle), UNCHANGED <<like, nextLike, comments, shares>>,
         post' \in PostRow, disturbed' \in BOOLEAN, Modest(post'),
         ~disturbed' =>
           /\ ~disturbed
           /\ post'.likesCount = post.likesCount /\ post'.commentsCount = post.commentsCount
  PROVE  PostsInv'
<1>1. \A pc \in CountPcs : AtCount(pc) \in Nat /\ AtCount(pc)' = AtCount(pc)
  <2> TAKE pc \in CountPcs
  <2>1. PostIdle.pc # pc /\ preq[r].pc # pc
    BY PostFrames DEF CountPcs
  <2>2. /\ AtCount(pc) \in Nat
        /\ AtCount(pc)' = AtCount(pc) + One(PostIdle.pc = pc) - One(preq[r].pc = pc)
    BY PostFrames, AtCountMoves DEF PostsInv
  <2> QED BY <2>1, <2>2 DEF One
<1>2. PostsTypeOK'
  BY PostFrames DEF PostsInv, PostsTypeOK, PostGoto
<1>3. Slack
  BY <1>1 DEF Slack, CountPcs, PostsInv, PostsTypeOK
<1>4. ModestNext(post')
  BY <1>1 DEF ModestNext, Modest, CountPcs
<1>5. ~DoubleToggles /\ ~disturbed' =>
        /\ post'.likesCount + AtCount("countLike")' - AtCount("countUnlike")'
             = Cardinality(Liked)
        /\ post'.commentsCount + AtCount("countComment")' = comments'
  BY <1>1 DEF PostsInv, Exact, CountPcs
<1> QED BY <1>2, <1>3, <1>4, <1>5, PostFrames, OtherStep DEF TogglePcs

PostStored(q) == [c \in PostColumns |-> IF c \in q.diff THEN q.row[c] ELSE post[c]]

LEMMA PostStoredIsRow ==
  ASSUME post \in PostRow,
         NEW q \in [pc : {"post", "postWrite"}, row : PostRow, diff : SUBSET PostColumns]
  PROVE  /\ PostStored(q) \in PostRow
         /\ \A c \in PostColumns :
              PostStored(q)[c] = IF c \in q.diff THEN q.row[c] ELSE post[c]
<1> DEFINE p == PostStored(q)
<1>1. p = [likesCount |-> p.likesCount, commentsCount |-> p.commentsCount,
           sharesCount |-> p.sharesCount, deleted |-> p.deleted]
  BY DEF PostStored, PostColumns, Counters
<1>2. \A c \in PostColumns : p[c] = IF c \in q.diff THEN q.row[c] ELSE post[c]
  BY DEF PostStored
<1>3. p.likesCount \in Int /\ p.commentsCount \in Nat /\ p.sharesCount \in Nat
  BY <1>2 DEF PostColumns, Counters, PostRow
<1>4. p.deleted \in BOOLEAN
  BY <1>2 DEF PostColumns, Counters, PostRow
<1> QED BY <1>1, <1>2, <1>3, <1>4 DEF PostRow

LEMMA SaveWriteStep ==
  ASSUME IsFiniteSet(PostReq), PostsInv, NEW r \in PostReq, SaveWritePost(r)
  PROVE  PostsInv'
<1> DEFINE q == preq[r]
<1>1. /\ q.pc = "postWrite" /\ PostGoto(r, PostIdle)
      /\ post' = PostStored(q)
      /\ disturbed' = (disturbed \/ q.diff \cap Counters # {})
      /\ UNCHANGED <<like, nextLike, comments, shares>>
  BY DEF SaveWritePost, PostStored
<1>2. /\ post \in PostRow /\ Modest(post) /\ Modest(q.row)
      /\ q \in [pc : {"post", "postWrite"}, row : PostRow, diff : SUBSET PostColumns]
  BY <1>1, PostFrameKinds DEF PostsInv, PostsTypeOK, AllModest
<1>3. /\ post' \in PostRow
      /\ \A c \in PostColumns : post'[c] = IF c \in q.diff THEN q.row[c] ELSE post[c]
  BY <1>1, <1>2, PostStoredIsRow
<1>4. Modest(post')
  BY <1>2, <1>3 DEF Modest, PostColumns, Counters
<1>5. q.diff \cap Counters = {} =>
        post'.likesCount = post.likesCount /\ post'.commentsCount = post.commentsCount
  BY <1>3 DEF PostColumns, Counters
<1>6. disturbed' \in BOOLEAN
  BY <1>1
<1> QED BY <1>1, <1>3, <1>4, <1>5, <1>6, EndStep DEF CountPcs

LEMMA SoftDeleteStep ==
  ASSUME IsFiniteSet(PostReq), PostsInv, NEW r \in PostReq, SoftDelete(r)
  PROVE  PostsInv'
<1>1. /\ preq[r].pc = "softDelete" /\ PostGoto(r, PostIdle)
      /\ post' = [post EXCEPT !.deleted = TRUE]
      /\ UNCHANGED <<like, nextLike, comments, shares, disturbed>>
  BY DEF SoftDelete
<1>2. post \in PostRow /\ Modest(post) /\ disturbed \in BOOLEAN
  BY DEF PostsInv, PostsTypeOK, AllModest
<1>3. /\ post' \in PostRow /\ post'.likesCount = post.likesCount
      /\ post'.commentsCount = post.commentsCount /\ post'.sharesCount = post.sharesCount
  BY <1>1, <1>2 DEF PostRow
<1>4. Modest(post')
  BY <1>2, <1>3 DEF Modest
<1> QED BY <1>1, <1>2, <1>3, <1>4, EndStep DEF CountPcs

LEMMA AbortPostStep ==
  ASSUME IsFiniteSet(PostReq), PostsInv, NEW r \in PostReq, AbortPost(r)
  PROVE  PostsInv'
<1>1. /\ PostGoto(r, PostIdle) /\ UNCHANGED <<post, like, nextLike, comments, shares>>
      /\ disturbed' =
           (disturbed \/ preq[r].pc \in {"countLike", "countUnlike", "countComment"})
  BY DEF AbortPost
<1>2. disturbed' \in BOOLEAN
  BY <1>1
<1>3. CASE preq[r].pc \notin CountPcs
  <2>1. post' \in PostRow /\ Modest(post')
    BY <1>1 DEF PostsInv, PostsTypeOK, AllModest
  <2> QED BY <1>1, <1>2, <1>3, <2>1, EndStep
<1>4. CASE preq[r].pc \in CountPcs
  <2>1. \A p \in CountPcs :
          /\ AtCount(p) \in Nat /\ AtCount(p)' \in Nat
          /\ AtCount(p)' = AtCount(p) - One(preq[r].pc = p)
    <3> TAKE p \in CountPcs
    <3>1. PostIdle.pc # p
      BY PostFrames DEF CountPcs
    <3>2. /\ AtCount(p) \in Nat /\ AtCount(p)' \in Nat
          /\ AtCount(p)' = AtCount(p) + One(PostIdle.pc = p) - One(preq[r].pc = p)
      BY <1>1, PostFrames, AtCountMoves DEF PostsInv
    <3> QED BY <3>1, <3>2 DEF One
  <2>2. PostsTypeOK'
    BY <1>1, <1>2, PostFrames DEF PostsInv, PostsTypeOK, PostGoto
  <2>3. Slack
    BY <1>1, <2>1 DEF Slack, CountPcs, One, PostsInv, PostsTypeOK
  <2>4. ~DoubleToggles /\ ~disturbed' =>
          /\ post'.likesCount + AtCount("countLike")' - AtCount("countUnlike")'
               = Cardinality(Liked)
          /\ post'.commentsCount + AtCount("countComment")' = comments'
    <3>1. ~disturbed' => ~disturbed /\ preq[r].pc = "countShare"
      BY <1>1, <1>4 DEF CountPcs
    <3>2. preq[r].pc = "countShare" =>
            /\ AtCount("countLike")' = AtCount("countLike")
            /\ AtCount("countUnlike")' = AtCount("countUnlike")
            /\ AtCount("countComment")' = AtCount("countComment")
      BY <2>1 DEF CountPcs, One
    <3> QED BY <1>1, <3>1, <3>2 DEF PostsInv, Exact
  <2> QED BY <1>1, <2>2, <2>3, <2>4, PostFrames, OtherStep DEF TogglePcs
<1> QED BY <1>3, <1>4

LEMMA PostsInvStep ==
  IsFiniteSet(PostReq) /\ IsFiniteSet(PostUsers) /\ PostsInv /\ [PostsNext]_postVars => PostsInv'
<1> SUFFICES ASSUME IsFiniteSet(PostReq), IsFiniteSet(PostUsers), PostsInv,
                    [PostsNext]_postVars
             PROVE  PostsInv'
  OBVIOUS
<1>1. CASE UNCHANGED postVars
  <2>1. \A pc : AtCount(pc)' = AtCount(pc)
    <3> TAKE pc
    <3>1. At(pc)' = At(pc)
      BY <1>1 DEF postVars, At
    <3> QED BY <3>1 DEF AtCount
  <2>2. Cardinality(Liked)' = Cardinality(Liked)
    <3>1. Liked' = Liked
      BY <1>1 DEF postVars, Liked
    <3> QED BY <3>1
  <2> QED BY <1>1, <2>1, <2>2 DEF postVars, PostsInv, PostsTypeOK, AllModest, Modest,
                                  OneToggle, TogglesAlone, Exact
<1>2. ASSUME NEW r \in PostReq, PostArrives(r) PROVE PostsInv'
  <2>1. "idle" \notin CountPcs
    BY DEF CountPcs
  <2>2. ASSUME NEW u \in PostUsers, BeginToggle(r, u) PROVE PostsInv'
    <3> DEFINE f == [pc |-> "findLike", user |-> u]
    <3>1. /\ preq[r].pc = "idle" /\ PostGoto(r, f) /\ (DoubleToggles \/ ~Toggling(u))
          /\ UNCHANGED <<post, like, nextLike, comments, shares, disturbed>>
      BY <2>2 DEF BeginToggle, FindPost
    <3>2. f \in PostFrame /\ f.pc = "findLike" /\ f.user = u /\ f.pc \notin CountPcs
      BY PostFrames DEF CountPcs
    <3> QED BY <2>1, <3>1, <3>2, QuietStep
  <2>3. CASE BeginShare(r)
    BY <2>3, BeginShareStep
  <2>4. ASSUME NEW pc \in {"insertComment", "softDelete"}, FindPost(r, [pc |-> pc]),
               shares' = shares
        PROVE  PostsInv'
    <3> DEFINE f == [pc |-> pc]
    <3>1. f \in PostFrame /\ f.pc \notin CountPcs /\ f.pc \notin TogglePcs
            /\ f.pc \notin {"post", "postWrite", "deleteLike", "insertLike"}
      BY PostFrames DEF CountPcs, TogglePcs
    <3> QED BY <2>1, <2>4, <3>1, QuietStep DEF FindPost
  <2>5. CASE BeginEditPost(r)
    <3> DEFINE f == [pc |-> "post", row |-> post, diff |-> {}]
    <3>1. f \in PostFrame /\ f.pc = "post" /\ f.row = post
            /\ f.pc \notin CountPcs /\ f.pc \notin TogglePcs
      BY PostFrames DEF CountPcs, TogglePcs, PostsInv, PostsTypeOK
    <3>2. Modest(f.row)
      BY DEF PostsInv, AllModest
    <3> QED BY <2>1, <2>5, <3>1, <3>2, QuietStep DEF BeginEditPost, FindPost
  <2> QED BY <1>2, <2>2, <2>3, <2>4, <2>5 DEF PostArrives, BeginComment, BeginDelete
<1>3. ASSUME NEW r \in PostReq, PostContinues(r) PROVE PostsInv'
  <2>1. CASE FindLike(r)
    <3> DEFINE u == preq[r].user
               f == IF like[u] = 0 THEN [pc |-> "insertLike", user |-> u]
                    ELSE [pc |-> "deleteLike", user |-> u, id |-> like[u]]
    <3>1. /\ preq[r].pc = "findLike" /\ PostGoto(r, f)
          /\ UNCHANGED <<post, like, nextLike, comments, shares, disturbed>>
      BY <2>1 DEF FindLike
    <3>2. u \in PostUsers /\ like[u] \in 0 .. MaxLikes
      BY <3>1, PostFrameKinds DEF PostsInv, PostsTypeOK, TogglePcs
    <3>3. f \in PostFrame
      <4>1. CASE like[u] = 0
        BY <3>2, <4>1, PostFrames
      <4>2. CASE like[u] # 0
        <5>1. like[u] \in 1 .. MaxLikes
          BY <3>2, <4>2, PostsAssumption
        <5> QED BY <3>2, <4>2, <5>1, PostFrames
      <4> QED BY <4>1, <4>2
    <3>4. /\ f.pc \in {"insertLike", "deleteLike"} /\ f.user = u
          /\ f.pc = "insertLike" => like[u] = 0
          /\ f.pc = "deleteLike" => f.id = like[u]
      OBVIOUS
    <3> QED BY <3>1, <3>3, <3>4, QuietStep DEF CountPcs, TogglePcs
  <2>2. CASE SaveReadPost(r)
    <3> DEFINE q == preq[r]
               d == {c \in PostColumns : q.row[c] # post[c]}
               f == [q EXCEPT !.pc = "postWrite", !.diff = d]
    <3>1. /\ q.pc = "post" /\ PostGoto(r, f)
          /\ UNCHANGED <<post, like, nextLike, comments, shares, disturbed>>
      BY <2>2 DEF SaveReadPost
    <3>2. /\ q \in [pc : {"post", "postWrite"}, row : PostRow, diff : SUBSET PostColumns]
          /\ Modest(q.row)
      BY <3>1, PostFrameKinds DEF PostsInv, PostsTypeOK, AllModest
    <3>3. /\ f \in [pc : {"post", "postWrite"}, row : PostRow, diff : SUBSET PostColumns]
          /\ f.pc = "postWrite" /\ f.row = q.row
      BY <3>2
    <3> QED BY <3>1, <3>2, <3>3, PostFrames, QuietStep DEF CountPcs, TogglePcs
  <2> QED
    BY <1>3, <2>1, <2>2, InsertLikeStep, DeleteLikeStep, InsertCommentStep, CountStep,
       SoftDeleteStep, SaveWriteStep DEF PostContinues
<1>4. ASSUME NEW r \in PostReq, AbortPost(r) PROVE PostsInv'
  BY <1>4, AbortPostStep
<1> QED
  BY <1>1, <1>2, <1>3, <1>4 DEF PostsNext

LEMMA PostsInvAlways ==
  ASSUME IsFiniteSet(PostReq), IsFiniteSet(PostUsers)
  PROVE  PostsSpec => []PostsInv
<1>1. PostsInit => PostsInv
  BY PostsInvInit
<1>2. PostsInv /\ [PostsNext]_postVars => PostsInv'
  BY PostsInvStep
<1> QED BY <1>1, <1>2, PTL DEF PostsSpec

\* The post, its rows and the handlers are of their types.
THEOREM PostsTypeCorrect ==
  ASSUME IsFiniteSet(PostReq), IsFiniteSet(PostUsers)
  PROVE  PostsSpec => []PostsTypeOK
<1>1. PostsInv => PostsTypeOK BY DEF PostsInv
<1> QED BY <1>1, PostsInvAlways, PTL

\* Counters never exceed what was done; without double taps, failures half-way and
\* edits from old entities they are the rows, but for the steps that handlers in
\* flight owe: for any finite number of users and requests.
THEOREM CountersAreRows ==
  ASSUME IsFiniteSet(PostReq), IsFiniteSet(PostUsers)
  PROVE  PostsSpec => []CountersAddUp
<1>1. ASSUME PostsInv PROVE CountersAddUp
  <2>1. \A pc : AtCount(pc) = Cardinality(At(pc))
    BY DEF AtCount
  <2>2. AtCount("countComment") \in Nat /\ AtCount("countShare") \in Nat
    <3>1. \A pc : At(pc) \in SUBSET PostReq
      BY DEF At
    <3>2. \A pc : IsFiniteSet(At(pc))
      BY <3>1, FS_Subset
    <3> QED BY <3>2, FS_CardinalityType DEF AtCount
  <2>3. CountsInventNothing
    BY <1>1, <2>2 DEF PostsInv, AllModest, Modest, CountsInventNothing, PostsTypeOK, PostRow
  <2>4. Liked = {u \in PostUsers : like[u] # 0}
    BY DEF Liked
  <2> QED BY <1>1, <2>1, <2>3, <2>4 DEF PostsInv, Exact, CountersAddUp
<1> QED BY <1>1, PostsInvAlways, PTL

-----------------------------------------------------------------------------
\* Payments.  A row in flight is completed only if it is paid.

PayWork == [pc : {"save", "write"}, id : Payments, row : PaymentRow, diff : SUBSET PayColumns]

\* A handler that is about to save carries a row and the columns that differ.
LEMMA PayFrameKinds ==
  /\ PayIdle \in PayFrame /\ PayIdle.pc = "idle"
  /\ \A f \in PayFrame : f.pc \in {"save", "write"} => f \in PayWork
  /\ \A f \in PayWork : f \in PayFrame
  BY DEF PayFrame, PayWork, PayIdle

\* What a handler will write agrees with what it leaves alone, on a payment
\* that exists.
PayGood(f) ==
  f.pc \in {"save", "write"} =>
    /\ payment[f.id] \in PaymentRow
    /\ f.row.status = "completed" => f.row.paidAt
    /\ f.pc = "write" /\ f.id \notin cleared /\ "paidAt" \notin f.diff /\ f.row.paidAt =>
         payment[f.id].paidAt

PaymentsInv ==
  /\ PaymentsTypeOK
  /\ CompletedWasPaid
  /\ \A r \in PayReq : PayGood(yreq[r])

PayStored(q) == [c \in PayColumns |-> IF c \in q.diff THEN q.row[c] ELSE payment[q.id][c]]

LEMMA PayStoredIsRow ==
  ASSUME PaymentsTypeOK, NEW q \in PayWork, payment[q.id] \in PaymentRow
  PROVE  /\ PayStored(q) \in PaymentRow
         /\ PayStored(q).status = IF "status" \in q.diff THEN q.row.status ELSE payment[q.id].status
         /\ PayStored(q).paidAt = IF "paidAt" \in q.diff THEN q.row.paidAt ELSE payment[q.id].paidAt
<1>1. PayStored(q) = [status |-> PayStored(q).status, paidAt |-> PayStored(q).paidAt]
  BY DEF PayStored, PayColumns
<1>2. /\ PayStored(q).status = IF "status" \in q.diff THEN q.row.status ELSE payment[q.id].status
      /\ PayStored(q).paidAt = IF "paidAt" \in q.diff THEN q.row.paidAt ELSE payment[q.id].paidAt
  BY DEF PayStored, PayColumns
<1>3. q.row \in PaymentRow
  BY DEF PayWork
<1>4. PayStored(q).status \in PayStatus /\ PayStored(q).paidAt \in BOOLEAN
  BY <1>2, <1>3 DEF PaymentRow
<1> QED BY <1>1, <1>2, <1>4 DEF PaymentRow

LEMMA PaymentsInvInit == PaymentsInit => PaymentsInv
  BY DEF PaymentsInit, PaymentsInv, PaymentsTypeOK, CompletedWasPaid, NoPayment, PayGood,
         PayIdle, PayFrame

\* A handler takes up a frame that is good; the payments stay.
LEMMA PayGotoKeeps ==
  ASSUME PaymentsInv, NEW r \in PayReq, NEW f \in PayFrame, PayGood(f),
         PayGoto(r, f), UNCHANGED <<payment, cleared>>
  PROVE  PaymentsInv'
  BY DEF PaymentsInv, PaymentsTypeOK, CompletedWasPaid, PayGood, PayGoto

LEMMA BeginSaveKeeps ==
  ASSUME PaymentsInv, NEW r \in PayReq, NEW i \in Payments, NEW row \in PaymentRow,
         row.status = "completed" => row.paidAt, BeginSave(r, i, row)
  PROVE  PaymentsInv'
<1> DEFINE f == [pc |-> "save", id |-> i, row |-> row, diff |-> {}]
<1>1. f \in PayWork
  BY DEF PayWork
<1>2. payment[i] \in PaymentRow
  BY DEF PaymentsInv, PaymentsTypeOK, BeginSave
<1>3. PayGood(f)
  BY <1>2 DEF PayGood
<1>4. PayGoto(r, f) /\ UNCHANGED <<payment, cleared>>
  BY DEF BeginSave
<1> QED BY <1>1, <1>3, <1>4, PayFrameKinds, PayGotoKeeps

LEMMA PaymentsInvStep == PaymentsInv /\ [PaymentsNext]_paymentVars => PaymentsInv'
<1> SUFFICES ASSUME PaymentsInv, [PaymentsNext]_paymentVars PROVE PaymentsInv'
  OBVIOUS
<1>1. CASE UNCHANGED paymentVars
  BY <1>1 DEF paymentVars, PaymentsInv, PaymentsTypeOK, CompletedWasPaid, PayGood
<1>2. ASSUME NEW i \in Payments, NEW status \in PayStatus, CreatePayment(i, status)
      PROVE  PaymentsInv'
  <2> DEFINE row == [status |-> status, paidAt |-> status = "completed"]
  <2>1. row \in PaymentRow /\ (row.status = "completed" => row.paidAt)
    BY DEF PaymentRow
  <2>2. payment' = [payment EXCEPT ![i] = row] /\ cleared' = cleared /\ yreq' = yreq
    BY <1>2 DEF CreatePayment
  <2>3. PaymentsTypeOK' /\ CompletedWasPaid'
    BY <2>1, <2>2 DEF PaymentsInv, PaymentsTypeOK, CompletedWasPaid
  <2>4. ~payment[i].paidAt /\ payment[i].status = "none"
    BY <1>2 DEF CreatePayment, NoPayment
  <2>5. payment[i] \notin PaymentRow
    BY <2>4 DEF PaymentRow, PayStatus
  <2>6. ASSUME NEW r \in PayReq PROVE PayGood(yreq[r])'
    <3>1. PayGood(yreq[r])
      BY DEF PaymentsInv
    <3>2. yreq[r].pc \in {"save", "write"} => yreq[r].id # i /\ yreq[r].id \in Payments
      BY <3>1, <2>5, PayFrameKinds DEF PayGood, PayWork, PaymentsInv, PaymentsTypeOK
    <3> QED BY <3>1, <3>2, <2>2 DEF PayGood, PaymentsInv, PaymentsTypeOK
  <2> QED BY <2>3, <2>6 DEF PaymentsInv
<1>3. ASSUME NEW r \in PayReq, NEW i \in Payments, BeginRefund(r, i)
      PROVE  PaymentsInv'
  <2> DEFINE row == [payment[i] EXCEPT !.status = "refunded"]
  <2>1. payment[i] \in PaymentRow
    BY <1>3 DEF BeginRefund, BeginSave, PaymentsInv, PaymentsTypeOK
  <2>2. row \in PaymentRow /\ row.status # "completed"
    BY <2>1 DEF PaymentRow, PayStatus
  <2>3. BeginSave(r, i, row)
    BY <1>3 DEF BeginRefund
  <2> QED BY <2>2, <2>3, BeginSaveKeeps
<1>4. ASSUME NEW r \in PayReq, NEW i \in Payments, NEW status \in PayStatus,
             BeginStatusUpdate(r, i, status)
      PROVE  PaymentsInv'
  <2> DEFINE row == WithStatus(payment[i], status)
  <2>1. payment[i] \in PaymentRow
    BY <1>4 DEF BeginStatusUpdate, BeginSave, PaymentsInv, PaymentsTypeOK
  <2>2. row \in PaymentRow /\ (row.status = "completed" => row.paidAt)
    BY <2>1 DEF WithStatus, PaymentRow
  <2>3. BeginSave(r, i, row)
    BY <1>4 DEF BeginStatusUpdate
  <2> QED BY <2>2, <2>3, BeginSaveKeeps
<1>5. ASSUME NEW r \in PayReq, SaveReadPayment(r)
      PROVE  PaymentsInv'
  <2> DEFINE q == yreq[r]
             diff == {c \in PayColumns : q.row[c] # payment[q.id][c]}
             f == [q EXCEPT !.pc = "write", !.diff = diff]
  <2>1. q \in PayWork /\ q.pc = "save" /\ PayGood(q)
    BY <1>5, PayFrameKinds DEF SaveReadPayment, PaymentsInv, PaymentsTypeOK
  <2>2. f \in PayWork /\ f.pc = "write" /\ f.id = q.id /\ f.row = q.row /\ f.diff = diff
    BY <2>1 DEF PayWork
  <2>3. "paidAt" \notin diff => q.row.paidAt = payment[q.id].paidAt
    BY DEF PayColumns
  <2>4. PayGood(f)
    BY <2>1, <2>2, <2>3 DEF PayGood
  <2>5. PayGood(PayIdle)
    BY DEF PayGood, PayIdle
  <2>6. /\ PayGoto(r, PayIdle) \/ PayGoto(r, f)
        /\ UNCHANGED <<payment, cleared>>
    BY <1>5 DEF SaveReadPayment
  <2> QED BY <2>2, <2>4, <2>5, <2>6, PayFrameKinds, PayGotoKeeps
<1>6. ASSUME NEW r \in PayReq, SaveWritePayment(r)
      PROVE  PaymentsInv'
  <2> DEFINE q == yreq[r]
             new == PayStored(q)
  <2>1. q \in PayWork /\ q.pc = "write" /\ PayGood(q) /\ payment[q.id] \in PaymentRow
    BY <1>6, PayFrameKinds DEF SaveWritePayment, PaymentsInv, PaymentsTypeOK, PayGood
  <2>2. /\ payment' = [payment EXCEPT ![q.id] = new]
        /\ cleared' = IF "paidAt" \in q.diff /\ ~q.row.paidAt THEN cleared \cup {q.id}
                                                              ELSE cleared
        /\ yreq' = [yreq EXCEPT ![r] = PayIdle]
    BY <1>6 DEF SaveWritePayment, PayStored, PayGoto
  <2>3. PaymentsTypeOK /\ CompletedWasPaid /\ q.id \in Payments
    BY <2>1 DEF PaymentsInv, PayWork
  <2>4. /\ new \in PaymentRow
        /\ new.status = IF "status" \in q.diff THEN q.row.status ELSE payment[q.id].status
        /\ new.paidAt = IF "paidAt" \in q.diff THEN q.row.paidAt ELSE payment[q.id].paidAt
    BY <2>1, <2>3, PayStoredIsRow
  <2>5. PaymentsTypeOK'
    BY <2>2, <2>3, <2>4, PayFrameKinds DEF PaymentsTypeOK
  <2>6. q.id \notin cleared' /\ new.status = "completed" => new.paidAt
    BY <2>1, <2>2, <2>3, <2>4 DEF PayGood, CompletedWasPaid
  <2>7. CompletedWasPaid'
    BY <2>2, <2>3, <2>6 DEF CompletedWasPaid, PaymentsTypeOK
  <2>8. q.id \notin cleared' /\ payment[q.id].paidAt => new.paidAt
    BY <2>2, <2>4
  <2>9. ASSUME NEW s \in PayReq PROVE PayGood(yreq[s])'
    <3>1. CASE s = r
      BY <3>1, <2>2, <2>3 DEF PayGood, PayIdle, PaymentsTypeOK
    <3>2. CASE s # r
      <4>1. yreq'[s] = yreq[s] /\ PayGood(yreq[s])
        BY <3>2, <2>2, <2>3 DEF PaymentsInv, PaymentsTypeOK
      <4>2. CASE yreq[s].pc \in {"save", "write"} /\ yreq[s].id = q.id
        BY <4>1, <4>2, <2>2, <2>3, <2>4, <2>8 DEF PayGood, PaymentsTypeOK
      <4>3. CASE ~(yreq[s].pc \in {"save", "write"} /\ yreq[s].id = q.id)
        <5>1. yreq[s].pc \in {"save", "write"} => payment'[yreq[s].id] = payment[yreq[s].id]
          BY <4>3, <2>2, <2>3, PayFrameKinds DEF PaymentsTypeOK, PayWork
        <5> QED BY <4>1, <4>3, <5>1, <2>2 DEF PayGood
      <4> QED BY <4>2, <4>3
    <3> QED BY <3>1, <3>2
  <2> QED BY <2>5, <2>7, <2>9 DEF PaymentsInv
<1>7. ASSUME NEW r \in PayReq, AbortPayment(r)
      PROVE  PaymentsInv'
  <2>1. PayGood(PayIdle)
    BY DEF PayGood, PayIdle
  <2>2. PayGoto(r, PayIdle) /\ UNCHANGED <<payment, cleared>>
    BY <1>7 DEF AbortPayment
  <2> QED BY <2>1, <2>2, PayFrameKinds, PayGotoKeeps
<1> QED
  BY <1>1, <1>2, <1>3, <1>4, <1>5, <1>6, <1>7 DEF PaymentsNext

\* The payments, and the rows that handlers hold, are of their types.
THEOREM PaymentsTypeCorrect == PaymentsSpec => []PaymentsTypeOK
<1>1. PaymentsInv => PaymentsTypeOK BY DEF PaymentsInv
<1> QED BY <1>1, PaymentsInvInit, PaymentsInvStep, PTL DEF PaymentsSpec

\* A completed payment carries the time it was paid, through all its statuses,
\* unless the save of an entity that was loaded before cleared it.
THEOREM CompletedCarriesTime == PaymentsSpec => []CompletedWasPaid
<1>1. PaymentsInv => CompletedWasPaid BY DEF PaymentsInv
<1> QED BY <1>1, PaymentsInvInit, PaymentsInvStep, PTL DEF PaymentsSpec

-----------------------------------------------------------------------------
\* Exports.  What was answered is in a row or in the Map.

\* Where an export stands: as long as its handler runs, its row is behind the
\* object and the Map has it if no row does; afterwards one of the two tells
\* what was answered.
ExportGood(i) ==
  /\ epc[i] \in {"idle", "first"} => exportRow[i] = "none"
  /\ epc[i] # "gone" => told[i] = "none"
  /\ epc[i] \in {"first", "generate"} => object[i] = "processing"
  /\ epc[i] = "second" => object[i] \in {"completed", "failed"}
  /\ epc[i] \in {"generate", "second"} =>
       exportRow[i] = "processing" \/ (exportRow[i] = "none" /\ i \in kept)
  /\ told[i] # "none" =>
       /\ told[i] = object[i] /\ object[i] \in {"completed", "failed"}
       /\ exportRow[i] = object[i] \/ (exportRow[i] \in {"none", "processing"} /\ i \in kept)

ExportsInv == ExportsTypeOK /\ \A i \in ExportIds : ExportGood(i)

LEMMA ExportsInvInit == ExportsInit => ExportsInv
  BY DEF ExportsInit, ExportsInv, ExportsTypeOK, ExportStatus, ExportGood

\* A step of the handler of one export leaves the others alone.
LEMMA OneExport ==
  ASSUME ExportsInv, NEW i \in ExportIds, ExportsTypeOK', ExportGood(i)',
         \A j \in ExportIds \ {i} :
           /\ exportRow'[j] = exportRow[j] /\ object'[j] = object[j] /\ epc'[j] = epc[j]
           /\ told'[j] = told[j] /\ (j \in kept' <=> j \in kept)
  PROVE  ExportsInv'
  BY DEF ExportsInv, ExportGood

LEMMA SaveKinds ==
  ASSUME ExportsInv, NEW i \in ExportIds, Save(i)
  PROVE  /\ exportRow' \in [ExportIds -> ExportStatus] /\ kept' \in SUBSET ExportIds
         /\ \A j \in ExportIds \ {i} :
              exportRow'[j] = exportRow[j] /\ (j \in kept' <=> j \in kept)
         /\ exportRow'[i] = object[i] \/ (exportRow'[i] = exportRow[i] /\ i \in kept')
         /\ kept \subseteq kept'
  BY DEF Save, Store, ExportsInv, ExportsTypeOK

LEMMA ExportsInvStep == ExportsInv /\ [ExportsNext]_exportVars => ExportsInv'
<1> SUFFICES ASSUME ExportsInv, [ExportsNext]_exportVars PROVE ExportsInv'
  OBVIOUS
<1>1. CASE UNCHANGED exportVars
  BY <1>1 DEF exportVars, ExportsInv, ExportsTypeOK, ExportGood
<1>2. ASSUME NEW i \in ExportIds, BeginExport(i) PROVE ExportsInv'
  <2>1. ExportsTypeOK'
    BY <1>2 DEF ExportsInv, ExportsTypeOK, ExportStatus, BeginExport, ExportGoto
  <2>2. ExportGood(i)'
    BY <1>2 DEF ExportsInv, ExportsTypeOK, ExportGood, BeginExport, ExportGoto
  <2> QED BY <1>2, <2>1, <2>2, OneExport DEF ExportsInv, ExportsTypeOK, BeginExport, ExportGoto
<1>3. ASSUME NEW i \in ExportIds, FirstSave(i) PROVE ExportsInv'
  <2>1. Save(i) /\ epc[i] = "first" /\ object' = object /\ told' = told
          /\ epc' = [epc EXCEPT ![i] = "generate"]
    BY <1>3 DEF FirstSave, ExportGoto
  <2>2. ExportsTypeOK'
    BY <2>1, SaveKinds DEF ExportsInv, ExportsTypeOK
  <2>3. ExportGood(i)'
    BY <2>1, SaveKinds DEF ExportsInv, ExportsTypeOK, ExportGood
  <2> QED BY <2>1, <2>2, <2>3, SaveKinds, OneExport DEF ExportsInv, ExportsTypeOK
<1>4. ASSUME NEW i \in ExportIds, Generate(i) PROVE ExportsInv'
  <2> PICK status \in {"completed", "failed"} : object' = [object EXCEPT ![i] = status]
    BY <1>4 DEF Generate
  <2>1. ExportsTypeOK'
    BY <1>4 DEF ExportsInv, ExportsTypeOK, ExportStatus, Generate, ExportGoto
  <2>2. ExportGood(i)'
    BY <1>4 DEF ExportsInv, ExportsTypeOK, ExportGood, Generate, ExportGoto
  <2> QED BY <1>4, <2>1, <2>2, OneExport DEF ExportsInv, ExportsTypeOK, Generate, ExportGoto
<1>5. ASSUME NEW i \in ExportIds, SecondSave(i) PROVE ExportsInv'
  <2>1. Save(i) /\ epc[i] = "second" /\ object' = object
          /\ told' = [told EXCEPT ![i] = object[i]]
          /\ epc' = [epc EXCEPT ![i] = "gone"]
    BY <1>5 DEF SecondSave, ExportGoto
  <2>2. ExportsTypeOK'
    BY <2>1, SaveKinds DEF ExportsInv, ExportsTypeOK
  <2>3. ExportGood(i)'
    BY <2>1, SaveKinds DEF ExportsInv, ExportsTypeOK, ExportGood
  <2> QED BY <2>1, <2>2, <2>3, SaveKinds, OneExport DEF ExportsInv, ExportsTypeOK
<1>6. CASE Restart
  BY <1>6 DEF Restart, ExportsInv, ExportsTypeOK, ExportStatus, ExportGood
<1> QED
  BY <1>1, <1>2, <1>3, <1>4, <1>5, <1>6 DEF ExportsNext

\* Exports are of their types, in the table, in the Map and in the handlers.
THEOREM ExportsTypeCorrect == ExportsSpec => []ExportsTypeOK
<1>1. ExportsInv => ExportsTypeOK BY DEF ExportsInv
<1> QED BY <1>1, ExportsInvInit, ExportsInvStep, PTL DEF ExportsSpec

\* What a caller was answered is what he finds later, though either save may fail:
\* unless only the first was stored, and then the Map has it.
THEOREM AnswersAreFound == ExportsSpec => []AnsweredIsFound
<1>1. ExportsInv => AnsweredIsFound
  BY DEF ExportsInv, ExportGood, AnsweredIsFound, Lookup, InMemory, Downloadable
<1> QED BY <1>1, ExportsInvInit, ExportsInvStep, PTL DEF ExportsSpec

-----------------------------------------------------------------------------
\* Files.  What a request will name is stored, or excused.

\* A frame, by its place in the code.
LEMMA FileFrameKinds ==
  ASSUME NEW f \in FileFrame
  PROVE  /\ f.pc \in {"idle", "put", "insert", "remove", "putPhoto", "insertPhoto", "user",
                      "userWrite"}
         /\ f.pc \in {"put", "insert"} => f \in [pc : {"put", "insert"}, via : Uploaders, key : Uploads]
         /\ f.pc = "remove" => f \in [pc : {"remove"}, key : Uploads]
         /\ f.pc \in {"putPhoto", "insertPhoto"} =>
              f \in [pc : {"putPhoto", "insertPhoto"}, via : {"WorkerAppService"},
                     key : Uploads, base : Account]
         /\ f.pc \in {"user", "userWrite"} =>
              f \in [pc : {"user", "userWrite"}, base : Account, edit : Edit,
                     diff : SUBSET UserColumns]
  BY DEF FileFrame

LEMMA FileFrames ==
  /\ FileIdle \in FileFrame /\ FileIdle.pc = "idle"
  /\ \A f \in [pc : {"put", "insert"}, via : Uploaders, key : Uploads] : f \in FileFrame
  /\ \A f \in [pc : {"remove"}, key : Uploads] : f \in FileFrame
  /\ \A f \in [pc : {"putPhoto", "insertPhoto"}, via : {"WorkerAppService"}, key : Uploads,
               base : Account] : f \in FileFrame
  /\ \A f \in [pc : {"user", "userWrite"}, base : Account, edit : Edit,
               diff : SUBSET UserColumns] : f \in FileFrame
  BY DEF FileFrame, FileIdle

LEMMA EditIsTyped ==
  ASSUME NEW S \in SUBSET Resumes, NEW g \in [S -> Versions],
         NEW a \in Uploads \cup {NoFile}, NEW p \in Versions
  PROVE  [resumes |-> g, avatar |-> a, profile |-> p] \in Edit
  BY DEF Edit

\* The two shapes of an edit: of resumes and the profile, of the photo.
LEMMA EditsAreTyped ==
  ASSUME NEW S \in SUBSET Resumes, NEW g \in [S -> Versions],
         NEW a \in Uploads \cup {NoFile}, NEW p \in Versions
  PROVE  /\ EditOf(g, p) \in Edit /\ EditOf(g, p).avatar = NoFile
         /\ [NoEdit EXCEPT !.avatar = a] \in Edit
         /\ [NoEdit EXCEPT !.avatar = a].avatar = a
<1>1. 0 \in Versions /\ NoFile \in Uploads \cup {NoFile}
  BY FilesAssumption DEF Versions
<1>2. [i \in {} |-> 0] \in [{} -> Versions] /\ {} \in SUBSET Resumes
  OBVIOUS
<1> DEFINE none == [i \in {} |-> 0]
<1>3. [NoEdit EXCEPT !.avatar = a] = [resumes |-> none, avatar |-> a, profile |-> 0]
  BY DEF NoEdit, EditOf
<1>4. [resumes |-> none, avatar |-> a, profile |-> 0] \in Edit
  BY <1>1, <1>2, EditIsTyped
<1>5. EditOf(g, p) \in Edit /\ EditOf(g, p).avatar = NoFile
  BY <1>1, EditIsTyped DEF EditOf
<1> QED BY <1>3, <1>4, <1>5

\* What an edit makes of the user is a user; the photo is his or the edit's.
LEMMA ApplyIsTyped ==
  ASSUME NEW c \in Account, NEW e \in Edit
  PROVE  /\ Apply(c, e) \in Account
         /\ Apply(c, e).avatar \in {c.avatar, e.avatar}
         /\ Apply(c, e).avatar = NoFile => e.avatar = NoFile
<1>1. PICK S \in SUBSET Resumes : e.resumes \in [S -> Versions]
  BY DEF Edit
<1>2. e.avatar \in Uploads \cup {NoFile} /\ e.profile \in Versions
  BY DEF Edit
<1>3. DOMAIN e.resumes = S
  BY <1>1
<1>4. [i \in Resumes |-> IF i \in DOMAIN e.resumes THEN e.resumes[i] ELSE c.resumes[i]]
        \in [Resumes -> Versions]
  BY <1>1, <1>3 DEF Account
<1> QED BY <1>2, <1>4 DEF Apply, Account

\* The record that keeps some columns and takes the others is typed.
LEMMA MixIsTyped ==
  ASSUME NEW c \in Account, NEW new \in Account, NEW D \in SUBSET UserColumns,
         NEW m, m = [k \in UserColumns |-> m[k]],
         \A k \in UserColumns : m[k] = IF k \in D THEN new[k] ELSE c[k]
  PROVE  m \in Account /\ m.avatar \in {c.avatar, new.avatar}
<1>1. m = [resumes |-> m.resumes, avatar |-> m.avatar, profile |-> m.profile]
  BY DEF UserColumns
<1>2. /\ m.resumes \in {c.resumes, new.resumes}
      /\ m.avatar \in {c.avatar, new.avatar}
      /\ m.profile \in {c.profile, new.profile}
  BY DEF UserColumns
<1>3. /\ m.resumes \in [Resumes -> Versions]
      /\ m.avatar \in Uploads \cup {NoFile}
      /\ m.profile \in Versions
  BY <1>2 DEF Account
<1> QED BY <1>1, <1>2, <1>3 DEF Account

-----------------------------------------------------------------------------
\* What a handler will store names bytes of S only: the key of the row, the
\* photo of the user it loaded and of its edit.
Grounded(f, S) ==
  /\ f.pc \in {"insert", "insertPhoto"} => f.key \in S
  /\ f.pc \in {"putPhoto", "insertPhoto", "user", "userWrite"} => f.base.avatar \in S \cup {NoFile}
  /\ f.pc \in {"user", "userWrite"} => f.edit.avatar \in S \cup {NoFile}

\* Keys with their bytes, or with the warning of a service without a store.
Excused == {k \in Uploads : \E s \in Uploaders \ configured : <<s, k>> \in warned}
Backed == stored \cup Excused

NamedIsBacked == documents \subseteq Backed /\ account.avatar \in Backed \cup {NoFile}

FilesInv ==
  /\ FilesTypeOK
  /\ NamedIsBacked
  /\ \A r \in FileReq : Grounded(freqs[r], Backed)

LEMMA FilesInvInit == FilesInit => FilesInv
<1> SUFFICES ASSUME FilesInit PROVE FilesInv
  OBVIOUS
<1>1. 0 \in Versions
  BY FilesAssumption DEF Versions
<1>2. account \in Account /\ account.avatar = NoFile
  BY <1>1 DEF FilesInit, Account
<1>3. \A r \in FileReq : freqs[r] = FileIdle
  BY DEF FilesInit
<1>4. freqs \in [FileReq -> FileFrame]
  BY FileFrames DEF FilesInit
<1>5. FilesTypeOK
  BY <1>1, <1>2, <1>4 DEF FilesInit, FilesTypeOK
<1>6. documents = {}
  BY DEF FilesInit
<1> QED BY <1>2, <1>3, <1>5, <1>6 DEF FilesInv, NamedIsBacked, Grounded, FileIdle

\* A step of one handler that takes no bytes away.
LEMMA FileStep ==
  ASSUME FilesInv, NEW r \in FileReq, NEW f \in FileFrame, FileGoto(r, f),
         Backed \subseteq Backed', stored' \in SUBSET Uploads, configured' \in SUBSET Uploaders,
         warned' \in SUBSET (Uploaders \X Uploads), Grounded(f, Backed'),
         documents' \subseteq Backed', documents' \in SUBSET Uploads,
         account' \in Account, account'.avatar \in Backed' \cup {NoFile},
         pdf' \in [Resumes -> Versions], edits' \in Versions,
         wanted' \in Account, overwritten' \in BOOLEAN
  PROVE  FilesInv'
<1>1. freqs \in [FileReq -> FileFrame] /\ freqs' = [freqs EXCEPT ![r] = f]
  BY DEF FilesInv, FilesTypeOK, FileGoto
<1>2. FilesTypeOK'
  BY <1>1 DEF FilesTypeOK
<1>3. NamedIsBacked'
  BY DEF NamedIsBacked
<1>4. ASSUME NEW s \in FileReq PROVE Grounded(freqs[s], Backed)'
  <2>1. CASE s = r
    BY <1>1, <2>1 DEF Grounded
  <2>2. CASE s # r
    <3>1. freqs'[s] = freqs[s] /\ Grounded(freqs[s], Backed)
      BY <1>1, <2>2 DEF FilesInv
    <3> QED BY <3>1 DEF Grounded
  <2> QED BY <2>1, <2>2
<1> QED BY <1>2, <1>3, <1>4 DEF FilesInv

LEMMA BackedStays ==
  UNCHANGED <<configured, stored, warned>> => Backed' = Backed
  BY DEF Backed, Excused

LEMMA FileQuietStep ==
  ASSUME FilesInv, NEW r \in FileReq, NEW f \in FileFrame, FileGoto(r, f), Grounded(f, Backed),
         UNCHANGED <<configured, stored, warned, account, overwritten>>,
         documents' \subseteq Backed, wanted' \in Account,
         pdf' \in [Resumes -> Versions], edits' \in Versions
  PROVE  FilesInv'
<1>1. Backed' = Backed /\ Grounded(f, Backed')
  BY BackedStays
<1>2. Backed \subseteq Uploads
  BY DEF Backed, Excused, FilesInv, FilesTypeOK
<1> QED BY <1>1, <1>2, FileStep DEF FilesInv, FilesTypeOK, NamedIsBacked

\* The photo of the user and of an edit of something else are stored.
LEMMA BeginEditStep ==
  ASSUME FilesInv, NEW r \in FileReq, NEW e \in Edit, e.avatar = NoFile,
         BeginEditUser(r, e), pdf' \in [Resumes -> Versions]
  PROVE  FilesInv'
<1> DEFINE f == SaveUser(account, e)
<1>1. f \in [pc : {"user", "userWrite"}, base : Account, edit : Edit, diff : SUBSET UserColumns]
        /\ f.pc = "user" /\ f.base = account /\ f.edit = e
  BY DEF SaveUser, FilesInv, FilesTypeOK
<1>2. f \in FileFrame
  BY <1>1, FileFrames
<1>3. Grounded(f, Backed)
  BY <1>1 DEF Grounded, FilesInv, NamedIsBacked
<1>4. edits' \in Versions
  BY FilesAssumption DEF BeginEditUser, FilesInv, FilesTypeOK, Versions
<1>5. FileGoto(r, f) /\ UNCHANGED <<configured, stored, documents, account, warned, wanted, overwritten>>
  BY DEF BeginEditUser
<1> QED BY <1>2, <1>3, <1>4, <1>5, FileQuietStep DEF FilesInv, FilesTypeOK, NamedIsBacked

LEMMA FilesInvStep == FilesInv /\ [FilesNext]_fileVars => FilesInv'
<1> SUFFICES ASSUME FilesInv, [FilesNext]_fileVars PROVE FilesInv'
  OBVIOUS
<1> USE DEF FilesInv
<1>1. CASE UNCHANGED fileVars
  BY <1>1, BackedStays DEF fileVars, FilesTypeOK, NamedIsBacked, Grounded
<1>2. ASSUME NEW i \in Resumes, ServePdf(i) PROVE FilesInv'
  <2>1. account.resumes[i] \in Versions
    BY DEF FilesTypeOK, Account
  <2> QED BY <1>2, <2>1, BackedStays DEF ServePdf, FilesTypeOK, NamedIsBacked, Grounded
<1>3. ASSUME NEW r \in FileReq, NEW k \in Uploads,
             \/ \E s \in Uploaders : BeginUpload(r, s, k)
             \/ BeginPhoto(r, k) \/ BeginRemoveDocument(r, k)
      PROVE  FilesInv'
  <2>1. ASSUME NEW s \in Uploaders, BeginUpload(r, s, k) PROVE FilesInv'
    <3> DEFINE f == [pc |-> "put", via |-> s, key |-> k]
    <3>1. f \in FileFrame /\ Grounded(f, Backed)
      BY FileFrames DEF Grounded
    <3> QED BY <2>1, <3>1, FileQuietStep DEF BeginUpload, FilesTypeOK, NamedIsBacked
  <2>2. CASE BeginPhoto(r, k)
    <3> DEFINE f == [pc |-> "putPhoto", via |-> "WorkerAppService", key |-> k, base |-> account]
    <3>1. f \in FileFrame
      BY FileFrames DEF FilesTypeOK
    <3>2. Grounded(f, Backed)
      BY DEF Grounded, NamedIsBacked
    <3> QED BY <2>2, <3>1, <3>2, FileQuietStep DEF BeginPhoto, FilesTypeOK, NamedIsBacked
  <2>3. CASE BeginRemoveDocument(r, k)
    <3>1. /\ [pc |-> "remove", key |-> k] \in FileFrame
          /\ Grounded([pc |-> "remove", key |-> k], Backed)
      BY FileFrames DEF Grounded
    <3> QED BY <2>3, <3>1, FileQuietStep DEF BeginRemoveDocument, FilesTypeOK, NamedIsBacked
  <2> QED BY <1>3, <2>1, <2>2, <2>3
<1>4. ASSUME NEW r \in FileReq, Put(r) PROVE FilesInv'
  <2> DEFINE q == freqs[r]
             f == AfterPut(q)
  <2>1. q \in FileFrame /\ q.pc \in {"put", "putPhoto"} /\ Grounded(q, Backed)
    BY <1>4 DEF Put, FilesTypeOK
  <2>2. q.key \in Uploads /\ q.via \in Uploaders
    BY <2>1, FileFrameKinds DEF Uploaders
  <2>5. /\ configured' = configured /\ configured \in SUBSET Uploaders
        /\ stored' \in SUBSET Uploads /\ warned' \in SUBSET (Uploaders \X Uploads)
        /\ stored \subseteq stored' /\ warned \subseteq warned'
        /\ q.key \in stored' \/ (q.via \notin configured /\ <<q.via, q.key>> \in warned')
    BY <1>4, <2>2 DEF Put, PutBytes, PutNothing, FilesTypeOK
  <2>6. Backed \subseteq Backed' /\ q.key \in Backed'
    BY <2>2, <2>5 DEF Backed, Excused
  <2>3. f \in FileFrame /\ Grounded(f, Backed')
    <3>1. CASE q.pc = "put"
      <4>1. q \in [pc : {"put", "insert"}, via : Uploaders, key : Uploads] /\ f = [q EXCEPT !.pc = "insert"]
        BY <2>1, <3>1, FileFrameKinds DEF AfterPut
      <4>2. f \in [pc : {"put", "insert"}, via : Uploaders, key : Uploads] /\ f.pc = "insert" /\ f.key = q.key
        BY <4>1
      <4> QED BY <2>6, <4>2, FileFrames DEF Grounded
    <3>2. CASE q.pc = "putPhoto"
      <4>1. /\ q \in [pc : {"putPhoto", "insertPhoto"}, via : {"WorkerAppService"},
               key : Uploads, base : Account]
            /\ f = [q EXCEPT !.pc = "insertPhoto"]
        BY <2>1, <3>2, FileFrameKinds DEF AfterPut
      <4>2. /\ f \in [pc : {"putPhoto", "insertPhoto"}, via : {"WorkerAppService"},
               key : Uploads, base : Account]
            /\ f.pc = "insertPhoto" /\ f.key = q.key /\ f.base = q.base
        BY <4>1
      <4>3. q.base.avatar \in Backed \cup {NoFile}
        BY <2>1, <3>2 DEF Grounded
      <4> QED BY <2>6, <4>2, <4>3, FileFrames DEF Grounded
    <3> QED BY <2>1, <3>1, <3>2
  <2>4. FileGoto(r, f) /\ UNCHANGED <<documents, account, pdf, edits, wanted, overwritten>>
    BY <1>4 DEF Put
  <2> QED BY <2>3, <2>4, <2>5, <2>6, FileStep DEF FilesTypeOK, NamedIsBacked
<1>5. ASSUME NEW r \in FileReq, InsertDocument(r) PROVE FilesInv'
  <2>1. freqs[r].key \in Backed
    BY <1>5 DEF InsertDocument, Grounded
  <2>2. Grounded(FileIdle, Backed)
    BY DEF Grounded, FileIdle
  <2> QED BY <1>5, <2>1, <2>2, FileFrames, FileQuietStep
        DEF InsertDocument, FilesTypeOK, NamedIsBacked
<1>6. ASSUME NEW r \in FileReq, RemoveDocument(r) \/ AbortFile(r) PROVE FilesInv'
  <2>1. Grounded(FileIdle, Backed)
    BY DEF Grounded, FileIdle
  <2> QED BY <1>6, <2>1, FileFrames, FileQuietStep
        DEF RemoveDocument, AbortFile, FilesTypeOK, NamedIsBacked
<1>7. ASSUME NEW r \in FileReq, InsertPhoto(r) PROVE FilesInv'
  <2> DEFINE q == freqs[r]
             e == [NoEdit EXCEPT !.avatar = q.key]
             f == SaveUser(q.base, e)
  <2>1. /\ q \in [pc : {"putPhoto", "insertPhoto"}, via : {"WorkerAppService"},
               key : Uploads, base : Account]
        /\ q.pc = "insertPhoto" /\ Grounded(q, Backed)
    BY <1>7, FileFrameKinds DEF InsertPhoto, FilesTypeOK
  <2>2. q.key \in Backed /\ q.base.avatar \in Backed \cup {NoFile}
    BY <2>1 DEF Grounded
  <2>3. e \in Edit /\ e.avatar = q.key
    <3>1. /\ {} \in SUBSET Resumes /\ [i \in {} |-> 0] \in [{} -> Versions] /\ 0 \in Versions
          /\ q.key \in Uploads \cup {NoFile}
      BY <2>1, FilesAssumption DEF Versions
    <3> QED BY <3>1, EditsAreTyped
  <2>4. f \in FileFrame /\ Grounded(f, Backed)
    <3>1. f \in [pc : {"user", "userWrite"}, base : Account, edit : Edit,
                 diff : SUBSET UserColumns]
            /\ f.pc = "user" /\ f.base = q.base /\ f.edit = e
      BY <2>1, <2>3 DEF SaveUser
    <3> QED BY <2>2, <2>3, <3>1, FileFrames DEF Grounded
  <2>5. /\ FileGoto(r, f) /\ UNCHANGED <<configured, stored, account, pdf, edits, warned, wanted, overwritten>>
        /\ documents' \in {documents, documents \cup {q.key}}
    BY <1>7 DEF InsertPhoto
  <2> QED BY <2>2, <2>4, <2>5, FileQuietStep DEF FilesTypeOK, NamedIsBacked
<1>8. ASSUME NEW r \in FileReq, NEW i \in Resumes, BeginSaveResume(r, i) PROVE FilesInv'
  <2>1. PICK profile \in {0, edits + 1} :
          BeginEditUser(r, EditOf([j \in {i} |-> edits + 1], profile))
    BY <1>8 DEF BeginSaveResume
  <2>2. edits + 1 \in Versions /\ 0 \in Versions
    BY <2>1, FilesAssumption DEF BeginEditUser, FilesTypeOK, Versions
  <2>3. {i} \in SUBSET Resumes /\ [j \in {i} |-> edits + 1] \in [{i} -> Versions]
          /\ profile \in Versions /\ NoFile \in Uploads \cup {NoFile}
    BY <2>2
  <2>4. pdf' \in [Resumes -> Versions]
    BY <1>8, <2>2 DEF BeginSaveResume, FilesTypeOK
  <2> DEFINE e == EditOf([j \in {i} |-> edits + 1], profile)
  <2>5. e \in Edit /\ e.avatar = NoFile
    BY <2>3, EditsAreTyped
  <2> QED BY <2>1, <2>4, <2>5, BeginEditStep
<1>9. ASSUME NEW r \in FileReq, NEW i \in Resumes, BeginDeleteResume(r, i) PROVE FilesInv'
  <2> DEFINE e == EditOf([j \in {i} |-> 0], 0)
  <2>1. 0 \in Versions
    BY FilesAssumption DEF Versions
  <2>2. {i} \in SUBSET Resumes /\ [j \in {i} |-> 0] \in [{i} -> Versions]
          /\ NoFile \in Uploads \cup {NoFile}
    BY <2>1
  <2>3. e \in Edit /\ e.avatar = NoFile
    BY <2>1, <2>2, EditsAreTyped
  <2> QED BY <1>9, <2>3, BeginEditStep DEF BeginDeleteResume, FilesTypeOK
<1>10. ASSUME NEW r \in FileReq, BeginUpdateProfile(r) PROVE FilesInv'
  <2>1. pdf' \in [Resumes -> Versions]
    BY <1>10 DEF BeginUpdateProfile, FilesTypeOK
  <2>2. edits + 1 \in Versions /\ 0 \in Versions /\ NoFile \in Uploads \cup {NoFile}
    <3>1. edits < MaxEdits
      BY <1>10 DEF BeginUpdateProfile, BeginEditUser
    <3> QED BY <3>1, FilesAssumption DEF FilesTypeOK, Versions
  <2>3. CASE BeginEditUser(r, EditOf([i \in {} |-> 0], edits + 1))
    <3> DEFINE e == EditOf([i \in {} |-> 0], edits + 1)
    <3>1. {} \in SUBSET Resumes /\ [i \in {} |-> 0] \in [{} -> Versions]
      OBVIOUS
    <3>2. e \in Edit /\ e.avatar = NoFile
      BY <2>2, <3>1, EditsAreTyped
    <3> QED BY <2>1, <2>3, <3>2, BeginEditStep
  <2>4. ASSUME NEW S \in SUBSET Resumes,
               BeginEditUser(r, EditOf([i \in Resumes |-> IF i \in S THEN account.resumes[i]
                                                          ELSE 0], edits + 1))
        PROVE  FilesInv'
    <3> DEFINE g == [i \in Resumes |-> IF i \in S THEN account.resumes[i] ELSE 0]
               e == EditOf(g, edits + 1)
    <3>1. g \in [Resumes -> Versions] /\ Resumes \in SUBSET Resumes
      BY <2>2 DEF FilesTypeOK, Account
    <3>2. e \in Edit /\ e.avatar = NoFile
      <4> HIDE DEF g
      <4> QED BY <2>2, <3>1, EditsAreTyped
    <3> QED BY <2>1, <2>4, <3>2, BeginEditStep
  <2> QED BY <1>10, <2>3, <2>4 DEF BeginUpdateProfile
<1>11. ASSUME NEW r \in FileReq, SaveReadUser(r) PROVE FilesInv'
  <2> DEFINE q == freqs[r]
             diff == {c \in UserColumns : Apply(q.base, q.edit)[c] # account[c]}
             f == [q EXCEPT !.pc = "userWrite", !.diff = diff]
  <2>1. /\ q \in [pc : {"user", "userWrite"}, base : Account, edit : Edit,
                  diff : SUBSET UserColumns]
        /\ q.pc = "user" /\ Grounded(q, Backed)
    BY <1>11, FileFrameKinds DEF SaveReadUser, FilesTypeOK
  <2>2. CASE diff = {}
    <3>1. /\ wanted' = Apply(wanted, q.edit) /\ FileGoto(r, FileIdle)
          /\ UNCHANGED <<configured, stored, documents, account, pdf, edits, warned, overwritten>>
      BY <1>11, <2>2 DEF SaveReadUser
    <3>2. wanted' \in Account
      BY <2>1, <3>1, ApplyIsTyped DEF FilesTypeOK
    <3>3. Grounded(FileIdle, Backed)
      BY DEF Grounded, FileIdle
    <3> QED BY <3>1, <3>2, <3>3, FileFrames, FileQuietStep DEF FilesTypeOK, NamedIsBacked
  <2>3. CASE diff # {}
    <3>1. /\ FileGoto(r, f)
          /\ UNCHANGED <<configured, stored, documents, account, pdf, edits, warned, wanted,
                      overwritten>>
      BY <1>11, <2>3 DEF SaveReadUser
    <3>2. diff \in SUBSET UserColumns
      OBVIOUS
    <3> HIDE DEF diff
    <3>3. /\ f \in [pc : {"user", "userWrite"}, base : Account, edit : Edit,
                    diff : SUBSET UserColumns]
          /\ f.pc = "userWrite" /\ f.base = q.base /\ f.edit = q.edit
      BY <2>1, <3>2
    <3>4. Grounded(f, Backed)
      BY <2>1, <3>3 DEF Grounded
    <3> QED BY <3>1, <3>3, <3>4, FileFrames, FileQuietStep DEF FilesTypeOK, NamedIsBacked
  <2> QED BY <2>2, <2>3
<1>12. ASSUME NEW r \in FileReq, SaveWriteUser(r) PROVE FilesInv'
  <2> DEFINE q == freqs[r]
             new == Apply(q.base, q.edit)
  <2>1. /\ q \in [pc : {"user", "userWrite"}, base : Account, edit : Edit,
                  diff : SUBSET UserColumns]
        /\ q.pc = "userWrite" /\ Grounded(q, Backed)
    BY <1>12, FileFrameKinds DEF SaveWriteUser, FilesTypeOK
  <2>2. new \in Account /\ new.avatar \in Backed \cup {NoFile}
    BY <2>1, ApplyIsTyped DEF Grounded
  <2>3. account' = [c \in UserColumns |-> IF c \in q.diff THEN new[c] ELSE account[c]]
    BY <1>12 DEF SaveWriteUser
  <2>4. account \in Account /\ q.diff \in SUBSET UserColumns
    BY <2>1 DEF FilesTypeOK
  <2>5. account' \in Account /\ account'.avatar \in {account.avatar, new.avatar}
    <3> HIDE DEF new
    <3>1. /\ account' = [c \in UserColumns |-> account'[c]]
          /\ \A c \in UserColumns : account'[c] = IF c \in q.diff THEN new[c] ELSE account[c]
      BY <2>3
    <3> QED BY <2>2, <2>4, <3>1, MixIsTyped
  <2>6. wanted' \in Account /\ overwritten' \in BOOLEAN
    BY <1>12, <2>1, ApplyIsTyped DEF SaveWriteUser, FilesTypeOK
  <2>7. Grounded(FileIdle, Backed')
    BY DEF Grounded, FileIdle
  <2>8. FileGoto(r, FileIdle) /\ UNCHANGED <<configured, stored, documents, pdf, edits, warned>>
    BY <1>12 DEF SaveWriteUser
  <2>9. Backed' = Backed
    BY <2>8, BackedStays
  <2> QED BY <2>2, <2>5, <2>6, <2>7, <2>8, <2>9, FileFrames, FileStep DEF FilesTypeOK, NamedIsBacked
<1> QED
  BY <1>1, <1>2, <1>3, <1>4, <1>5, <1>6, <1>7, <1>8, <1>9, <1>10, <1>11, <1>12 DEF FilesNext

\* Rows, the profile and what every handler holds are of their types.
THEOREM FilesTypeCorrect == FilesSpec => []FilesTypeOK
<1>1. FilesInv => FilesTypeOK BY DEF FilesInv
<1> QED BY <1>1, FilesInvInit, FilesInvStep, PTL DEF FilesSpec

\* No phantom rows: what documents and the profile name is in the store, whatever
\* fails between the upload and the row and whichever services have a store; or it
\* came through one that has none and logged a warning.
THEOREM RowsNameFiles == FilesSpec => []NamedIsStored
<1>1. FilesInv => NamedIsStored
  BY DEF FilesInv, NamedIsBacked, NamedIsStored, Named, Backed, Excused
<1> QED BY <1>1, FilesInvInit, FilesInvStep, PTL DEF FilesSpec

-----------------------------------------------------------------------------
\* Edits of the user.  A save leaves out the columns that were already as it
\* wants them, so a column may change back behind it.  It cannot: what an edit
\* brings is new, nobody else has it in hand, and what a save took away comes
\* back only by a save that overwrites.

\* Handlers that hold the user they loaded, and those that hold an edit of him.
Loads(f) == f.pc \in {"putPhoto", "insertPhoto", "user", "userWrite"}
Saves(f) == f.pc \in {"user", "userWrite"}

Numbers(c) == {c.profile} \cup {c.resumes[i] : i \in Resumes}
EditNumbers(e) == {e.profile} \cup {e.resumes[i] : i \in DOMAIN e.resumes}

\* The numbers of the versions a handler holds, and those that only it brings.
Touches(f) == (IF Loads(f) THEN Numbers(f.base) ELSE {})
                \cup (IF Saves(f) THEN EditNumbers(f.edit) ELSE {})
NewOf(f) == IF Saves(f) THEN EditNumbers(f.edit) \ (Numbers(f.base) \cup {0}) ELSE {}

Shaped(f) ==
  Saves(f) =>
    /\ f.edit.profile \in NewOf(f) \cup {0}
    /\ \A i \in DOMAIN f.edit.resumes :
         f.edit.resumes[i] \in NewOf(f) \cup {0, f.base.resumes[i]}

NumbersApart ==
  /\ Numbers(account) \subseteq 0 .. edits
  /\ \A r \in FileReq :
       /\ Touches(freqs[r]) \subseteq 0 .. edits
       /\ NewOf(freqs[r]) \cap Numbers(account) = {}
       /\ \A s \in FileReq \ {r} : NewOf(freqs[r]) \cap Touches(freqs[s]) = {}
       /\ Shaped(freqs[r])

\* The photo that only this handler brings, and the one it loaded.
KeyOf(f) ==
  (IF f.pc \in {"putPhoto", "insertPhoto"} THEN {f.key}
   ELSE IF Saves(f) THEN {f.edit.avatar} ELSE {}) \ {NoFile}
BaseKey(f) == IF Loads(f) THEN {f.base.avatar} ELSE {}

KeysApart ==
  \A r \in FileReq :
    /\ account.avatar \notin KeyOf(freqs[r])
    /\ \A s \in FileReq : KeyOf(freqs[r]) \cap BaseKey(freqs[s]) = {}
    /\ \A s \in FileReq \ {r} : KeyOf(freqs[r]) \cap KeyOf(freqs[s]) = {}

\* A column that a save will leave out is one the edit does not change, or one
\* that differs for good from what was loaded.
MissedIn(f, columns, old) ==
  f.pc = "userWrite" =>
    /\ f.edit.profile # 0 => "profile" \in f.diff
    /\ f.edit.avatar # NoFile => "avatar" \in f.diff
    /\ "resumes" \notin f.diff /\ ~old =>
         \/ Apply(f.base, f.edit).resumes = f.base.resumes
         \/ \E i \in Resumes : f.base.resumes[i] # 0 /\ columns.resumes[i] # f.base.resumes[i]

AllMissed == \A r \in FileReq : MissedIn(freqs[r], account, overwritten)

EditsInv == FilesInv /\ NumbersApart /\ KeysApart /\ AllMissed /\ EditsAreKept

LEMMA NumbersOf ==
  ASSUME NEW c \in Account
  PROVE  /\ Numbers(c) \subseteq Versions /\ c.profile \in Numbers(c)
         /\ \A i \in Resumes : c.resumes[i] \in Numbers(c)
         /\ c.resumes \in [Resumes -> Versions]
  BY DEF Account, Numbers

LEMMA ApplyIs ==
  ASSUME NEW c \in Account, NEW e \in Edit
  PROVE  /\ Apply(c, e).profile = IF e.profile = 0 THEN c.profile ELSE e.profile
         /\ Apply(c, e).avatar = IF e.avatar = NoFile THEN c.avatar ELSE e.avatar
         /\ Apply(c, e).resumes \in [Resumes -> Versions]
         /\ \A i \in Resumes : Apply(c, e).resumes[i] =
                                IF i \in DOMAIN e.resumes THEN e.resumes[i] ELSE c.resumes[i]
  BY ApplyIsTyped DEF Apply, Account

LEMMA AccountsAgree ==
  ASSUME NEW c \in Account, NEW d \in Account,
         c.profile = d.profile, c.avatar = d.avatar,
         \A i \in Resumes : c.resumes[i] = d.resumes[i]
  PROVE  c = d
<1>1. c.resumes = d.resumes
  BY DEF Account
<1> QED BY <1>1 DEF Account

\* Saving what is stored already changes nothing.
LEMMA ApplyTwice ==
  ASSUME NEW c \in Account, NEW e \in Edit
  PROVE  Apply(Apply(c, e), e) = Apply(c, e)
<1>1. Apply(c, e) \in Account
  BY ApplyIsTyped
<1>2. PICK d : d = Apply(c, e)
  OBVIOUS
<1>3. d \in Account /\ Apply(d, e) \in Account
  BY <1>1, <1>2, ApplyIsTyped
<1>4. /\ Apply(d, e).profile = d.profile /\ Apply(d, e).avatar = d.avatar
      /\ \A i \in Resumes : Apply(d, e).resumes[i] = d.resumes[i]
  BY <1>2, <1>3, ApplyIs
<1>5. Apply(d, e) = d
  BY <1>3, <1>4, AccountsAgree
<1> QED BY <1>2, <1>5

\* The next frame of one handler keeps the numbers, and the photos, apart.
LEMMA NumbersStep ==
  ASSUME NumbersApart, freqs \in [FileReq -> FileFrame], edits \in Nat, edits' \in Nat,
         NEW r \in FileReq, NEW f, FileGoto(r, f), Shaped(f), edits <= edits',
         Numbers(account') \subseteq Numbers(account) \cup Touches(freqs[r]),
         NewOf(f) \cap Numbers(account') = {},
         Touches(f) \subseteq Touches(freqs[r]) \cup Numbers(account) \cup {0} \cup (edits + 1 .. edits'),
         NewOf(f) \subseteq NewOf(freqs[r]) \cup (edits + 1 .. edits')
  PROVE  NumbersApart'
<1>1. freqs' = [freqs EXCEPT ![r] = f]
  BY DEF FileGoto
<1>2. ASSUME NEW s \in FileReq
      PROVE  NewOf(freqs[s]) \subseteq Touches(freqs[s]) /\ 0 \notin NewOf(freqs[s])
  BY DEF NewOf, Touches
<1>3. 0 .. edits \subseteq 0 .. edits'
  OBVIOUS
<1>4. Numbers(account') \subseteq 0 .. edits'
  BY <1>3 DEF NumbersApart
<1>5. ASSUME NEW s \in FileReq
      PROVE  /\ Touches(freqs'[s]) \subseteq 0 .. edits'
             /\ NewOf(freqs'[s]) \cap Numbers(account') = {}
             /\ Shaped(freqs'[s])
  <2>1. CASE s = r
    <3>1. freqs'[s] = f
      BY <1>1, <2>1
    <3>2. Touches(f) \subseteq 0 .. edits'
      BY <1>3 DEF NumbersApart
    <3> QED BY <3>1, <3>2
  <2>2. CASE s # r
    <3>1. freqs'[s] = freqs[s]
      BY <1>1, <2>2
    <3>2. NewOf(freqs[s]) \cap Numbers(account') = {}
      BY <2>2 DEF NumbersApart
    <3> QED BY <1>3, <3>1, <3>2 DEF NumbersApart
  <2> QED BY <2>1, <2>2
<1>6. ASSUME NEW s \in FileReq, NEW t \in FileReq \ {s}
      PROVE  NewOf(freqs'[s]) \cap Touches(freqs'[t]) = {}
  <2>1. CASE s = r
    <3>1. freqs'[s] = f /\ freqs'[t] = freqs[t] /\ t # r
      BY <1>1, <2>1
    <3>2. NewOf(freqs[r]) \cap Touches(freqs[t]) = {} /\ Touches(freqs[t]) \subseteq 0 .. edits
      BY <3>1 DEF NumbersApart
    <3> QED BY <3>1, <3>2
  <2>2. CASE t = r
    <3>1. freqs'[s] = freqs[s] /\ freqs'[t] = f /\ s # r
      BY <1>1, <2>2
    <3>2. NewOf(freqs[s]) \cap Touches(freqs[r]) = {} /\ NewOf(freqs[s]) \cap Numbers(account) = {}
            /\ NewOf(freqs[s]) \subseteq 0 .. edits /\ 0 \notin NewOf(freqs[s])
      BY <1>2, <3>1 DEF NumbersApart
    <3> QED BY <3>1, <3>2
  <2>3. CASE s # r /\ t # r
    <3>1. freqs'[s] = freqs[s] /\ freqs'[t] = freqs[t]
      BY <1>1, <2>3
    <3> QED BY <3>1 DEF NumbersApart
  <2> QED BY <2>1, <2>2, <2>3
<1> QED BY <1>4, <1>5, <1>6 DEF NumbersApart, Touches, NewOf, Shaped, Numbers, EditNumbers, Loads, Saves

LEMMA KeysStep ==
  ASSUME KeysApart, freqs \in [FileReq -> FileFrame], NEW r \in FileReq, NEW f, FileGoto(r, f),
         account'.avatar \in {account.avatar, NoFile} \cup BaseKey(freqs[r]) \cup KeyOf(freqs[r]),
         account'.avatar \notin KeyOf(f), KeyOf(f) \cap BaseKey(f) = {},
         BaseKey(f) \subseteq BaseKey(freqs[r]) \cup {account.avatar},
         \A s \in FileReq \ {r} : /\ KeyOf(f) \cap BaseKey(freqs[s]) = {}
                                  /\ KeyOf(f) \cap KeyOf(freqs[s]) = {}
  PROVE  KeysApart'
<1>1. freqs' = [freqs EXCEPT ![r] = f]
  BY DEF FileGoto
<1>2. ASSUME NEW s \in FileReq PROVE NoFile \notin KeyOf(freqs[s])
  BY DEF KeyOf
<1>3. ASSUME NEW s \in FileReq, NEW t \in FileReq
      PROVE  /\ account'.avatar \notin KeyOf(freqs'[s])
             /\ KeyOf(freqs'[s]) \cap BaseKey(freqs'[t]) = {}
             /\ s # t => KeyOf(freqs'[s]) \cap KeyOf(freqs'[t]) = {}
  <2>1. CASE s = r /\ t = r
    BY <1>1, <2>1
  <2>2. CASE s = r /\ t # r
    BY <1>1, <2>2
  <2>3. CASE s # r /\ t = r
    <3>1. freqs'[s] = freqs[s] /\ freqs'[t] = f
      BY <1>1, <2>3
    <3> QED BY <1>2, <2>3, <3>1 DEF KeysApart
  <2>4. CASE s # r /\ t # r
    <3>1. freqs'[s] = freqs[s] /\ freqs'[t] = freqs[t]
      BY <1>1, <2>4
    <3>2. KeyOf(freqs[s]) \cap KeyOf(freqs[r]) = {} /\ KeyOf(freqs[s]) \cap BaseKey(freqs[r]) = {}
      BY <2>4 DEF KeysApart
    <3> QED BY <1>2, <2>4, <3>1, <3>2 DEF KeysApart
  <2> QED BY <2>1, <2>2, <2>3, <2>4
<1> QED BY <1>3 DEF KeysApart, KeyOf, BaseKey, Loads, Saves

\* The next frame of one handler, when nothing is saved.
LEMMA HeldStep ==
  ASSUME EditsInv, FilesInv', NEW r \in FileReq, NEW f, FileGoto(r, f),
         UNCHANGED <<account, overwritten>>, account = wanted => account = wanted', edits <= edits',
         KeysApart', Shaped(f), MissedIn(f, account, overwritten),
         Touches(f) \subseteq Touches(freqs[r]) \cup Numbers(account) \cup {0} \cup (edits + 1 .. edits'),
         NewOf(f) \subseteq NewOf(freqs[r]) \cup (edits + 1 .. edits')
  PROVE  EditsInv'
<1>1. /\ freqs \in [FileReq -> FileFrame] /\ edits \in Nat /\ edits' \in Nat
      /\ NumbersApart /\ AllMissed /\ EditsAreKept
  BY FilesAssumption DEF EditsInv, FilesInv, FilesTypeOK, Versions
<1>2. freqs' = [freqs EXCEPT ![r] = f]
  BY DEF FileGoto
<1>3. NewOf(f) \cap Numbers(account) = {}
  BY <1>1 DEF NumbersApart
<1>4. NumbersApart'
  BY <1>1, <1>3, NumbersStep
<1>5. ASSUME NEW s \in FileReq PROVE MissedIn(freqs'[s], account', overwritten')
  <2>1. CASE s = r
    BY <1>1, <1>2, <2>1
  <2>2. CASE s # r
    <3>1. freqs'[s] = freqs[s] /\ MissedIn(freqs[s], account, overwritten)
      BY <1>1, <1>2, <2>2 DEF AllMissed
    <3> QED BY <3>1
  <2> QED BY <2>1, <2>2
<1>6. AllMissed'
  BY <1>5 DEF AllMissed, MissedIn, Apply
<1>7. EditsAreKept'
  BY <1>1 DEF EditsAreKept
<1> QED BY <1>4, <1>6, <1>7 DEF EditsInv

\* The same of a handler that keeps its key, or drops it.
LEMMA KeptKeys ==
  ASSUME EditsInv, NEW r \in FileReq, NEW f, FileGoto(r, f), UNCHANGED account,
         KeyOf(f) \subseteq KeyOf(freqs[r]),
         BaseKey(f) \subseteq BaseKey(freqs[r]) \cup {account.avatar}
  PROVE  KeysApart'
<1>1. KeysApart /\ freqs \in [FileReq -> FileFrame]
  BY DEF EditsInv, FilesInv, FilesTypeOK
<1>2. /\ account.avatar \notin KeyOf(freqs[r]) /\ KeyOf(freqs[r]) \cap BaseKey(freqs[r]) = {}
      /\ \A s \in FileReq \ {r} : /\ KeyOf(freqs[r]) \cap BaseKey(freqs[s]) = {}
                                  /\ KeyOf(freqs[r]) \cap KeyOf(freqs[s]) = {}
  BY <1>1 DEF KeysApart
<1> QED BY <1>1, <1>2, KeysStep

\* A handler that has nothing of the user in hand.
LEMMA ApartStep ==
  ASSUME EditsInv, FilesInv', NEW r \in FileReq, NEW f, FileGoto(r, f),
         UNCHANGED <<account, edits, wanted, overwritten>>,
         f.pc \in {"idle", "put", "insert", "remove"}
  PROVE  EditsInv'
<1>1. /\ Touches(f) = {} /\ NewOf(f) = {} /\ KeyOf(f) = {} /\ BaseKey(f) = {} /\ Shaped(f)
      /\ MissedIn(f, account, overwritten)
  BY DEF Touches, NewOf, KeyOf, BaseKey, Loads, Saves, Shaped, MissedIn
<1>2. edits <= edits'
  BY FilesAssumption DEF EditsInv, FilesInv, FilesTypeOK, Versions
<1> QED BY <1>1, <1>2, KeptKeys, HeldStep

\* A handler on its way to the save of a photo.
LEMMA PhotoStep ==
  ASSUME EditsInv, FilesInv', NEW r \in FileReq, NEW f, FileGoto(r, f),
         UNCHANGED <<account, edits, wanted, overwritten>>,
         \/ /\ freqs[r].pc = "putPhoto" /\ f.pc = "insertPhoto"
            /\ f.key = freqs[r].key /\ f.base = freqs[r].base
         \/ /\ freqs[r].pc = "insertPhoto"
            /\ f = SaveUser(freqs[r].base, [NoEdit EXCEPT !.avatar = freqs[r].key])
  PROVE  EditsInv'
<1>1. edits <= edits'
  BY FilesAssumption DEF EditsInv, FilesInv, FilesTypeOK, Versions
<1>2. CASE /\ freqs[r].pc = "putPhoto" /\ f.pc = "insertPhoto"
           /\ f.key = freqs[r].key /\ f.base = freqs[r].base
  <2>1. /\ Touches(f) = Touches(freqs[r]) /\ NewOf(f) = {} /\ KeyOf(f) = KeyOf(freqs[r])
        /\ BaseKey(f) = BaseKey(freqs[r]) /\ Shaped(f) /\ MissedIn(f, account, overwritten)
    BY <1>2 DEF Touches, NewOf, KeyOf, BaseKey, Loads, Saves, Shaped, MissedIn
  <2> QED BY <1>1, <2>1, KeptKeys, HeldStep
<1>3. CASE /\ freqs[r].pc = "insertPhoto"
           /\ f = SaveUser(freqs[r].base, [NoEdit EXCEPT !.avatar = freqs[r].key])
  <2> DEFINE none == [i \in {} |-> 0]
  <2>1. /\ f.pc = "user" /\ f.base = freqs[r].base /\ f.edit.avatar = freqs[r].key
        /\ f.edit.profile = 0 /\ f.edit.resumes = none
    BY <1>3 DEF SaveUser, NoEdit, EditOf
  <2>2. DOMAIN f.edit.resumes = {}
    BY <2>1
  <2>3. EditNumbers(f.edit) = {0}
    BY <2>1, <2>2 DEF EditNumbers
  <2>4. Touches(f) \subseteq Touches(freqs[r]) \cup {0} /\ NewOf(f) = {}
    BY <1>3, <2>1, <2>3 DEF Touches, NewOf, Loads, Saves
  <2>5. KeyOf(f) = KeyOf(freqs[r]) /\ BaseKey(f) = BaseKey(freqs[r])
    BY <1>3, <2>1 DEF KeyOf, BaseKey, Loads, Saves
  <2>6. Shaped(f) /\ MissedIn(f, account, overwritten)
    BY <2>1, <2>2 DEF Shaped, MissedIn
  <2> QED BY <1>1, <2>4, <2>5, <2>6, KeptKeys, HeldStep
<1> QED BY <1>2, <1>3

LEMMA BeginPhotoStep ==
  ASSUME EditsInv, FilesInv', NEW r \in FileReq, NEW k \in Uploads, BeginPhoto(r, k)
  PROVE  EditsInv'
<1> DEFINE f == [pc |-> "putPhoto", via |-> "WorkerAppService", key |-> k, base |-> account]
<1>1. /\ FileGoto(r, f) /\ UNCHANGED <<account, edits, wanted, overwritten>>
      /\ Fresh(k) /\ freqs[r].pc = "idle" /\ edits <= edits'
  BY FilesAssumption DEF BeginPhoto, EditsInv, FilesInv, FilesTypeOK, Versions
<1>2. /\ Touches(f) = Numbers(account) /\ NewOf(f) = {} /\ KeyOf(f) = {k} \ {NoFile}
      /\ BaseKey(f) = {account.avatar} /\ Shaped(f) /\ MissedIn(f, account, overwritten)
  BY DEF Touches, NewOf, KeyOf, BaseKey, Loads, Saves, Shaped, MissedIn
<1> HIDE DEF f
<1>7. k \notin Backed
  BY <1>1 DEF Fresh, Backed, Excused
<1>3. account.avatar \notin KeyOf(f)
  BY <1>2, <1>7 DEF EditsInv, FilesInv, NamedIsBacked
<1>4. ASSUME NEW s \in FileReq \ {r}
      PROVE  KeyOf(f) \cap BaseKey(freqs[s]) = {} /\ KeyOf(f) \cap KeyOf(freqs[s]) = {}
  <2>1. Grounded(freqs[s], Backed)
    BY DEF EditsInv, FilesInv
  <2> QED BY <1>1, <1>2, <1>7, <2>1 DEF Grounded, Fresh, BaseKey, KeyOf, Loads, Saves
<1>5. KeysApart'
  BY <1>1, <1>2, <1>3, <1>4, KeysStep DEF EditsInv, FilesInv, FilesTypeOK
<1> QED BY <1>1, <1>2, <1>5, HeldStep

\* An edit takes the number of its own, takes over what it loaded, or clears.
LEMMA BeginEditsStep ==
  ASSUME EditsInv, FilesInv', NEW r \in FileReq, NEW e \in Edit, BeginEditUser(r, e),
         e.avatar = NoFile, e.profile \in {0, edits + 1},
         \A i \in DOMAIN e.resumes : e.resumes[i] \in {0, edits + 1, account.resumes[i]}
  PROVE  EditsInv'
<1> DEFINE f == SaveUser(account, e)
<1>1. /\ FileGoto(r, f) /\ UNCHANGED <<account, wanted, overwritten>>
      /\ edits' = edits + 1 /\ edits \in Nat /\ account \in Account
  BY FilesAssumption DEF BeginEditUser, EditsInv, FilesInv, FilesTypeOK, Versions
<1>2. f.pc = "user" /\ f.base = account /\ f.edit = e
  BY DEF SaveUser
<1> HIDE DEF f
<1>3. Numbers(account) \subseteq 0 .. edits /\ edits + 1 \notin 0 .. edits
  BY <1>1 DEF EditsInv, NumbersApart
<1>4. DOMAIN e.resumes \subseteq Resumes
  BY DEF Edit
<1>5. EditNumbers(e) \subseteq Numbers(account) \cup {0, edits + 1}
  BY <1>4 DEF EditNumbers, Numbers
<1>6. Touches(f) \subseteq Numbers(account) \cup {0, edits + 1}
  BY <1>2, <1>5 DEF Touches, Loads, Saves
<1>7. NewOf(f) \subseteq {edits + 1} /\ (edits + 1 \in EditNumbers(e) => edits + 1 \in NewOf(f))
  <2>1. NewOf(f) = EditNumbers(e) \ (Numbers(account) \cup {0})
    BY <1>2 DEF NewOf, Saves
  <2> QED BY <1>1, <1>3, <1>5, <2>1
<1>8. Shaped(f)
  BY <1>2, <1>7 DEF Shaped, EditNumbers
<1>9. KeyOf(f) = {} /\ BaseKey(f) = {account.avatar} /\ MissedIn(f, account, overwritten)
  BY <1>2 DEF KeyOf, BaseKey, Loads, Saves, MissedIn
<1>10. edits + 1 .. edits' = {edits + 1} /\ edits <= edits'
  BY <1>1
<1> QED BY <1>1, <1>6, <1>7, <1>8, <1>9, <1>10, KeptKeys, HeldStep

LEMMA SaveReadUserStep ==
  ASSUME EditsInv, FilesInv', NEW r \in FileReq, SaveReadUser(r)
  PROVE  EditsInv'
<1> DEFINE diff == {c \in UserColumns : Apply(freqs[r].base, freqs[r].edit)[c] # account[c]}
<1>1. PICK q, d, new : q = freqs[r] /\ d = diff /\ new = Apply(q.base, q.edit)
  OBVIOUS
<1>2. /\ q \in [pc : {"user", "userWrite"}, base : Account, edit : Edit, diff : SUBSET UserColumns]
      /\ q.pc = "user" /\ account \in Account
  BY <1>1, FileFrameKinds DEF SaveReadUser, EditsInv, FilesInv, FilesTypeOK
<1>3. new \in Account
  BY <1>1, <1>2, ApplyIsTyped
<1>4. /\ d \subseteq UserColumns
      /\ \A c \in UserColumns : c \in d <=> new[c] # account[c]
  BY <1>1
<1>5. /\ UNCHANGED <<account, edits, overwritten>> /\ edits <= edits'
      /\ d = {} => wanted' = Apply(wanted, q.edit) /\ FileGoto(r, FileIdle)
      /\ d # {} => FileGoto(r, [q EXCEPT !.pc = "userWrite", !.diff = d]) /\ UNCHANGED wanted
  BY <1>1, FilesAssumption DEF SaveReadUser, EditsInv, FilesInv, FilesTypeOK, Versions
<1> HIDE DEF diff
<1>6. CASE d = {}
  <2>1. new.profile = account.profile /\ new.avatar = account.avatar /\ new.resumes = account.resumes
    BY <1>4, <1>6 DEF UserColumns
  <2>2. new = account
    BY <1>2, <1>3, <2>1, AccountsAgree
  <2>3. Apply(account, q.edit) = account
    BY <1>1, <1>2, <2>2, ApplyTwice
  <2>4. account = wanted => account = wanted'
    BY <1>5, <1>6, <2>3
  <2>5. /\ Touches(FileIdle) = {} /\ NewOf(FileIdle) = {} /\ KeyOf(FileIdle) = {}
        /\ BaseKey(FileIdle) = {} /\ Shaped(FileIdle) /\ MissedIn(FileIdle, account, overwritten)
    BY DEF FileIdle, Touches, NewOf, KeyOf, BaseKey, Loads, Saves, Shaped, MissedIn
  <2> QED BY <1>5, <1>6, <2>4, <2>5, KeptKeys, HeldStep
<1>7. CASE d # {}
  <2>1. PICK f : f = [q EXCEPT !.pc = "userWrite", !.diff = d]
    OBVIOUS
  <2>2. f.pc = "userWrite" /\ f.base = q.base /\ f.edit = q.edit /\ f.diff = d
    BY <1>2, <2>1
  <2>3. /\ Touches(f) = Touches(q) /\ NewOf(f) = NewOf(q) /\ KeyOf(f) = KeyOf(q)
        /\ BaseKey(f) = BaseKey(q)
    BY <1>2, <2>2 DEF Touches, NewOf, KeyOf, BaseKey, Loads, Saves
  <2>4. /\ Shaped(q) /\ NewOf(q) \cap Numbers(account) = {} /\ account.avatar \notin KeyOf(q)
    BY <1>1 DEF EditsInv, NumbersApart, KeysApart
  <2>5. Shaped(f)
    BY <1>2, <2>2, <2>3, <2>4 DEF Shaped, Saves
  <2>6. /\ q.edit.profile # 0 => new.profile # account.profile
        /\ q.edit.avatar # NoFile => new.avatar # account.avatar
    <3>1. account.profile \in Numbers(account)
      BY DEF Numbers
    <3>2. q.edit.profile \in NewOf(q) \cup {0}
      BY <1>2, <2>4 DEF Shaped, Saves
    <3>3. q.edit.avatar # NoFile => q.edit.avatar \in KeyOf(q)
      BY <1>2 DEF KeyOf, Saves
    <3>4. /\ q.edit.profile # 0 => new.profile = q.edit.profile
          /\ q.edit.avatar # NoFile => new.avatar = q.edit.avatar
      BY <1>1, <1>2, ApplyIs
    <3> QED BY <2>4, <3>1, <3>2, <3>3, <3>4
  <2>7. ASSUME new.resumes = account.resumes, new.resumes # q.base.resumes
        PROVE  \E i \in Resumes : q.base.resumes[i] # 0 /\ account.resumes[i] # q.base.resumes[i]
    <3>1. PICK i \in Resumes : new.resumes[i] # q.base.resumes[i]
      BY <1>2, <1>3, <2>7, NumbersOf
    <3>2. i \in DOMAIN q.edit.resumes /\ new.resumes[i] = q.edit.resumes[i]
      BY <1>1, <1>2, <3>1, ApplyIs
    <3>3. q.edit.resumes[i] \in NewOf(q) \cup {0, q.base.resumes[i]}
      BY <1>2, <2>4, <3>2 DEF Shaped, Saves
    <3>4. new.resumes[i] \in Numbers(account)
      BY <2>7, <3>1 DEF Numbers
    <3> QED BY <2>4, <2>7, <3>1, <3>2, <3>3, <3>4
  <2>8. /\ "profile" \in d <=> new.profile # account.profile
        /\ "avatar" \in d <=> new.avatar # account.avatar
        /\ "resumes" \in d <=> new.resumes # account.resumes
    BY <1>4 DEF UserColumns
  <2>9. MissedIn(f, account, overwritten)
    BY <1>1, <2>2, <2>6, <2>7, <2>8 DEF MissedIn
  <2>10. FileGoto(r, f) /\ UNCHANGED wanted
    BY <1>5, <1>7, <2>1
  <2> QED BY <1>1, <1>5, <2>3, <2>5, <2>9, <2>10, KeptKeys, HeldStep
<1> QED BY <1>6, <1>7

LEMMA SaveWriteUserStep ==
  ASSUME EditsInv, FilesInv', NEW r \in FileReq, SaveWriteUser(r)
  PROVE  EditsInv'
<1>1. PICK q, new : q = freqs[r] /\ new = Apply(q.base, q.edit)
  OBVIOUS
<1>2. /\ q \in [pc : {"user", "userWrite"}, base : Account, edit : Edit, diff : SUBSET UserColumns]
      /\ q.pc = "userWrite" /\ account \in Account /\ freqs \in [FileReq -> FileFrame]
      /\ edits \in Nat
  BY <1>1, FileFrameKinds, FilesAssumption
    DEF SaveWriteUser, EditsInv, FilesInv, FilesTypeOK, Versions
<1>3. new \in Account
  BY <1>1, <1>2, ApplyIsTyped
<1>4. /\ account' = [c \in UserColumns |-> IF c \in q.diff THEN new[c] ELSE account[c]]
      /\ wanted' = Apply(wanted, q.edit)
      /\ ~overwritten' => /\ ~overwritten
                          /\ \A c \in q.diff \cup Sets(q.edit) : q.base[c] = account[c]
      /\ FileGoto(r, FileIdle) /\ edits' = edits
  BY <1>1 DEF SaveWriteUser
<1>5. PICK next : next = account'
  OBVIOUS
<1>6. /\ next.profile = IF "profile" \in q.diff THEN new.profile ELSE account.profile
      /\ next.avatar = IF "avatar" \in q.diff THEN new.avatar ELSE account.avatar
      /\ next.resumes = IF "resumes" \in q.diff THEN new.resumes ELSE account.resumes
  BY <1>4, <1>5 DEF UserColumns
<1>7. next \in Account
  BY <1>5 DEF FilesInv, FilesTypeOK
<1>8. /\ new.profile \in {q.base.profile, q.edit.profile}
      /\ new.avatar \in {q.base.avatar, q.edit.avatar}
      /\ new.avatar = NoFile => q.edit.avatar = NoFile
      /\ \A i \in Resumes : new.resumes[i] = IF i \in DOMAIN q.edit.resumes
                                               THEN q.edit.resumes[i] ELSE q.base.resumes[i]
  BY <1>1, <1>2, ApplyIs
<1>9. /\ Numbers(q.base) \subseteq Touches(q) /\ EditNumbers(q.edit) \subseteq Touches(q)
      /\ BaseKey(q) = {q.base.avatar} /\ KeyOf(q) = {q.edit.avatar} \ {NoFile}
  BY <1>2 DEF Touches, BaseKey, KeyOf, Loads, Saves
<1>10. NumbersApart'
  <2>1. Numbers(next) \subseteq Numbers(account) \cup Touches(q)
    <3>1. Numbers(new) \subseteq Touches(q)
      BY <1>8, <1>9 DEF Numbers, EditNumbers
    <3> QED BY <1>6, <3>1 DEF Numbers
  <2>2. Touches(FileIdle) = {} /\ NewOf(FileIdle) = {} /\ Shaped(FileIdle)
    BY DEF FileIdle, Touches, NewOf, Loads, Saves, Shaped
  <2> QED BY <1>1, <1>2, <1>4, <1>5, <2>1, <2>2, NumbersStep DEF EditsInv
<1>11. KeysApart'
  <2>1. KeyOf(FileIdle) = {} /\ BaseKey(FileIdle) = {}
    BY DEF FileIdle, KeyOf, BaseKey, Loads, Saves
  <2>2. next.avatar \in {account.avatar, NoFile} \cup BaseKey(q) \cup KeyOf(q)
    BY <1>6, <1>8, <1>9
  <2> QED BY <1>1, <1>2, <1>4, <1>5, <2>1, <2>2, KeysStep DEF EditsInv
<1>12. ASSUME ~overwritten' PROVE account' = wanted'
  <2>1. account = wanted /\ MissedIn(q, account, overwritten)
    BY <1>1, <1>4, <1>12 DEF EditsInv, EditsAreKept, AllMissed
  <2>2. PICK merged : merged = Apply(account, q.edit)
    OBVIOUS
  <2>3. /\ merged \in Account
        /\ merged.profile = IF q.edit.profile = 0 THEN account.profile ELSE q.edit.profile
        /\ merged.avatar = IF q.edit.avatar = NoFile THEN account.avatar ELSE q.edit.avatar
        /\ \A i \in Resumes : merged.resumes[i] = IF i \in DOMAIN q.edit.resumes
                                                  THEN q.edit.resumes[i] ELSE account.resumes[i]
    BY <1>2, <2>2, ApplyIs, ApplyIsTyped
  <2>4. /\ new.profile = IF q.edit.profile = 0 THEN q.base.profile ELSE q.edit.profile
        /\ new.avatar = IF q.edit.avatar = NoFile THEN q.base.avatar ELSE q.edit.avatar
    BY <1>1, <1>2, ApplyIs
  <2>5. \A c \in q.diff : q.base[c] = account[c]
    BY <1>4, <1>12
  <2>6. /\ "profile" \in q.diff => q.base.profile = account.profile
        /\ "avatar" \in q.diff => q.base.avatar = account.avatar
        /\ "resumes" \in q.diff => q.base.resumes = account.resumes
    BY <2>5
  <2>7. next.profile = merged.profile
    BY <1>2, <1>6, <2>1, <2>3, <2>4, <2>6 DEF MissedIn
  <2>8. next.avatar = merged.avatar
    BY <1>2, <1>6, <2>1, <2>3, <2>4, <2>6 DEF MissedIn
  <2>9. ASSUME NEW i \in Resumes PROVE next.resumes[i] = merged.resumes[i]
    <3>1. CASE "resumes" \in q.diff
      BY <1>6, <1>8, <2>3, <2>6, <3>1
    <3>2. CASE "resumes" \notin q.diff /\ i \notin DOMAIN q.edit.resumes
      BY <1>6, <2>3, <3>2
    <3>3. CASE "resumes" \notin q.diff /\ i \in DOMAIN q.edit.resumes
      <4>1. DOMAIN [j \in {} |-> 0] = {} /\ NoEdit.resumes = [j \in {} |-> 0]
        BY DEF NoEdit, EditOf
      <4>2. q.edit.resumes # NoEdit.resumes
        BY <3>3, <4>1
      <4>3. "resumes" \in Sets(q.edit)
        BY <4>2 DEF Sets, UserColumns
      <4>4. q.base.resumes = account.resumes
        BY <1>4, <1>12, <4>3
      <4>5. new.resumes = q.base.resumes
        BY <1>1, <1>2, <1>4, <1>12, <2>1, <3>3, <4>4 DEF MissedIn
      <4> QED BY <1>6, <1>8, <2>3, <3>3, <4>4, <4>5
    <3> QED BY <3>1, <3>2, <3>3
  <2>10. next = merged
    BY <1>7, <2>3, <2>7, <2>8, <2>9, AccountsAgree
  <2> QED BY <1>4, <1>5, <2>1, <2>2, <2>10
<1>13. ASSUME NEW s \in FileReq PROVE MissedIn(freqs'[s], next, overwritten')
  <2>1. freqs' = [freqs EXCEPT ![r] = FileIdle]
    BY <1>4 DEF FileGoto
  <2>2. CASE s = r
    BY <1>2, <2>1, <2>2 DEF MissedIn, FileIdle
  <2>3. CASE s # r
    <3>1. PICK p : p = freqs[s]
      OBVIOUS
    <3>2. freqs'[s] = p /\ MissedIn(p, account, overwritten)
      BY <1>2, <2>1, <2>3, <3>1 DEF EditsInv, AllMissed
    <3>3. ASSUME ~overwritten', p.pc = "userWrite", NEW i \in Resumes, p.base.resumes[i] # 0,
                 account.resumes[i] # p.base.resumes[i]
          PROVE  next.resumes[i] # p.base.resumes[i]
      <4>1. /\ NewOf(q) \cap Touches(p) = {} /\ Shaped(q)
        BY <1>1, <2>3, <3>1 DEF EditsInv, NumbersApart
      <4>2. p.base.resumes[i] \in Touches(p)
        BY <3>3 DEF Touches, Loads, Numbers
      <4>3. "resumes" \in q.diff => q.base.resumes = account.resumes
        BY <1>4, <3>3
      <4>4. i \in DOMAIN q.edit.resumes =>
              q.edit.resumes[i] \in NewOf(q) \cup {0, q.base.resumes[i]}
        BY <1>2, <4>1 DEF Shaped, Saves
      <4> QED BY <1>6, <1>8, <3>3, <4>1, <4>2, <4>3, <4>4
    <3> QED BY <1>4, <3>2, <3>3 DEF MissedIn
  <2> QED BY <2>2, <2>3
<1>14. AllMissed'
  BY <1>5, <1>13 DEF AllMissed, MissedIn, Apply
<1>15. EditsAreKept'
  BY <1>12 DEF EditsAreKept
<1> QED BY <1>10, <1>11, <1>14, <1>15 DEF EditsInv

LEMMA EditsInvInit == FilesInit => EditsInv
<1> SUFFICES ASSUME FilesInit PROVE EditsInv
  OBVIOUS
<1>1. FilesInv
  BY FilesInvInit
<1>2. ASSUME NEW r \in FileReq
      PROVE  /\ Touches(freqs[r]) = {} /\ NewOf(freqs[r]) = {} /\ KeyOf(freqs[r]) = {}
             /\ BaseKey(freqs[r]) = {} /\ Shaped(freqs[r])
             /\ MissedIn(freqs[r], account, overwritten)
  <2>1. freqs[r].pc = "idle"
    BY DEF FilesInit, FileIdle
  <2> QED BY <2>1 DEF Touches, NewOf, KeyOf, BaseKey, Loads, Saves, Shaped, MissedIn
<1>3. Numbers(account) \subseteq {0} /\ edits = 0 /\ account = wanted
  BY DEF FilesInit, Numbers
<1>4. NumbersApart
  BY <1>2, <1>3 DEF NumbersApart
<1>5. KeysApart /\ AllMissed /\ EditsAreKept
  BY <1>2, <1>3 DEF KeysApart, AllMissed, EditsAreKept
<1> QED BY <1>1, <1>4, <1>5 DEF EditsInv

\* Every step keeps the edits apart, and with them what they ask for.
LEMMA EditsInvStep == EditsInv /\ [FilesNext]_fileVars => EditsInv'
<1> SUFFICES ASSUME EditsInv, [FilesNext]_fileVars PROVE EditsInv'
  OBVIOUS
<1>1. FilesInv' /\ freqs \in [FileReq -> FileFrame]
  BY FilesInvStep DEF EditsInv, FilesInv, FilesTypeOK
<1>2. ASSUME UNCHANGED <<account, edits, wanted, overwritten, freqs>> PROVE EditsInv'
  <2>1. NumbersApart'
    <3>1. /\ Numbers(account') \subseteq 0 .. edits'
          /\ \A r \in FileReq :
               /\ Touches(freqs'[r]) \subseteq 0 .. edits'
               /\ NewOf(freqs'[r]) \cap Numbers(account') = {}
               /\ \A s \in FileReq \ {r} : NewOf(freqs'[r]) \cap Touches(freqs'[s]) = {}
               /\ Shaped(freqs'[r])
      BY <1>2 DEF EditsInv, NumbersApart
    <3> QED
      BY <3>1 DEF NumbersApart, Touches, NewOf, Loads, Saves, Shaped, Numbers, EditNumbers
  <2>2. KeysApart'
    BY <1>2 DEF EditsInv, KeysApart, KeyOf, BaseKey, Loads, Saves
  <2>3. AllMissed'
    BY <1>2 DEF EditsInv, AllMissed, MissedIn, Apply
  <2>4. EditsAreKept'
    BY <1>2 DEF EditsInv, EditsAreKept
  <2> QED BY <1>1, <2>1, <2>2, <2>3, <2>4 DEF EditsInv
<1>3. CASE UNCHANGED fileVars
  BY <1>2, <1>3 DEF fileVars
<1>4. ASSUME NEW i \in Resumes, ServePdf(i) PROVE EditsInv'
  BY <1>2, <1>4 DEF ServePdf
<1>5. ASSUME NEW r \in FileReq, NEW k \in Uploads, NEW s \in Uploaders,
             BeginUpload(r, s, k) \/ BeginRemoveDocument(r, k)
      PROVE  EditsInv'
  <2>1. PICK f \in {[pc |-> "put", via |-> s, key |-> k], [pc |-> "remove", key |-> k]} :
          FileGoto(r, f) /\ UNCHANGED <<account, edits, wanted, overwritten>>
    BY <1>5 DEF BeginUpload, BeginRemoveDocument
  <2>2. f.pc \in {"put", "remove"}
    BY <2>1
  <2> QED BY <1>1, <2>1, <2>2, ApartStep
<1>6. ASSUME NEW r \in FileReq, NEW k \in Uploads, BeginPhoto(r, k) PROVE EditsInv'
  BY <1>1, <1>6, BeginPhotoStep
<1>7. ASSUME NEW r \in FileReq, Put(r) PROVE EditsInv'
  <2>1. PICK q, f : q = freqs[r] /\ f = AfterPut(q)
    OBVIOUS
  <2>2. /\ q \in FileFrame /\ q.pc \in {"put", "putPhoto"} /\ FileGoto(r, f)
        /\ UNCHANGED <<account, edits, wanted, overwritten>>
    BY <1>1, <1>7, <2>1 DEF Put
  <2>3. CASE q.pc = "put"
    <3>1. q \in [pc : {"put", "insert"}, via : Uploaders, key : Uploads] /\ f = [q EXCEPT !.pc = "insert"]
      BY <2>1, <2>2, <2>3, FileFrameKinds DEF AfterPut
    <3>2. f.pc = "insert"
      BY <3>1
    <3> QED BY <1>1, <2>2, <3>2, ApartStep
  <2>4. CASE q.pc = "putPhoto"
    <3>1. /\ q \in [pc : {"putPhoto", "insertPhoto"}, via : {"WorkerAppService"}, key : Uploads,
                  base : Account]
          /\ f = [q EXCEPT !.pc = "insertPhoto"]
      BY <2>1, <2>2, <2>4, FileFrameKinds DEF AfterPut
    <3>2. f.pc = "insertPhoto" /\ f.key = q.key /\ f.base = q.base
      BY <3>1
    <3> QED BY <1>1, <2>1, <2>2, <2>4, <3>2, PhotoStep
  <2> QED BY <2>2, <2>3, <2>4
<1>8. ASSUME NEW r \in FileReq, InsertDocument(r) \/ RemoveDocument(r) \/ AbortFile(r)
      PROVE  EditsInv'
  <2>1. FileGoto(r, FileIdle) /\ UNCHANGED <<account, edits, wanted, overwritten>>
    BY <1>8 DEF InsertDocument, RemoveDocument, AbortFile
  <2> QED BY <1>1, <2>1, FileFrames, ApartStep
<1>9. ASSUME NEW r \in FileReq, InsertPhoto(r) PROVE EditsInv'
  BY <1>1, <1>9, PhotoStep DEF InsertPhoto
<1>10. ASSUME NEW r \in FileReq, NEW S \in SUBSET Resumes, NEW g, NEW profile \in {0, edits + 1},
              g \in [S -> {0, edits + 1}] \/ g = [i \in Resumes |-> IF i \in S THEN account.resumes[i] ELSE 0],
              BeginEditUser(r, EditOf(g, profile))
       PROVE  EditsInv'
  <2>1. 0 \in Versions /\ edits + 1 \in Versions /\ NoFile \in Uploads \cup {NoFile}
          /\ account.resumes \in [Resumes -> Versions]
    BY <1>10, FilesAssumption DEF BeginEditUser, EditsInv, FilesInv, FilesTypeOK, Versions, Account
  <2>2. PICK D \in SUBSET Resumes :
          /\ g \in [D -> Versions]
          /\ \A i \in D : g[i] \in {0, edits + 1, account.resumes[i]}
    <3>1. CASE g \in [S -> {0, edits + 1}]
      BY <2>1, <3>1
    <3>2. CASE g = [i \in Resumes |-> IF i \in S THEN account.resumes[i] ELSE 0]
      <4>1. /\ g \in [Resumes -> Versions]
            /\ \A i \in Resumes : g[i] \in {0, edits + 1, account.resumes[i]}
        BY <2>1, <3>2
      <4> QED BY <4>1
    <3> QED BY <1>10, <3>1, <3>2
  <2>3. PICK e : e = EditOf(g, profile)
    OBVIOUS
  <2>4. e \in Edit /\ e.avatar = NoFile
    BY <1>10, <2>1, <2>2, <2>3, EditsAreTyped
  <2>5. /\ e.profile \in {0, edits + 1}
        /\ \A i \in DOMAIN e.resumes : e.resumes[i] \in {0, edits + 1, account.resumes[i]}
    BY <2>2, <2>3 DEF EditOf
  <2> QED BY <1>1, <1>10, <2>3, <2>4, <2>5, BeginEditsStep
<1>11. ASSUME NEW r \in FileReq, NEW i \in Resumes, BeginSaveResume(r, i) PROVE EditsInv'
  <2> DEFINE g == [j \in {i} |-> edits + 1]
  <2>1. {i} \in SUBSET Resumes /\ g \in [{i} -> {0, edits + 1}]
    OBVIOUS
  <2>2. PICK profile \in {0, edits + 1} : BeginEditUser(r, EditOf(g, profile))
    BY <1>11 DEF BeginSaveResume
  <2> HIDE DEF g
  <2> QED BY <1>10, <2>1, <2>2
<1>12. ASSUME NEW r \in FileReq, NEW i \in Resumes, BeginDeleteResume(r, i) PROVE EditsInv'
  <2> DEFINE g == [j \in {i} |-> 0]
  <2>1. {i} \in SUBSET Resumes /\ g \in [{i} -> {0, edits + 1}]
    OBVIOUS
  <2>2. BeginEditUser(r, EditOf(g, 0))
    BY <1>12 DEF BeginDeleteResume
  <2> HIDE DEF g
  <2> QED BY <1>10, <2>1, <2>2
<1>13. ASSUME NEW r \in FileReq, BeginUpdateProfile(r) PROVE EditsInv'
  <2>1. CASE BeginEditUser(r, EditOf([i \in {} |-> 0], edits + 1))
    <3> DEFINE g == [i \in {} |-> 0]
    <3>1. {} \in SUBSET Resumes /\ g \in [{} -> {0, edits + 1}]
      OBVIOUS
    <3> HIDE DEF g
    <3> QED BY <1>10, <2>1, <3>1 DEF g
  <2>2. ASSUME NEW S \in SUBSET Resumes,
               BeginEditUser(r, EditOf([i \in Resumes |-> IF i \in S THEN account.resumes[i]
                                                          ELSE 0], edits + 1))
        PROVE  EditsInv'
    BY <1>10, <2>2
  <2> QED BY <1>13, <2>1, <2>2 DEF BeginUpdateProfile
<1>14. ASSUME NEW r \in FileReq, SaveReadUser(r) PROVE EditsInv'
  BY <1>1, <1>14, SaveReadUserStep
<1>15. ASSUME NEW r \in FileReq, SaveWriteUser(r) PROVE EditsInv'
  BY <1>1, <1>15, SaveWriteUserStep
<1>16. Uploaders # {}
  BY DEF Uploaders
<1> QED
  BY <1>3, <1>4, <1>5, <1>6, <1>7, <1>8, <1>9, <1>11, <1>12, <1>13, <1>14, <1>15, <1>16
     DEF FilesNext

\* As long as no save meets a column that changed since it was loaded, the user is
\* what the edits made of him, in the order of their saves: for any number of
\* resumes, files and handlers.
THEOREM EditsKept == FilesSpec => []EditsAreKept
<1>1. EditsInv => EditsAreKept BY DEF EditsInv
<1> QED BY <1>1, EditsInvInit, EditsInvStep, PTL DEF FilesSpec

-----------------------------------------------------------------------------
\* The services side by side: each runs as if it were alone.
LEMMA ServicesAreApart ==
  ServicesSpec => PostsSpec /\ PaymentsSpec /\ AttendanceSpec /\ ExportsSpec /\ FilesSpec
<1>1. ServicesInit => PostsInit /\ PaymentsInit /\ AttendanceInit /\ ExportsInit /\ FilesInit
  BY DEF ServicesInit
<1>2. [ServicesNext]_servicesVars =>
        /\ [PostsNext]_postVars /\ [PaymentsNext]_paymentVars
        /\ [AttendanceNext]_attendanceVars /\ [ExportsNext]_exportVars /\ [FilesNext]_fileVars
  BY DEF ServicesNext, PostsRun, PaymentsRun, AttendanceRun, ExportsRun, FilesRun, servicesVars
<1> QED BY <1>1, <1>2, PTL
      DEF ServicesSpec, PostsSpec, PaymentsSpec, AttendanceSpec, ExportsSpec, FilesSpec

\* Whatever the five services do next to one another, their tables and handlers
\* are of their types.
THEOREM ServicesTypeCorrect ==
  ASSUME IsFiniteSet(PostReq), IsFiniteSet(PostUsers)
  PROVE  ServicesSpec => []ServicesTypeOK
<1>1. PostsTypeOK /\ PaymentsTypeOK /\ AttendanceTypeOK /\ ExportsTypeOK /\ FilesTypeOK
        => ServicesTypeOK
  BY DEF ServicesTypeOK
<1> QED
  BY <1>1, ServicesAreApart, PostsTypeCorrect, PaymentsTypeCorrect, AttendanceTypeCorrect,
     ExportsTypeCorrect, FilesTypeCorrect, PTL
=============================================================================
