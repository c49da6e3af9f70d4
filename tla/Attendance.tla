----------------------------- MODULE Attendance ------------------------------
(***************************************************************************)
(* Check-in and check-out: AttendanceService, and the legacy check-in of   *)
(* SitesService.  A row of attendance belongs to a user and a date, the    *)
(* date of the server when the request arrived; no unique key holds them   *)
(* to one row.  A check-out looks for the row of its own date, so a shift  *)
(* that is open at midnight stays open.                                    *)
(*                                                                         *)
(* The site of a row and the assignment that an engineer needs for it (see *)
(* Sites) are left out: a request that is refused for it changes nothing.  *)
(***************************************************************************)
EXTENDS Server, Naturals, Sequences

CONSTANTS
  AttUsers,          \* job seekers and engineers
  DayLength,         \* minutes of a day
  STANDARD_DAY_MINUTES,
  MaxTime,           \* bound of the clock
  AttReq             \* handlers of the service that can be in flight together

ASSUME AttendanceAssumption ==
  /\ DayLength \in Nat \ {0} /\ STANDARD_DAY_MINUTES \in Nat /\ MaxTime \in Nat

VARIABLES
  now,         \* minutes of the clock
  attendance,  \* rows; an id is a position
  doubled,     \* history: users and dates with two requests under way at once
  areq         \* what each handler holds

attendanceVars == <<now, attendance, doubled, areq>>

Minutes == 0 .. MaxTime
Today == now \div DayLength

\* A time column: nothing, or one value.
MaybeTime == {{}} \cup {{t} : t \in Minutes}

AttendanceRow ==
  [user : AttUsers, date : Nat, checkIn : Minutes, checkOut : MaybeTime,
   total : Minutes, overtime : Minutes]

HourColumns == {"checkOut", "total", "overtime"}

AttIdle == [pc |-> "idle"]

AttFrame ==
  [pc : {"idle"}]
    \cup [pc : {"findToday", "insertIn"}, user : AttUsers, date : Nat, at : MaybeTime]
    \cup [pc : {"findOpen"}, user : AttUsers, date : Nat]
    \cup [pc : {"out", "outWrite"}, user : AttUsers, id : DOMAIN attendance,
          row : AttendanceRow, diff : SUBSET HourColumns]

AttendanceTypeOK ==
  /\ now \in Minutes
  /\ attendance \in Seq(AttendanceRow)
  /\ doubled \in SUBSET (AttUsers \X Nat)
  /\ areq \in [AttReq -> AttFrame]

AttendanceInit ==
  /\ now = 0
  /\ attendance = <<>> /\ doubled = {}
  /\ areq = [r \in AttReq |-> AttIdle]

-----------------------------------------------------------------------------
AttGoto(r, frame) == areq' = [areq EXCEPT ![r] = frame]

Tick == now < MaxTime /\ now' = now + 1 /\ UNCHANGED <<attendance, doubled, areq>>

\* The date a request belongs to: that of its arrival, or of the row it closes.
DateOfRequest(q) == IF q.pc \in {"out", "outWrite"} THEN q.row.date ELSE q.date

UnderWay(u) == {q \in {areq[r] : r \in AttReq} : q.pc # "idle" /\ q.user = u}

\* A request of u arrives; nothing holds it back while others of his are under way.
Arrive(r, u, frame) ==
  /\ areq[r].pc = "idle"
  /\ AttGoto(r, frame)
  /\ doubled' = IF UnderWay(u) = {} THEN doubled
                ELSE doubled \cup ({u} \X ({Today} \cup {DateOfRequest(q) : q \in UnderWay(u)}))
  /\ UNCHANGED <<now, attendance>>

\* The legacy route takes the time of the check-in on arrival, the other one
\* when it inserts.
BeginCheckIn(r, u, at) ==
  Arrive(r, u, [pc |-> "findToday", user |-> u, date |-> Today, at |-> at])

RowsOf(u, date) ==
  {i \in DOMAIN attendance : attendance[i].user = u /\ attendance[i].date = date}

\* Wrong on purpose: an open row is not refused.
FindTodayCompleted(r) ==
  /\ areq[r].pc = "findToday"
  /\ AttGoto(r, IF \A i \in RowsOf(areq[r].user, areq[r].date) : attendance[i].checkOut = {}
                  THEN [areq[r] EXCEPT !.pc = "insertIn"] ELSE AttIdle)
  /\ UNCHANGED <<now, attendance, doubled>>

\* Every row has a check-in: it is open or completed, and refused as either.
FindToday(r) ==
  /\ areq[r].pc = "findToday"
  /\ AttGoto(r, IF RowsOf(areq[r].user, areq[r].date) = {}
                  THEN [areq[r] EXCEPT !.pc = "insertIn"] ELSE AttIdle)
  /\ UNCHANGED <<now, attendance, doubled>>

InsertIn(r) ==
  /\ areq[r].pc = "insertIn"
  /\ attendance' = Append(attendance,
       [user |-> areq[r].user, date |-> areq[r].date,
        checkIn |-> IF areq[r].at = {} THEN now ELSE CHOOSE t \in areq[r].at : TRUE,
        checkOut |-> {}, total |-> 0, overtime |-> 0])
  /\ AttGoto(r, AttIdle)
  /\ UNCHANGED <<now, doubled>>

-----------------------------------------------------------------------------
BeginCheckOut(r, u) ==
  Arrive(r, u, [pc |-> "findOpen", user |-> u, date |-> Today])

\* Wrong on purpose: the difference the other way round.
ClosedBackwards(row) ==
  [row EXCEPT !.checkOut = {now}, !.total = row.checkIn - now]

Closed(row) ==
  LET total == now - row.checkIn IN
  [row EXCEPT !.checkOut = {now}, !.total = total,
              !.overtime = IF total > STANDARD_DAY_MINUTES
                             THEN total - STANDARD_DAY_MINUTES ELSE 0]

\* findOne takes any row of the date.
FindOpen(r) ==
  /\ areq[r].pc = "findOpen"
  /\ LET q == areq[r]
         rows == RowsOf(q.user, q.date)
     IN \/ /\ rows = {}
           /\ AttGoto(r, AttIdle)
        \/ \E i \in rows :
             AttGoto(r, IF attendance[i].checkOut # {} THEN AttIdle
                        ELSE [pc |-> "out", user |-> q.user, id |-> i,
                              row |-> Closed(attendance[i]), diff |-> {}])
  /\ UNCHANGED <<now, attendance, doubled>>

SaveReadOut(r) ==
  /\ areq[r].pc = "out"
  /\ LET q == areq[r] IN
     AttGoto(r, [q EXCEPT !.pc = "outWrite",
                          !.diff = {c \in HourColumns : q.row[c] # attendance[q.id][c]}])
  /\ UNCHANGED <<now, attendance, doubled>>

SaveWriteOut(r) ==
  /\ areq[r].pc = "outWrite"
  /\ LET q == areq[r] IN
     attendance' = [attendance EXCEPT ![q.id] =
                      [c \in DOMAIN @ |-> IF c \in q.diff THEN q.row[c] ELSE @[c]]]
  /\ AttGoto(r, AttIdle)
  /\ UNCHANGED <<now, doubled>>

\* A repository call rejects, or the process dies.
AbortAttendance(r) ==
  /\ Faults
  /\ areq[r].pc # "idle"
  /\ AttGoto(r, AttIdle)
  /\ UNCHANGED <<now, attendance, doubled>>

AttendanceNext ==
  \/ Tick
  \/ \E r \in AttReq :
       \/ \E u \in AttUsers :
            BeginCheckOut(r, u) \/ BeginCheckIn(r, u, {}) \/ BeginCheckIn(r, u, {now})
       \/ FindToday(r) \/ InsertIn(r) \/ FindOpen(r)
       \/ SaveReadOut(r) \/ SaveWriteOut(r) \/ AbortAttendance(r)

AttendanceSpec == AttendanceInit /\ [][AttendanceNext]_attendanceVars

-----------------------------------------------------------------------------
Undisturbed == {i \in DOMAIN attendance : <<attendance[i].user, attendance[i].date>> \notin doubled}

\* "Prevent duplicate check-in for the same day": no hour of a user is counted
\* twice, whatever days and midnights lie between his shifts.  On dates on which
\* he never had two requests under way at once, completed shifts do not overlap
\* and their hours are those of the clock, whatever happened on his other dates.
\* On a date with two at once, both may look before either inserts: there the
\* table may hold two rows, and the comment of the code is not kept.
NoHourTwice ==
  /\ \A i, j \in Undisturbed :
       LET a == attendance[i]
           b == attendance[j]
       IN i # j /\ a.user = b.user /\ a.checkOut # {} /\ b.checkOut # {} =>
            \/ \A t \in a.checkOut : t <= b.checkIn
            \/ \A t \in b.checkOut : t <= a.checkIn
  /\ \A i \in Undisturbed :
       \A t \in attendance[i].checkOut : attendance[i].total = t - attendance[i].checkIn
=============================================================================
