------------------------ MODULE NotificationsProofs ------------------------
\* Theorems about Notifications, for any notices, users, tokens, workers and
\* callers, any failures and any answers of the queue and of Firebase.
EXTENDS Notifications, FiniteSetTheorems, TLAPS

-----------------------------------------------------------------------------
\* The frame of an execution under way.
Busy(q) == q.pc # "idle"

BusyFrames ==
  [pc : {"lookup", "recipient", "users", "insert", "tokens", "push", "clean", "mark"},
   notice : Notices, todo : SUBSET Users, to : SUBSET Users,
   tokens : SUBSET Tokens, failed : SUBSET Tokens]

\* A frame of an execution has all its fields, and all such frames are busy.
LEMMA BusyFrame ==
  /\ BusyFrames \subseteq NoticeFrame
  /\ \A q \in BusyFrames : Busy(q)
  /\ \A q \in NoticeFrame : Busy(q) => q \in BusyFrames
  BY DEF NoticeFrame, Busy, BusyFrames

\* The first frame of an execution is well formed.
LEMMA StartIsFrame ==
  ASSUME NEW n \in Notices
  PROVE  Start(n) \in NoticeFrame /\ Busy(Start(n)) /\ Start(n).notice = n
<1>1. Recipients[n] \subseteq Users
  BY NoticesAssumption
<1> QED
  BY <1>1 DEF Start, NoticeFrame, Busy

\* A handler that has answered holds nothing.
LEMMA IdleIsFrame == NoticeIdle \in NoticeFrame /\ ~Busy(NoticeIdle)
  BY DEF NoticeIdle, NoticeFrame, Busy

-----------------------------------------------------------------------------
\* The table of devices and the requests on it stay well formed, whoever
\* deactivates what.
LEMMA DeactivatedIsTable ==
  ASSUME DevicesTypeOK, NEW S
  PROVE  Deactivated(S) \in [Users -> [Tokens -> {"none", "active", "inactive"}]]
  BY DEF DevicesTypeOK, Deactivated

\* A step of the device registrations keeps their state well typed.
LEMMA DevicesTyped ==
  ASSUME DevicesTypeOK, DevicesNext
  PROVE  DevicesTypeOK'
<1>1. DeviceIdle \in DeviceFrame
  BY DEF DeviceIdle, DeviceFrame
<1>2. ASSUME NEW r \in DevReq, NEW u \in Users, NEW t \in Tokens, BeginRegister(r, u, t)
      PROVE  DevicesTypeOK'
  <2>1. [pc |-> "find", user |-> u, token |-> t] \in DeviceFrame
    BY DEF DeviceFrame
  <2> QED
    BY <1>2, <2>1, DeactivatedIsTable DEF BeginRegister, Arrive, DevicesTypeOK
<1>3. ASSUME NEW r \in DevReq,
             FindDevice(r) \/ InsertDevice(r) \/ SaveReadDevice(r) \/ SaveWriteDevice(r)
      PROVE  DevicesTypeOK'
  <2>1. dreq[r] \in [pc : {"find", "insert", "save", "write"}, user : Users, token : Tokens]
    BY <1>3 DEF DevicesTypeOK, DeviceFrame, FindDevice, InsertDevice, SaveReadDevice,
                SaveWriteDevice
  <2>2. Activated(dreq[r].user, dreq[r].token)
          \in [Users -> [Tokens -> {"none", "active", "inactive"}]]
    BY <2>1 DEF Activated, DevicesTypeOK
  <2>3. \A pc \in {"find", "insert", "save", "write"} :
          [dreq[r] EXCEPT !.pc = pc] \in DeviceFrame
    BY <2>1 DEF DeviceFrame
  <2>4. CASE FindDevice(r)
    BY <2>3, <2>4 DEF FindDevice, DevicesTypeOK
  <2>5. CASE InsertDevice(r)
    BY <1>1, <2>2, <2>5 DEF InsertDevice, DevicesTypeOK
  <2>6. CASE SaveReadDevice(r)
    BY <1>1, <2>3, <2>6 DEF SaveReadDevice, DevicesTypeOK
  <2>7. CASE SaveWriteDevice(r)
    BY <1>1, <2>2, <2>7 DEF SaveWriteDevice, DevicesTypeOK
  <2> QED
    BY <1>3, <2>4, <2>5, <2>6, <2>7
<1>4. ASSUME NEW r \in DevReq, AbortDevice(r)
      PROVE  DevicesTypeOK'
  BY <1>1, <1>4 DEF AbortDevice, DevicesTypeOK
<1>5. ASSUME NEW S, Unregister(S)
      PROVE  DevicesTypeOK'
  BY <1>5, DeactivatedIsTable DEF Unregister, DevicesTypeOK
<1> QED
  BY <1>2, <1>3, <1>4, <1>5 DEF DevicesNext

-----------------------------------------------------------------------------
\* The job of a notice after any of its changes is a job.
LEMMA JobsAreJobs ==
  ASSUME NEW n \in Notices, queue \in [Notices -> QueueJob]
  PROVE  /\ NoJob \in QueueJob /\ Retried(n) \in QueueJob /\ Recovered(n) \in QueueJob
         /\ \A st \in {"waiting", "active"} : [queue[n] EXCEPT !.st = st] \in QueueJob
<1>1. queue[n] \in [st : {"none", "waiting", "active", "failed"}, made : Nat,
                    stalled : BOOLEAN]
  BY DEF QueueJob
<1>2. Retried(n) \in QueueJob
  <2> DEFINE st == IF queue[n].made + 1 < Attempts[n] THEN "waiting" ELSE "failed"
  <2>1. st \in {"waiting", "failed"} /\ queue[n].made + 1 \in Nat
    BY <1>1
  <2>2. Retried(n) = [queue[n] EXCEPT !.made = @ + 1, !.st = st]
    BY DEF Retried
  <2> HIDE DEF st
  <2> QED
    BY <1>1, <2>1, <2>2 DEF QueueJob
<1>3. Recovered(n) \in QueueJob
  <2> DEFINE st == IF queue[n].stalled THEN "failed" ELSE "waiting"
  <2>1. st \in {"waiting", "failed"}
    OBVIOUS
  <2>2. Recovered(n) = [queue[n] EXCEPT !.stalled = TRUE, !.st = st]
    BY DEF Recovered
  <2> HIDE DEF st
  <2> QED
    BY <1>1, <2>1, <2>2 DEF QueueJob
<1>4. NoJob \in QueueJob
  BY DEF NoJob, QueueJob
<1>5. \A st \in {"waiting", "active"} : [queue[n] EXCEPT !.st = st] \in QueueJob
  BY <1>1 DEF QueueJob
<1> QED
  BY <1>2, <1>3, <1>4, <1>5

\* What an awaited step does to executor, queue and history: it ends the
\* execution, or goes on with a frame of the same notice.
Moves(x) ==
  \/ Finish(x)
  \/ \E q \in BusyFrames : q.notice = work[x].notice /\ GoOn(x, q)

\* A turn of the loop over chunks ends the execution or starts the next chunk.
LEMMA NextChunkMoves ==
  ASSUME NEW x \in Executors, work[x] \in BusyFrames, NEW todo \in SUBSET Users,
         NextChunk(x, todo)
  PROVE  Moves(x)
<1>1. [work[x] EXCEPT !.pc = "users", !.todo = todo] \in BusyFrames
  BY DEF BusyFrames
<1>2. [work[x] EXCEPT !.pc = "users", !.todo = todo].notice = work[x].notice
  BY DEF BusyFrames
<1> QED
  BY <1>1, <1>2 DEF NextChunk, Moves

\* After a push the execution marks the record, goes on with the next chunk or
\* ends.
LEMMA AfterPushMoves ==
  ASSUME NEW x \in Executors, work[x] \in BusyFrames, NEW failed \in SUBSET Tokens,
         AfterPush(x, failed)
  PROVE  Moves(x)
<1> DEFINE q == [work[x] EXCEPT !.failed = failed]
           p == [q EXCEPT !.pc = "mark"]
<1>1. q \in BusyFrames /\ q.notice = work[x].notice /\ q.todo = work[x].todo
  BY DEF BusyFrames
<1>2. p \in BusyFrames /\ p.notice = work[x].notice
  BY <1>1 DEF BusyFrames
<1>3. work[x].todo \in SUBSET Users
  BY DEF BusyFrames
<1>4. GoOn(x, p) \/ NextChunk(x, q.todo)
  BY DEF AfterPush
<1> HIDE DEF q, p
<1> QED
  BY <1>1, <1>2, <1>3, <1>4, NextChunkMoves DEF Moves

\* An awaited step of x is made by a busy executor, and moves it.
LEMMA ExecutesMoves ==
  ASSUME TypeOK, NEW x \in Executors, Executes(x)
  PROVE  work[x] \in BusyFrames /\ Moves(x)
<1>1. work[x] \in BusyFrames
  BY BusyFrame DEF TypeOK, Executes, LookUpRecord, CheckRecipient, FindUsers,
     InsertRecords, FetchTokens, Push, MarkPushed, CleanTokens, Busy
<1>2. \A pc \in {"recipient", "insert", "tokens"} :
        /\ [work[x] EXCEPT !.pc = pc] \in BusyFrames
        /\ [work[x] EXCEPT !.pc = pc].notice = work[x].notice
  BY <1>1 DEF BusyFrames
<1>3. work[x].todo \in SUBSET Users /\ work[x].failed \in SUBSET Tokens
      /\ work[x].tokens \in SUBSET Tokens
  BY <1>1 DEF BusyFrames
<1>4. ASSUME LookUpRecord(x) \/ CheckRecipient(x) \/ InsertRecords(x) \/ MarkPushed(x)
      PROVE  Moves(x)
  BY <1>2, <1>4 DEF LookUpRecord, CheckRecipient, InsertRecords, MarkPushed, Moves
<1>5. ASSUME FindUsers(x) PROVE Moves(x)
  <2>1. PICK chunk \in SUBSET work[x].todo :
          IF chunk \ Unreachable = {} THEN NextChunk(x, work[x].todo \ chunk)
          ELSE GoOn(x, [work[x] EXCEPT !.pc = "insert", !.todo = @ \ chunk,
                                       !.to = chunk \ Unreachable])
    BY <1>5 DEF FindUsers
  <2> DEFINE q == [work[x] EXCEPT !.pc = "insert", !.todo = @ \ chunk,
                                  !.to = chunk \ Unreachable]
  <2>2. q \in BusyFrames /\ q.notice = work[x].notice
    BY <1>1, <1>3 DEF BusyFrames
  <2>3. work[x].todo \ chunk \in SUBSET Users
    BY <1>3
  <2> QED
    BY <1>1, <2>1, <2>2, <2>3, NextChunkMoves DEF Moves
<1>6. ASSUME FetchTokens(x) PROVE Moves(x)
  <2> DEFINE tokens == ActiveTokens(work[x].to)
             q == [work[x] EXCEPT !.pc = "push", !.tokens = tokens]
  <2>1. tokens \in SUBSET Tokens
    BY DEF ActiveTokens
  <2>2. NextChunk(x, work[x].todo) \/ GoOn(x, q)
    BY <1>6 DEF FetchTokens
  <2> HIDE DEF tokens
  <2>3. q \in BusyFrames /\ q.notice = work[x].notice
    BY <1>1, <2>1 DEF BusyFrames
  <2> QED
    BY <1>1, <1>3, <2>2, <2>3, NextChunkMoves DEF Moves
<1>7. ASSUME Push(x) PROVE Moves(x)
  <2>1. PICK failed \in SUBSET work[x].tokens :
          \/ AfterPush(x, failed)
          \/ GoOn(x, [work[x] EXCEPT !.pc = "clean", !.failed = failed])
    BY <1>7 DEF Push
  <2> DEFINE q == [work[x] EXCEPT !.pc = "clean", !.failed = failed]
  <2>2. failed \in SUBSET Tokens
    BY <1>3
  <2>3. q \in BusyFrames /\ q.notice = work[x].notice
    BY <1>1, <2>2 DEF BusyFrames
  <2> QED
    BY <1>1, <2>1, <2>2, <2>3, AfterPushMoves DEF Moves
<1>8. ASSUME CleanTokens(x) PROVE Moves(x)
  BY <1>1, <1>3, <1>8, AfterPushMoves DEF CleanTokens
<1> QED
  BY <1>1, <1>4, <1>5, <1>6, <1>7, <1>8 DEF Executes

\* What Moves does to the parts of the state keeps their types.
LEMMA MovesTyped ==
  ASSUME TypeOK, NEW x \in Executors, work[x] \in BusyFrames, Moves(x)
  PROVE  /\ work' \in [Executors -> NoticeFrame]
         /\ queue' \in [Notices -> QueueJob]
         /\ completed' \in SUBSET Notices
<1>1. work[x].notice \in Notices
  BY DEF BusyFrames
<1>2. NoJob \in QueueJob
  BY <1>1, JobsAreJobs DEF TypeOK
<1>3. CASE Finish(x)
  BY <1>1, <1>2, <1>3, IdleIsFrame DEF Finish, TypeOK
<1>4. CASE \E q \in BusyFrames : GoOn(x, q)
  BY <1>4, BusyFrame DEF GoOn, TypeOK
<1> QED
  BY <1>3, <1>4 DEF Moves

\* Type correctness is inductive.
LEMMA TypeStep ==
  ASSUME TypeOK, [Next]_noticeVars
  PROVE  TypeOK'
<1>1. ASSUME DevicesNext, UNCHANGED deliveryVars
      PROVE  TypeOK'
  BY <1>1, DevicesTyped DEF TypeOK, deliveryVars
<1>2. ASSUME NEW n \in Notices, DispatchQueued(n),
             UNCHANGED <<deviceVars, initialized>>
      PROVE  TypeOK'
  <2>1. queue' \in [Notices -> QueueJob]
    BY <1>2, JobsAreJobs DEF DispatchQueued, TypeOK
  <2> QED
    BY <1>2, <2>1 DEF DispatchQueued, TypeOK, DevicesTypeOK, deviceVars
<1>3. ASSUME NEW n \in Notices, NEW x \in Callers, DispatchDirect(x, n),
             UNCHANGED <<deviceVars, initialized>>
      PROVE  TypeOK'
  BY <1>3, StartIsFrame DEF DispatchDirect, Begin, TypeOK, DevicesTypeOK, deviceVars, Executors
<1>4. ASSUME NEW n \in Notices, NEW x \in Workers, TakeJob(x, n),
             UNCHANGED <<deviceVars, initialized>>
      PROVE  TypeOK'
  <2>1. queue' \in [Notices -> QueueJob]
    BY <1>4, JobsAreJobs DEF TakeJob, TypeOK
  <2> QED
    BY <1>4, <2>1, StartIsFrame DEF TakeJob, Begin, TypeOK, DevicesTypeOK, deviceVars, Executors
<1>5. ASSUME NEW x \in Executors, AbortWork(x),
             UNCHANGED <<deviceVars, initialized>>
      PROVE  TypeOK'
  <2>1. work[x] \in BusyFrames
    BY <1>5, BusyFrame DEF AbortWork, TypeOK, Busy
  <2>2. work[x].notice \in Notices
    BY <2>1 DEF BusyFrames
  <2>3. queue' \in [Notices -> QueueJob]
    BY <1>5, <2>2, JobsAreJobs DEF AbortWork, TypeOK
  <2> QED
    BY <1>5, <2>3, IdleIsFrame DEF AbortWork, TypeOK, DevicesTypeOK, deviceVars
<1>6. ASSUME NEW x \in Executors, Executes(x)
      PROVE  TypeOK'
  <2>1. work[x] \in BusyFrames /\ Moves(x)
    BY <1>6, ExecutesMoves
  <2>2. work[x].notice \in Notices
    BY <2>1 DEF BusyFrames
  <2>3. /\ work' \in [Executors -> NoticeFrame]
        /\ queue' \in [Notices -> QueueJob]
        /\ completed' \in SUBSET Notices
    BY <2>1, MovesTyped
  <2>4. DevicesTypeOK'
    <3>1. DevicesTypeOK
      BY DEF TypeOK
    <3>2. CASE UNCHANGED deviceVars
      BY <3>1, <3>2 DEF DevicesTypeOK, deviceVars
    <3>3. CASE CleanTokens(x)
      BY <3>1, <3>3, DeactivatedIsTable DEF CleanTokens, DevicesTypeOK
    <3> QED
      BY <1>6, <3>2, <3>3 DEF Executes
  <2>5. dispatched' = dispatched
    BY <1>6 DEF Executes, LookUpRecord, CheckRecipient, FindUsers, InsertRecords,
       FetchTokens, Push, MarkPushed, CleanTokens
  <2>6. records' \in [Notices -> [Users -> Nat]]
    <3>1. CASE InsertRecords(x)
      BY <2>2, <3>1 DEF InsertRecords, TypeOK
    <3>2. CASE UNCHANGED records
      BY <3>2 DEF TypeOK
    <3> QED
      BY <1>6, <3>1, <3>2 DEF Executes, LookUpRecord, CheckRecipient, FindUsers,
         FetchTokens, Push, MarkPushed, CleanTokens
  <2>7. /\ marked' \in [Notices -> Nat] /\ reached' \in [Notices -> Nat]
        /\ skipped' \in [Notices -> Nat]
    <3>1. CASE Push(x)
      BY <2>2, <3>1 DEF Push, CountOne, TypeOK
    <3>2. CASE MarkPushed(x)
      BY <2>2, <3>2 DEF MarkPushed, TypeOK
    <3>3. CASE UNCHANGED <<marked, reached, skipped>>
      BY <3>3 DEF TypeOK
    <3> QED
      BY <1>6, <3>1, <3>2, <3>3 DEF Executes, LookUpRecord, CheckRecipient, FindUsers,
         FetchTokens, InsertRecords, CleanTokens
  <2>8. UNCHANGED <<initialized, met>>
    BY <1>6 DEF Executes
  <2> QED
    BY <2>3, <2>4, <2>5, <2>6, <2>7, <2>8 DEF TypeOK
<1>7. CASE UNCHANGED noticeVars
  BY <1>7 DEF noticeVars, deviceVars, deliveryVars, TypeOK, DevicesTypeOK
<1> QED
  BY <1>1, <1>2, <1>3, <1>4, <1>5, <1>6, <1>7 DEF Next, DeliveryNext

\* Delivery starts well typed.
LEMMA InitTyped == Init => TypeOK
<1>1. DeviceIdle \in DeviceFrame
  BY DEF DeviceIdle, DeviceFrame
<1> QED
  BY <1>1, IdleIsFrame DEF Init, DevicesInit, TypeOK, DevicesTypeOK, NoJob, QueueJob

\* For any notices, queues and users the state of delivery is always well typed;
\* in particular an execution under way works on a notice and on known tokens.
THEOREM NoticesTypeCorrect == Spec => []TypeOK
<1>1. TypeOK /\ [Next]_noticeVars => TypeOK'
  BY TypeStep
<1> QED
  BY <1>1, InitTyped, PTL DEF Spec

-----------------------------------------------------------------------------
\* Every reachable recipient of n outside S has a record.
Listed(n, S) == \A u \in Recipients[n] \ (Unreachable \cup S) : records[n][u] > 0

\* The recipients an execution has still to reach.
Left(q) ==
  q.todo \cup (IF q.pc \in {"lookup", "recipient", "insert"} THEN q.to ELSE {})

\* The strengthening of CompletedReachesAll: an execution under way has forgotten
\* nobody, and one of a key has no chunks.
Remembers(q) ==
  /\ Listed(q.notice, Left(q))
  /\ q.notice \in Keys => q.todo = {}
  /\ q.pc \in {"lookup", "recipient", "mark"} => q.notice \in Keys
  /\ q.pc = "lookup" => q.to = Recipients[q.notice]

ReachInv ==
  /\ TypeOK
  /\ CompletedReachesAll
  /\ \A x \in Executors : Busy(work[x]) => Remembers(work[x])

\* Records are never taken back.
RecordsGrow == \A n \in Notices, u \in Users : records'[n][u] >= records[n][u]

\* What is listed stays listed, and executions go on remembering.
LEMMA RemembersStays ==
  ASSUME TypeOK, TypeOK', RecordsGrow
  PROVE  /\ \A n \in Notices : \A S : Listed(n, S) => Listed(n, S)'
         /\ \A q \in BusyFrames : Remembers(q) => Remembers(q)'
<1>1. ASSUME NEW n \in Notices, NEW S, Listed(n, S)
      PROVE  Listed(n, S)'
  <2>1. Recipients[n] \subseteq Users
    BY NoticesAssumption
  <2>2. ASSUME NEW u \in Recipients[n] \ (Unreachable \cup S)
        PROVE  records'[n][u] > 0
    <3>1. u \in Users /\ records[n][u] > 0
      BY <1>1, <2>1 DEF Listed
    <3>2. records[n][u] \in Nat /\ records'[n][u] \in Nat
      BY <3>1 DEF TypeOK
    <3> QED
      BY <3>1, <3>2 DEF RecordsGrow
  <2> QED
    BY <2>2 DEF Listed
<1>2. ASSUME NEW q \in BusyFrames, Remembers(q)
      PROVE  Remembers(q)'
  <2>1. q.notice \in Notices
    BY DEF BusyFrames
  <2> QED
    BY <1>1, <1>2, <2>1 DEF Remembers, Left
<1> QED
  BY <1>1, <1>2

\* A new execution has everybody before it.
LEMMA StartRemembers ==
  ASSUME NEW n \in Notices
  PROVE  Remembers(Start(n))
<1>1. Left(Start(n)) = Recipients[n] /\ Start(n).notice = n
  BY DEF Left, Start
<1>2. Listed(n, Recipients[n])
  BY DEF Listed
<1> QED
  BY <1>1, <1>2, NoticesAssumption DEF Remembers, Start, Notices

\* The two ways an awaited step of the execution p may end well.
Outcome(x, p) ==
  \/ Finish(x) /\ Listed(p.notice, {})'
  \/ \E q \in BusyFrames : GoOn(x, q) /\ Remembers(q)'

\* The turn of the loop over chunks forgets nobody if all but todo are listed.
LEMMA NextChunkRemembers ==
  ASSUME NEW x \in Executors, NEW p \in BusyFrames, p = work[x],
         NEW todo \in SUBSET Users, NextChunk(x, todo),
         Listed(p.notice, todo)', p.notice \in Keys => todo = {}
  PROVE  Outcome(x, p)
<1> DEFINE q == [p EXCEPT !.pc = "users", !.todo = todo]
<1>1. /\ q \in BusyFrames /\ q.notice = p.notice /\ q.todo = todo /\ q.pc = "users"
  BY DEF BusyFrames
<1>2. CASE todo = {}
  BY <1>2 DEF NextChunk, Outcome
<1>3. CASE todo # {}
  <2>1. GoOn(x, q)
    BY <1>3 DEF NextChunk
  <2> HIDE DEF q
  <2>2. Left(q) = todo
    BY <1>1 DEF Left
  <2>3. Remembers(q)'
    BY <1>1, <2>2 DEF Remembers
  <2> QED
    BY <1>1, <2>1, <2>3 DEF Outcome
<1> QED
  BY <1>2, <1>3

\* After a push everybody of the chunk is listed already.
LEMMA AfterPushRemembers ==
  ASSUME NEW x \in Executors, NEW p \in BusyFrames, p = work[x],
         NEW failed \in SUBSET Tokens, AfterPush(x, failed),
         p.pc \in {"push", "clean"}, Remembers(p), Remembers(p)'
  PROVE  Outcome(x, p)
<1> DEFINE q == [p EXCEPT !.failed = failed]
           m == [q EXCEPT !.pc = "mark"]
<1>1. q.todo = p.todo /\ p.todo \in SUBSET Users /\ Left(p) = p.todo
  BY DEF BusyFrames, Left
<1>2. Listed(p.notice, p.todo)' /\ (p.notice \in Keys => p.todo = {})
  BY <1>1 DEF Remembers
<1>3. m \in BusyFrames /\ m.notice = p.notice /\ m.todo = p.todo /\ m.pc = "mark"
  BY DEF BusyFrames
<1>4. (p.notice \in Keys /\ GoOn(x, m)) \/ NextChunk(x, q.todo)
  <2>1. q.notice = p.notice
    BY DEF BusyFrames
  <2> QED
    BY <2>1 DEF AfterPush
<1> HIDE DEF q, m
<1>5. CASE p.notice \in Keys /\ GoOn(x, m)
  <2>1. Left(m) = p.todo
    BY <1>3 DEF Left
  <2>2. Remembers(m)'
    BY <1>2, <1>3, <1>5, <2>1 DEF Remembers
  <2> QED
    BY <1>3, <1>5, <2>2 DEF Outcome
<1>6. CASE NextChunk(x, q.todo)
  BY <1>1, <1>2, <1>6, NextChunkRemembers
<1> QED
  BY <1>4, <1>5, <1>6

\* A step of an execution never takes a record back.
LEMMA ExecutesGrows ==
  ASSUME TypeOK, NEW x \in Executors, Executes(x)
  PROVE  RecordsGrow
<1>1. CASE InsertRecords(x)
  <2>1. work[x].notice \in Notices
    BY <1>1, ExecutesMoves DEF BusyFrames
  <2> QED
    BY <1>1, <2>1 DEF InsertRecords, RecordsGrow, TypeOK
<1>2. CASE UNCHANGED records
  BY <1>2 DEF RecordsGrow, TypeOK
<1> QED
  BY <1>1, <1>2 DEF Executes, LookUpRecord, CheckRecipient, FindUsers, FetchTokens, Push,
     MarkPushed, CleanTokens

\* A step of an execution that remembers ends well.
LEMMA ExecutesRemembers ==
  ASSUME TypeOK, TypeOK', NEW x \in Executors, Executes(x),
         NEW p \in BusyFrames, p = work[x], Remembers(p)
  PROVE  Outcome(x, p)
<1>1. RecordsGrow
  BY ExecutesGrows
<1>2. Remembers(p)'
  BY <1>1, RemembersStays
<1>3. /\ p.notice \in Notices /\ p.todo \in SUBSET Users /\ p.to \in SUBSET Users
      /\ p.tokens \in SUBSET Tokens /\ p.failed \in SUBSET Tokens
  BY DEF BusyFrames
<1>4. \A pc \in {"recipient", "insert", "tokens"} :
        LET q == [p EXCEPT !.pc = pc] IN
        /\ q \in BusyFrames /\ q.notice = p.notice /\ q.todo = p.todo
        /\ q.to = p.to /\ q.pc = pc
  BY DEF BusyFrames
<1>5. ASSUME LookUpRecord(x) PROVE Outcome(x, p)
  <2> DEFINE q == [p EXCEPT !.pc = "recipient"]
  <2>1. p.pc = "lookup" /\ p.notice \in Keys /\ p.to = Recipients[p.notice] /\ p.todo = {}
    BY <1>5 DEF LookUpRecord, Remembers
  <2>2. PICK u \in Users : p.to = {u}
    BY <2>1, NoticesAssumption
  <2>3. CASE records[p.notice][u] > 0
    <3>1. Finish(x)
      BY <1>5, <2>2, <2>3 DEF LookUpRecord
    <3>2. records' = records
      BY <1>5 DEF LookUpRecord
    <3>3. Listed(p.notice, {})'
      BY <2>1, <2>2, <2>3, <3>2 DEF Listed
    <3> QED
      BY <3>1, <3>3 DEF Outcome
  <2>4. CASE ~(records[p.notice][u] > 0)
    <3>1. GoOn(x, q)
      BY <1>5, <2>2, <2>4 DEF LookUpRecord
    <3>2. Left(q) = Left(p)
      BY <1>4, <2>1 DEF Left
    <3>3. Remembers(q)'
      BY <1>2, <1>4, <2>1, <3>2 DEF Remembers
    <3> QED
      BY <1>4, <3>1, <3>3 DEF Outcome
  <2> QED
    BY <2>3, <2>4
<1>6. ASSUME CheckRecipient(x) PROVE Outcome(x, p)
  <2> DEFINE q == [p EXCEPT !.pc = "insert"]
  <2>1. p.pc = "recipient" /\ Left(p) = p.todo \cup p.to
    BY <1>6 DEF CheckRecipient, Left
  <2>2. CASE p.to \subseteq Unreachable
    <3>1. Finish(x)
      BY <1>6, <2>2 DEF CheckRecipient
    <3>2. p.todo = {}
      BY <2>1 DEF Remembers
    <3> QED
      BY <1>2, <2>1, <2>2, <3>1, <3>2 DEF Outcome, Remembers, Listed
  <2>3. CASE ~(p.to \subseteq Unreachable)
    <3>1. GoOn(x, q)
      BY <1>6, <2>3 DEF CheckRecipient
    <3>2. Left(q) = Left(p)
      BY <1>4, <2>1 DEF Left
    <3>3. Remembers(q)'
      BY <1>2, <1>4, <3>2 DEF Remembers
    <3> QED
      BY <1>4, <3>1, <3>3 DEF Outcome
  <2> QED
    BY <2>2, <2>3
<1>7. ASSUME FindUsers(x) PROVE Outcome(x, p)
  <2>1. PICK chunk \in SUBSET p.todo :
          IF chunk \ Unreachable = {} THEN NextChunk(x, p.todo \ chunk)
          ELSE GoOn(x, [p EXCEPT !.pc = "insert", !.todo = @ \ chunk,
                                 !.to = chunk \ Unreachable])
    BY <1>7 DEF FindUsers
  <2>2. p.pc = "users" /\ Left(p) = p.todo
    BY <1>7 DEF FindUsers, Left
  <2>3. CASE chunk \ Unreachable = {}
    <3>1. NextChunk(x, p.todo \ chunk) /\ p.todo \ chunk \in SUBSET Users
      BY <1>3, <2>1, <2>3
    <3>2. Listed(p.notice, p.todo \ chunk)'
      BY <1>2, <2>2, <2>3 DEF Remembers, Listed
    <3>3. p.notice \in Keys => p.todo \ chunk = {}
      BY <1>2 DEF Remembers
    <3> QED
      BY <3>1, <3>2, <3>3, NextChunkRemembers
  <2>4. CASE chunk \ Unreachable # {}
    <3> DEFINE q == [p EXCEPT !.pc = "insert", !.todo = p.todo \ chunk,
                              !.to = chunk \ Unreachable]
    <3>1. GoOn(x, q)
      BY <2>1, <2>4
    <3>2. /\ q \in BusyFrames /\ q.notice = p.notice /\ q.todo = p.todo \ chunk
          /\ q.to = chunk \ Unreachable /\ q.pc = "insert"
      BY <1>3 DEF BusyFrames
    <3> HIDE DEF q
    <3>3. Left(q) = (p.todo \ chunk) \cup (chunk \ Unreachable)
      BY <3>2 DEF Left
    <3>4. Remembers(q)'
      BY <1>2, <2>2, <3>2, <3>3 DEF Remembers, Listed
    <3> QED
      BY <3>1, <3>2, <3>4 DEF Outcome
  <2> QED
    BY <2>3, <2>4
<1>8. ASSUME InsertRecords(x) PROVE Outcome(x, p)
  <2> DEFINE q == [p EXCEPT !.pc = "tokens"]
  <2>1. p.pc = "insert" /\ Left(p) = p.todo \cup p.to /\ Left(q) = p.todo
    BY <1>4, <1>8 DEF InsertRecords, Left
  <2>2. GoOn(x, q)
    BY <1>8 DEF InsertRecords
  <2>3. \A u \in p.to : records'[p.notice][u] > 0
    BY <1>3, <1>8 DEF InsertRecords, TypeOK
  <2>4. Listed(p.notice, p.todo)'
    BY <1>2, <2>1, <2>3 DEF Remembers, Listed
  <2>5. Remembers(q)'
    BY <1>2, <1>4, <2>1, <2>4 DEF Remembers
  <2> QED
    BY <1>4, <2>2, <2>5 DEF Outcome
<1>9. ASSUME FetchTokens(x) PROVE Outcome(x, p)
  <2>1. PICK tokens \in SUBSET Tokens :
          \/ NextChunk(x, p.todo)
          \/ GoOn(x, [p EXCEPT !.pc = "push", !.tokens = tokens])
    BY <1>9 DEF FetchTokens, ActiveTokens
  <2> DEFINE q == [p EXCEPT !.pc = "push", !.tokens = tokens]
  <2>2. p.pc = "tokens"
    BY <1>9 DEF FetchTokens
  <2>3. q \in BusyFrames /\ q.notice = p.notice /\ q.todo = p.todo /\ q.pc = "push"
    BY DEF BusyFrames
  <2>4. CASE NextChunk(x, p.todo)
    <3>1. Left(p) = p.todo
      BY <2>2 DEF Left
    <3>2. Listed(p.notice, p.todo)' /\ (p.notice \in Keys => p.todo = {})
      BY <1>2, <3>1 DEF Remembers
    <3> QED
      BY <1>3, <2>4, <3>2, NextChunkRemembers
  <2>5. CASE GoOn(x, q)
    <3> HIDE DEF q
    <3>1. Left(p) = p.todo /\ Left(q) = p.todo
      BY <2>2, <2>3 DEF Left
    <3>2. Remembers(q)'
      BY <1>2, <2>3, <3>1 DEF Remembers
    <3> QED
      BY <2>3, <2>5, <3>2 DEF Outcome
  <2> QED
    BY <2>1, <2>4, <2>5
<1>10. ASSUME Push(x) PROVE Outcome(x, p)
  <2>1. PICK failed \in SUBSET p.tokens :
          \/ AfterPush(x, failed)
          \/ GoOn(x, [p EXCEPT !.pc = "clean", !.failed = failed])
    BY <1>10 DEF Push
  <2>2. p.pc = "push" /\ failed \in SUBSET Tokens
    BY <1>3, <1>10 DEF Push
  <2> DEFINE q == [p EXCEPT !.pc = "clean", !.failed = failed]
  <2>3. q \in BusyFrames /\ q.notice = p.notice /\ q.todo = p.todo /\ q.pc = "clean"
    BY <2>2 DEF BusyFrames
  <2>4. CASE AfterPush(x, failed)
    BY <1>2, <2>2, <2>4, AfterPushRemembers
  <2>5. CASE GoOn(x, q)
    <3> HIDE DEF q
    <3>1. Left(p) = p.todo /\ Left(q) = p.todo
      BY <2>2, <2>3 DEF Left
    <3>2. Remembers(q)'
      BY <1>2, <2>3, <3>1 DEF Remembers
    <3> QED
      BY <2>3, <2>5, <3>2 DEF Outcome
  <2> QED
    BY <2>1, <2>4, <2>5
<1>11. ASSUME CleanTokens(x) PROVE Outcome(x, p)
  BY <1>2, <1>3, <1>11, AfterPushRemembers DEF CleanTokens
<1>12. ASSUME MarkPushed(x) PROVE Outcome(x, p)
  <2>1. p.pc = "mark" /\ Finish(x)
    BY <1>12 DEF MarkPushed
  <2>2. Left(p) = {}
    BY <2>1 DEF Remembers, Left
  <2> QED
    BY <1>2, <2>1, <2>2 DEF Remembers, Outcome
<1> QED
  BY <1>5, <1>6, <1>7, <1>8, <1>9, <1>10, <1>11, <1>12 DEF Executes


\* A step keeps everybody in mind.
LEMMA ReachStep ==
  ASSUME ReachInv, [Next]_noticeVars
  PROVE  ReachInv'
<1>1. TypeOK /\ TypeOK'
  BY TypeStep DEF ReachInv
<1>2. ASSUME UNCHANGED <<records, completed>>, NEW x \in Executors, NEW f \in NoticeFrame,
             work' = [work EXCEPT ![x] = f], Busy(f) => Remembers(f)
      PROVE  ReachInv'
  <2>1. RecordsGrow
    BY <1>1, <1>2 DEF RecordsGrow, TypeOK
  <2>2. CompletedReachesAll'
    BY <1>2 DEF ReachInv, CompletedReachesAll
  <2>3. ASSUME NEW y \in Executors, Busy(work'[y])
        PROVE  Remembers(work[y])'
    <3>1. PICK q \in BusyFrames : q = work'[y]
      BY <1>1, <2>3, BusyFrame DEF TypeOK
    <3>2. Remembers(q)
      <4>1. q = f \/ q = work[y]
        BY <1>1, <1>2, <3>1 DEF TypeOK
      <4> QED
        BY <1>2, <4>1, <3>1, BusyFrame DEF ReachInv
    <3> QED
      BY <1>1, <2>1, <3>1, <3>2, RemembersStays DEF Remembers, Listed, Left
  <2> QED
    BY <1>1, <2>2, <2>3 DEF ReachInv
<1>3. ASSUME UNCHANGED <<records, completed, work>>
      PROVE  ReachInv'
  BY <1>1, <1>3 DEF ReachInv, CompletedReachesAll, Remembers, Listed
<1>4. ASSUME NEW n \in Notices, DispatchQueued(n)
      PROVE  ReachInv'
  BY <1>3, <1>4 DEF DispatchQueued
<1>5. ASSUME NEW n \in Notices, NEW x \in Executors, DispatchDirect(x, n) \/ TakeJob(x, n)
      PROVE  ReachInv'
  BY <1>2, <1>5, StartIsFrame, StartRemembers DEF DispatchDirect, TakeJob, Begin
<1>6. ASSUME NEW x \in Executors, AbortWork(x)
      PROVE  ReachInv'
  BY <1>2, <1>6, IdleIsFrame DEF AbortWork
<1>7. ASSUME NEW x \in Executors, Executes(x)
      PROVE  ReachInv'
  <2>1. PICK p \in BusyFrames : p = work[x]
    BY <1>1, <1>7, ExecutesMoves
  <2>2. Remembers(p)
    BY <2>1, BusyFrame DEF ReachInv
  <2>3. Outcome(x, p)
    BY <1>1, <1>7, <2>1, <2>2, ExecutesRemembers
  <2>4. PICK f \in NoticeFrame : /\ work' = [work EXCEPT ![x] = f]
                                 /\ Busy(f) => Remembers(f)'
    BY <2>3, IdleIsFrame, BusyFrame DEF Outcome, Finish, GoOn
  <2>5. RecordsGrow
    BY <1>1, <1>7, ExecutesGrows
  <2>6. ASSUME NEW n \in completed'
        PROVE  Listed(n, {})'
    <3>1. n \in Notices
      BY <1>1 DEF TypeOK
    <3>2. CASE n \in completed
      <4>1. Listed(n, {})
        BY <3>2 DEF ReachInv, CompletedReachesAll, Listed
      <4> QED
        BY <1>1, <2>5, <3>1, <4>1, RemembersStays
    <3>3. CASE n \notin completed
      BY <2>1, <2>3, <2>6, <3>3 DEF Outcome, Finish, GoOn
    <3> QED
      BY <3>2, <3>3
  <2>7. ASSUME NEW y \in Executors, Busy(work'[y])
        PROVE  Remembers(work[y])'
    <3>1. PICK q \in BusyFrames : q = work'[y]
      BY <1>1, <2>7, BusyFrame DEF TypeOK
    <3>2. CASE y = x
      <4>1. q = f
        BY <1>1, <2>4, <3>1, <3>2 DEF TypeOK
      <4> QED
        BY <2>4, <3>1, <4>1, BusyFrame DEF Remembers, Listed, Left
    <3>3. CASE y # x
      <4>1. q = work[y]
        BY <1>1, <2>4, <3>1, <3>3 DEF TypeOK
      <4>2. Remembers(q)
        BY <4>1, BusyFrame DEF ReachInv
      <4> QED
        BY <1>1, <2>5, <3>1, <4>2, RemembersStays DEF Remembers, Listed, Left
    <3> QED
      BY <3>2, <3>3
  <2>8. CompletedReachesAll'
    BY <2>6 DEF CompletedReachesAll, Listed
  <2> QED
    BY <1>1, <2>7, <2>8 DEF ReachInv
<1>8. CASE UNCHANGED noticeVars
  BY <1>3, <1>8 DEF noticeVars, deviceVars, deliveryVars
<1>9. CASE UNCHANGED deliveryVars
  BY <1>3, <1>9 DEF deliveryVars
<1> QED
  BY <1>4, <1>5, <1>6, <1>7, <1>8, <1>9 DEF Next, DeliveryNext, Executors

\* A notice whose execution returned is in the list of every recipient who can be
\* reached, however chunks are cut, executions fail, workers die and callers
\* execute what the queue refused.
THEOREM NobodyForgotten == Spec => []CompletedReachesAll
<1>1. Init => ReachInv
  <2>1. Init => TypeOK
    BY InitTyped
  <2> QED
    BY <2>1, IdleIsFrame DEF Init, ReachInv, CompletedReachesAll
<1>2. ReachInv /\ [Next]_noticeVars => ReachInv'
  BY ReachStep
<1>3. ReachInv => CompletedReachesAll
  BY DEF ReachInv
<1> QED
  BY <1>1, <1>2, <1>3, PTL DEF Spec


-----------------------------------------------------------------------------
\* A job that is under way is active, and no two workers are at the same job.
Alone ==
  /\ \A x \in Workers : Busy(work[x]) => queue[work[x].notice].st = "active"
  /\ \A x, y \in Workers :
       Busy(work[x]) /\ Busy(work[y]) /\ work[x].notice = work[y].notice => x = y

\* Workers stay alone at their jobs, whatever callers do.
LEMMA AloneStep ==
  ASSUME TypeOK, Alone, [Next]_noticeVars
  PROVE  Alone'
<1>1. Workers \subseteq Executors /\ Callers \cap Workers = {}
  BY ExecutorsAssumption DEF Executors
<1>2. \A x \in Executors : Busy(work[x]) => work[x].notice \in Notices
  BY BusyFrame DEF TypeOK, BusyFrames
<1>3. ASSUME UNCHANGED work, NEW n \in Notices,
             \/ queue' = queue
             \/ queue[n].st # "active" /\ queue' = [queue EXCEPT ![n].st = "waiting"]
      PROVE  Alone'
  <2>1. \A m \in Notices : queue[m].st = "active" => queue'[m] = queue[m]
    BY <1>3 DEF TypeOK
  <2> QED
    BY <1>1, <1>2, <1>3, <2>1 DEF Alone
<1>4. ASSUME NEW n \in Notices, DispatchQueued(n)
      PROVE  Alone'
  <2>1. \/ queue' = queue
        \/ queue[n].st # "active" /\ queue' = [queue EXCEPT ![n].st = "waiting"]
    BY <1>4 DEF DispatchQueued
  <2>2. UNCHANGED work
    BY <1>4 DEF DispatchQueued
  <2> QED
    BY <1>3, <2>1, <2>2
<1>5. ASSUME NEW n \in Notices, NEW x \in Callers, DispatchDirect(x, n)
      PROVE  Alone'
  <2>1. \A y \in Workers : work'[y] = work[y]
    BY <1>1, <1>5 DEF DispatchDirect, Begin, TypeOK
  <2>2. queue' = queue
    BY <1>5 DEF DispatchDirect
  <2> QED
    BY <2>1, <2>2 DEF Alone
<1>6. ASSUME NEW n \in Notices, NEW x \in Workers, TakeJob(x, n)
      PROVE  Alone'
  <2>1. work'[x] = Start(n) /\ \A y \in Workers \ {x} : work'[y] = work[y]
    BY <1>1, <1>6 DEF TakeJob, Begin, TypeOK
  <2>2. \A y \in Workers : Busy(work[y]) => work[y].notice # n
    BY <1>6 DEF TakeJob, Alone
  <2>3. queue'[n].st = "active"
    BY <1>6 DEF TakeJob, TypeOK, QueueJob
  <2>4. \A m \in Notices \ {n} : queue'[m] = queue[m]
    BY <1>6 DEF TakeJob, TypeOK
  <2> QED
    BY <1>1, <1>2, <2>1, <2>2, <2>3, <2>4, StartIsFrame DEF Alone
<1>7. ASSUME NEW x \in Executors, NEW n \in Notices, Busy(work[x]), work[x].notice = n,
             work' = [work EXCEPT ![x] = NoticeIdle],
             \/ x \in Workers /\ \E job \in QueueJob : queue' = [queue EXCEPT ![n] = job]
             \/ x \in Callers /\ queue' = queue
      PROVE  Alone'
  <2>1. ~Busy(work'[x]) /\ \A y \in Executors \ {x} : work'[y] = work[y]
    BY <1>7, IdleIsFrame DEF TypeOK
  <2>2. \A m \in Notices \ {n} : queue'[m] = queue[m]
    BY <1>7 DEF TypeOK
  <2>3. \A y \in Workers : Busy(work'[y]) => queue'[work[y].notice] = queue[work[y].notice]
    BY <1>1, <1>2, <1>7, <2>1, <2>2 DEF Alone
  <2> QED
    BY <1>1, <2>1, <2>3 DEF Alone
<1>8. ASSUME NEW x \in Executors, AbortWork(x)
      PROVE  Alone'
  <2>1. PICK n \in Notices : n = work[x].notice
    BY <1>2, <1>8 DEF AbortWork, Busy
  <2>2. Retried(n) \in QueueJob /\ Recovered(n) \in QueueJob
    BY JobsAreJobs DEF TypeOK
  <2>3. \/ x \in Workers /\ \E job \in QueueJob : queue' = [queue EXCEPT ![n] = job]
        \/ x \in Callers /\ queue' = queue
    BY <1>8, <2>1, <2>2 DEF AbortWork
  <2> QED
    BY <1>7, <1>8, <2>1, <2>3 DEF AbortWork, Busy
<1>9. ASSUME NEW x \in Executors, Executes(x)
      PROVE  Alone'
  <2>1. work[x] \in BusyFrames /\ Moves(x)
    BY <1>9, ExecutesMoves
  <2>2. PICK n \in Notices : n = work[x].notice
    BY <2>1 DEF BusyFrames
  <2>3. CASE Finish(x)
    <3>1. NoJob \in QueueJob
      BY <2>2, JobsAreJobs DEF TypeOK
    <3> QED
      BY <1>7, <2>1, <2>2, <2>3, <3>1, BusyFrame DEF Finish, Executors
  <2>4. CASE \E q \in BusyFrames : q.notice = work[x].notice /\ GoOn(x, q)
    <3>1. /\ \A y \in Executors \ {x} : work'[y] = work[y]
          /\ Busy(work[x]) /\ work'[x].notice = work[x].notice
          /\ queue' = queue
      BY <2>1, <2>4, BusyFrame DEF GoOn, TypeOK
    <3>2. \A y \in Workers :
            Busy(work'[y]) => Busy(work[y]) /\ work'[y].notice = work[y].notice
      BY <1>1, <3>1
    <3> QED
      BY <3>1, <3>2 DEF Alone
  <2> QED
    BY <2>1, <2>3, <2>4 DEF Moves
<1>10. CASE UNCHANGED <<queue, work>>
  BY <1>10 DEF Alone
<1> QED
  BY <1>4, <1>5, <1>6, <1>8, <1>9, <1>10
     DEF Next, DeliveryNext, noticeVars, deviceVars, deliveryVars

-----------------------------------------------------------------------------
\* Where an execution of k is before its insert, and after its lookup.
Looks(q, k) == Busy(q) /\ q.notice = k /\ q.pc \in {"lookup", "recipient", "insert"}
Passes(q, k) == Busy(q) /\ q.notice = k /\ q.pc \in {"recipient", "insert"}

Lookers(k) == {x \in Executors : Looks(work[x], k)}
Passers(k) == {x \in Executors : Passes(work[x], k)}

\* The recipients an execution of k has looked up, or will.
Addressed(q, k) == Looks(q, k) => q.to = Recipients[k]

\* No more executions are before the insert of k than could begin, and no more
\* records are made or to come.
RecordOK(k) ==
  /\ Cardinality(Lookers(k)) <= 1 + met[k]
  /\ \A u \in Users : records[k][u] > 0 =>
       u \in Recipients[k] /\ records[k][u] + Cardinality(Passers(k)) <= 1 + met[k]

\* The strengthening of OneRecordPerReference.
RecordInv ==
  /\ ReachInv
  /\ \A k \in Keys \ NoRef :
       RecordOK(k) /\ \A x \in Executors : Addressed(work[x], k)

\* An execution of k passes its lookup only if none of the recipients has a record.
PassesFresh(p, q, k) ==
  \/ p.pc = "lookup" /\ q.pc = "recipient" /\ ~\E u \in p.to : records[k][u] > 0
  \/ p.pc = "recipient" /\ q.pc = "insert"

\* Executors before an insert, and among them those past a lookup, are finite sets.
LEMMA LookersAreFinite ==
  ASSUME IsFiniteSet(Executors), NEW k \in Keys
  PROVE  /\ Passers(k) \subseteq Lookers(k)
         /\ IsFiniteSet(Lookers(k)) /\ Cardinality(Lookers(k)) \in Nat
         /\ IsFiniteSet(Passers(k)) /\ Cardinality(Passers(k)) \in Nat
<1>1. Passers(k) \subseteq Lookers(k) /\ Lookers(k) \subseteq Executors
  BY DEF Passers, Lookers, Passes, Looks
<1>2. IsFiniteSet(Lookers(k)) /\ IsFiniteSet(Passers(k))
  BY <1>1, FS_Subset
<1> QED
  BY <1>1, <1>2, FS_CardinalityType

\* A step that inserts no record of k and brings nobody before its insert keeps
\* RecordOK, if it brings nobody past the lookup once there is a record.
LEMMA QuietRecord ==
  ASSUME IsFiniteSet(Executors), TypeOK, NEW k \in Keys \ NoRef, RecordOK(k),
         records'[k] = records[k], met'[k] = met[k],
         Lookers(k)' \subseteq Lookers(k),
         \/ Passers(k)' \subseteq Passers(k)
         \/ \A u \in Recipients[k] : records[k][u] = 0
  PROVE  RecordOK(k)'
<1>1. /\ IsFiniteSet(Lookers(k)) /\ Cardinality(Lookers(k)) \in Nat
      /\ IsFiniteSet(Passers(k)) /\ Cardinality(Passers(k)) \in Nat
  BY LookersAreFinite
<1>2. k \in Notices /\ met[k] \in Nat
  BY DEF Notices, TypeOK
<1>3. Cardinality(Lookers(k)') \in Nat /\ Cardinality(Lookers(k)') <= Cardinality(Lookers(k))
  <2>1. IsFiniteSet(Lookers(k)')
    BY <1>1, FS_Subset
  <2> QED
    BY <1>1, <2>1, FS_Subset, FS_CardinalityType
<1>4. ASSUME NEW u \in Users, records'[k][u] > 0
      PROVE  /\ u \in Recipients[k]
             /\ records'[k][u] + Cardinality(Passers(k)') <= 1 + met'[k]
  <2>1. records[k][u] > 0 /\ records[k][u] \in Nat
    BY <1>2, <1>4 DEF TypeOK
  <2>2. u \in Recipients[k] /\ records[k][u] + Cardinality(Passers(k)) <= 1 + met[k]
    BY <2>1 DEF RecordOK
  <2>3. Passers(k)' \subseteq Passers(k)
    BY <2>1, <2>2
  <2>4. Cardinality(Passers(k)') \in Nat /\ Cardinality(Passers(k)') <= Cardinality(Passers(k))
    <3>1. IsFiniteSet(Passers(k)')
      BY <1>1, <2>3, FS_Subset
    <3> QED
      BY <1>1, <2>3, <3>1, FS_Subset, FS_CardinalityType
  <2> QED
    BY <1>1, <1>2, <2>1, <2>2, <2>4
<1> QED
  BY <1>1, <1>2, <1>3, <1>4 DEF RecordOK

\* An execution that begins is counted, unless it is the only one.
LEMMA BegunRecord ==
  ASSUME IsFiniteSet(Executors), TypeOK, NEW k \in Keys \ NoRef, RecordOK(k),
         records'[k] = records[k], NEW x \in Executors,
         Lookers(k)' \subseteq Lookers(k) \cup {x}, Passers(k)' \subseteq Passers(k),
         met'[k] = met[k] + 1 \/ (met'[k] = met[k] /\ Lookers(k) = {})
  PROVE  RecordOK(k)'
<1>1. /\ IsFiniteSet(Lookers(k)) /\ Cardinality(Lookers(k)) \in Nat
      /\ IsFiniteSet(Passers(k)) /\ Cardinality(Passers(k)) \in Nat
  BY LookersAreFinite
<1>2. k \in Notices /\ met[k] \in Nat
  BY DEF Notices, TypeOK
<1>3. /\ Cardinality(Lookers(k)') \in Nat
      /\ Cardinality(Lookers(k)') <= Cardinality(Lookers(k)) + 1
  <2>1. /\ IsFiniteSet(Lookers(k) \cup {x})
        /\ Cardinality(Lookers(k) \cup {x}) <= Cardinality(Lookers(k)) + 1
    <3>1. /\ IsFiniteSet(Lookers(k) \cup {x})
          /\ Cardinality(Lookers(k) \cup {x}) =
               IF x \in Lookers(k) THEN Cardinality(Lookers(k)) ELSE Cardinality(Lookers(k)) + 1
      BY <1>1, FS_AddElement, Zenon
    <3> QED
      BY <1>1, <3>1
  <2>2. IsFiniteSet(Lookers(k)') /\ Cardinality(Lookers(k)') <= Cardinality(Lookers(k) \cup {x})
    BY <2>1, FS_Subset
  <2>3. Cardinality(Lookers(k)') \in Nat /\ Cardinality(Lookers(k) \cup {x}) \in Nat
    BY <2>1, <2>2, FS_CardinalityType
  <2> QED
    BY <1>1, <2>1, <2>2, <2>3
<1>4. /\ Cardinality(Passers(k)') \in Nat
      /\ Cardinality(Passers(k)') <= Cardinality(Passers(k))
  <2>1. IsFiniteSet(Passers(k)')
    BY <1>1, FS_Subset
  <2> QED
    BY <1>1, <2>1, FS_Subset, FS_CardinalityType
<1>5. Cardinality(Lookers(k)') <= 1 + met'[k]
  <2>1. CASE Lookers(k) = {}
    BY <1>1, <1>2, <1>3, <2>1, FS_EmptySet
  <2>2. CASE Lookers(k) # {}
    BY <1>1, <1>2, <1>3, <2>2 DEF RecordOK
  <2> QED
    BY <2>1, <2>2
<1>6. ASSUME NEW u \in Users, records'[k][u] > 0
      PROVE  /\ u \in Recipients[k]
             /\ records'[k][u] + Cardinality(Passers(k)') <= 1 + met'[k]
  <2>1. records[k][u] > 0 /\ records[k][u] \in Nat
    BY <1>2, <1>6 DEF TypeOK
  <2> QED
    BY <1>1, <1>2, <1>4, <2>1 DEF RecordOK
<1> QED
  BY <1>5, <1>6 DEF RecordOK

\* An execution past the lookup makes its one record and is done with it.
LEMMA InsertedRecord ==
  ASSUME IsFiniteSet(Executors), TypeOK, NEW k \in Keys \ NoRef, RecordOK(k),
         NEW x \in Passers(k), met'[k] = met[k],
         \A u \in Users : records'[k][u] =
           IF u \in Recipients[k] THEN records[k][u] + 1 ELSE records[k][u],
         Lookers(k)' \subseteq Lookers(k) \ {x}, Passers(k)' \subseteq Passers(k) \ {x}
  PROVE  RecordOK(k)'
<1>1. /\ IsFiniteSet(Lookers(k)) /\ Cardinality(Lookers(k)) \in Nat
      /\ IsFiniteSet(Passers(k)) /\ Cardinality(Passers(k)) \in Nat
      /\ x \in Lookers(k)
  BY LookersAreFinite
<1>2. k \in Notices /\ met[k] \in Nat
  BY DEF Notices, TypeOK
<1>3. /\ Cardinality(Lookers(k)') \in Nat
      /\ Cardinality(Lookers(k)') <= Cardinality(Lookers(k)) - 1
  <2>1. /\ IsFiniteSet(Lookers(k) \ {x})
        /\ Cardinality(Lookers(k) \ {x}) = Cardinality(Lookers(k)) - 1
    BY <1>1, FS_RemoveElement
  <2>2. IsFiniteSet(Lookers(k)') /\ Cardinality(Lookers(k)') <= Cardinality(Lookers(k) \ {x})
    BY <2>1, FS_Subset
  <2> QED
    BY <2>1, <2>2, FS_CardinalityType
<1>4. /\ Cardinality(Passers(k)') \in Nat
      /\ Cardinality(Passers(k)') <= Cardinality(Passers(k)) - 1
  <2>1. /\ IsFiniteSet(Passers(k) \ {x})
        /\ Cardinality(Passers(k) \ {x}) = Cardinality(Passers(k)) - 1
    BY <1>1, FS_RemoveElement
  <2>2. IsFiniteSet(Passers(k)') /\ Cardinality(Passers(k)') <= Cardinality(Passers(k) \ {x})
    BY <2>1, FS_Subset
  <2> QED
    BY <2>1, <2>2, FS_CardinalityType
<1>5. Cardinality(Passers(k)) <= 1 + met[k]
  <2>1. Cardinality(Passers(k)) <= Cardinality(Lookers(k))
    BY <1>1, LookersAreFinite, FS_Subset
  <2> QED
    BY <1>1, <1>2, <2>1 DEF RecordOK
<1>6. ASSUME NEW u \in Users, records'[k][u] > 0
      PROVE  /\ u \in Recipients[k]
             /\ records'[k][u] + Cardinality(Passers(k)') <= 1 + met'[k]
  <2>1. records[k][u] \in Nat
    BY <1>2 DEF TypeOK
  <2>2. u \in Recipients[k]
    BY <1>6 DEF RecordOK
  <2>3. CASE records[k][u] = 0
    BY <1>1, <1>2, <1>4, <1>5, <2>1, <2>2, <2>3
  <2>4. CASE records[k][u] > 0
    BY <1>1, <1>2, <1>4, <2>1, <2>2, <2>4 DEF RecordOK
  <2> QED
    BY <2>1, <2>2, <2>3, <2>4
<1>7. Cardinality(Lookers(k)') <= 1 + met'[k]
  BY <1>1, <1>2, <1>3 DEF RecordOK
<1> QED
  BY <1>6, <1>7 DEF RecordOK

\* An execution of a key that comes before its insert, or stays there, has just
\* looked up its recipients or found that they can be reached.
LEMMA RecordMoves ==
  ASSUME TypeOK, NEW x \in Executors, Executes(x), NEW p \in BusyFrames, p = work[x],
         Remembers(p), NEW q \in BusyFrames, GoOn(x, q),
         NEW k \in Keys \ NoRef, Looks(q, k)
  PROVE  /\ p.notice = k /\ q.to = p.to /\ UNCHANGED records
         /\ PassesFresh(p, q, k)
<1>1. work'[x] = q
  BY DEF GoOn, TypeOK
<1>2. q # NoticeIdle /\ p # NoticeIdle
  BY BusyFrame, IdleIsFrame
<1>3. p.notice = k
  BY <1>1, <1>2, ExecutesMoves DEF Moves, Finish, GoOn, TypeOK, Looks
<1>4. ~InsertRecords(x)
  <2>1. SUFFICES ASSUME InsertRecords(x) PROVE FALSE
    OBVIOUS
  <2>2. q = [p EXCEPT !.pc = "tokens"]
    BY <1>1, <2>1 DEF InsertRecords, GoOn, TypeOK
  <2>3. q.pc = "tokens"
    BY <2>2 DEF BusyFrames
  <2> QED
    BY <2>3 DEF Looks
<1>5. UNCHANGED records
  BY <1>4 DEF Executes, LookUpRecord, CheckRecipient, FindUsers, FetchTokens, Push,
     MarkPushed, CleanTokens
<1>6. CASE LookUpRecord(x)
  <2>1. ~\E u \in p.to : records[p.notice][u] > 0
    BY <1>1, <1>2, <1>6, IdleIsFrame DEF LookUpRecord, Finish, TypeOK
  <2>2. q = [p EXCEPT !.pc = "recipient"] /\ p.pc = "lookup"
    BY <1>1, <1>6, <2>1 DEF LookUpRecord, GoOn, TypeOK
  <2>3. q.pc = "recipient" /\ q.to = p.to
    BY <2>2 DEF BusyFrames
  <2> QED
    BY <1>3, <1>5, <2>1, <2>2, <2>3 DEF PassesFresh
<1>7. CASE CheckRecipient(x)
  <2>1. q = [p EXCEPT !.pc = "insert"] /\ p.pc = "recipient"
    BY <1>1, <1>2, <1>7 DEF CheckRecipient, Finish, GoOn, TypeOK
  <2>2. q.pc = "insert" /\ q.to = p.to
    BY <2>1 DEF BusyFrames
  <2> QED
    BY <1>3, <1>5, <2>1, <2>2 DEF PassesFresh
<1>8. ~FindUsers(x)
  <2>1. SUFFICES ASSUME FindUsers(x) PROVE FALSE
    OBVIOUS
  <2>2. p.todo = {}
    BY <1>3 DEF Remembers
  <2>3. Finish(x)
    BY <2>1, <2>2 DEF FindUsers, NextChunk
  <2> QED
    BY <1>1, <1>2, <2>3 DEF Finish, TypeOK
<1>9. ASSUME NEW todo \in SUBSET Users, NextChunk(x, todo)
      PROVE  q.pc = "users"
  <2>1. q = [p EXCEPT !.pc = "users", !.todo = todo]
    BY <1>1, <1>2, <1>9 DEF NextChunk, Finish, GoOn, TypeOK
  <2> QED
    BY <2>1 DEF BusyFrames
<1>10. ASSUME NEW failed \in SUBSET Tokens, AfterPush(x, failed)
       PROVE  q.pc \in {"users", "mark"}
  <2> DEFINE f == [p EXCEPT !.failed = failed]
             m == [f EXCEPT !.pc = "mark"]
  <2>1. f.todo = p.todo /\ m.pc = "mark" /\ p.todo \in SUBSET Users
    BY DEF BusyFrames
  <2>2. GoOn(x, m) \/ NextChunk(x, f.todo)
    BY <1>10 DEF AfterPush
  <2> HIDE DEF f, m
  <2> QED
    BY <1>1, <1>9, <2>1, <2>2 DEF GoOn, TypeOK
<1>11. p.todo \in SUBSET Users /\ p.tokens \in SUBSET Tokens /\ p.failed \in SUBSET Tokens
  BY DEF BusyFrames
<1>12. CASE FetchTokens(x)
  <2>1. PICK tokens \in SUBSET Tokens :
          \/ NextChunk(x, p.todo)
          \/ GoOn(x, [p EXCEPT !.pc = "push", !.tokens = tokens])
    BY <1>12 DEF FetchTokens, ActiveTokens
  <2>2. [p EXCEPT !.pc = "push", !.tokens = tokens].pc = "push"
    BY DEF BusyFrames
  <2>3. q.pc \in {"users", "push"}
    BY <1>1, <1>9, <1>11, <2>1, <2>2 DEF GoOn, TypeOK
  <2> QED
    BY <2>3 DEF Looks
<1>13. CASE Push(x)
  <2>1. PICK failed \in SUBSET p.tokens :
          \/ AfterPush(x, failed)
          \/ GoOn(x, [p EXCEPT !.pc = "clean", !.failed = failed])
    BY <1>13 DEF Push
  <2>2. [p EXCEPT !.pc = "clean", !.failed = failed].pc = "clean"
    BY DEF BusyFrames
  <2>3. q.pc \in {"users", "mark", "clean"}
    BY <1>1, <1>10, <1>11, <2>1, <2>2 DEF GoOn, TypeOK
  <2> QED
    BY <2>3 DEF Looks
<1>14. CASE CleanTokens(x)
  <2>1. q.pc \in {"users", "mark"}
    BY <1>10, <1>11, <1>14 DEF CleanTokens
  <2> QED
    BY <2>1 DEF Looks
<1>15. CASE MarkPushed(x)
  BY <1>1, <1>2, <1>15 DEF MarkPushed, Finish, TypeOK
<1> QED
  BY <1>4, <1>6, <1>7, <1>8, <1>12, <1>13, <1>14, <1>15 DEF Executes

\* An executor whose frame changes is the only one that comes or goes.
LEMMA OneMoves ==
  ASSUME NEW x \in Executors, TypeOK, NEW f, work' = [work EXCEPT ![x] = f], NEW k
  PROVE  /\ Lookers(k)' \subseteq Lookers(k) \cup {x}
         /\ Passers(k)' \subseteq Passers(k) \cup {x}
         /\ ~Looks(f, k) => Lookers(k)' \subseteq Lookers(k) \ {x}
         /\ ~Passes(f, k) => Passers(k)' \subseteq Passers(k) \ {x}
         /\ Looks(f, k) /\ Looks(work[x], k) => Lookers(k)' \subseteq Lookers(k)
         /\ Passes(work[x], k) => Passers(k)' \subseteq Passers(k)
<1>1. work'[x] = f /\ \A y \in Executors \ {x} : work'[y] = work[y]
  BY DEF TypeOK
<1>2. ASSUME NEW y \in Lookers(k)'
      PROVE  /\ y \in Lookers(k) \cup {x} /\ (y = x => Looks(f, k))
             /\ (y = x /\ Looks(work[x], k) => y \in Lookers(k))
  BY <1>1, <1>2 DEF Lookers
<1>3. ASSUME NEW y \in Passers(k)'
      PROVE  /\ y \in Passers(k) \cup {x} /\ (y = x => Passes(f, k))
             /\ (y = x /\ Passes(work[x], k) => y \in Passers(k))
  BY <1>1, <1>3 DEF Passers
<1> QED
  BY <1>2, <1>3

\* What begins, passes its lookup, inserts or ends keeps to its one record.
LEMMA RecordStep ==
  ASSUME IsFiniteSet(Executors), RecordInv, [Next]_noticeVars
  PROVE  RecordInv'
<1>1. TypeOK /\ TypeOK' /\ ReachInv'
  BY ReachStep, TypeStep DEF RecordInv, ReachInv
<1>2. Keys \subseteq Notices /\ Executors = Workers \cup Callers
  BY DEF Notices, Executors
<1>3. ASSUME UNCHANGED <<records, met, work>>
      PROVE  RecordInv'
  BY <1>1, <1>3 DEF RecordInv, RecordOK, Lookers, Passers, Looks, Passes, Addressed
<1>4. ASSUME NEW x \in Executors, NEW f \in NoticeFrame, work' = [work EXCEPT ![x] = f],
             NEW k \in Keys \ NoRef, Addressed(f, k), NEW y \in Executors
      PROVE  Addressed(work'[y], k)
  BY <1>1, <1>4 DEF RecordInv, TypeOK
<1>5. ASSUME UNCHANGED <<records, met>>, NEW x \in Executors, NEW f \in NoticeFrame,
             work' = [work EXCEPT ![x] = f], NEW k \in Keys \ NoRef, ~Looks(f, k)
      PROVE  RecordOK(k)' /\ Addressed(f, k)
  <2>1. Lookers(k)' \subseteq Lookers(k)
    BY <1>1, <1>5, OneMoves
  <2>2. ~Passes(f, k)
    BY <1>5 DEF Passes, Looks
  <2>3. Passers(k)' \subseteq Passers(k)
    BY <1>1, <1>5, <2>2, OneMoves
  <2>4. RecordOK(k) /\ records'[k] = records[k] /\ met'[k] = met[k]
    BY <1>5 DEF RecordInv
  <2>5. RecordOK(k)'
    BY <1>1, <2>1, <2>3, <2>4, QuietRecord
  <2> QED
    BY <1>5, <2>5 DEF Addressed
<1>6. ASSUME NEW n \in Notices, DispatchQueued(n), UNCHANGED met
      PROVE  RecordInv'
  BY <1>3, <1>6 DEF DispatchQueued
<1>7. ASSUME NEW n \in Notices, NEW x \in Executors, Begin(x, n), UNCHANGED records
      PROVE  RecordInv'
  <2>1. /\ work' = [work EXCEPT ![x] = Start(n)] /\ Start(n) \in NoticeFrame
        /\ Start(n).notice = n
    BY <1>7, StartIsFrame DEF Begin
  <2>2. ASSUME NEW k \in Keys \ NoRef
        PROVE  RecordOK(k)' /\ Addressed(Start(n), k)
    <3>1. RecordOK(k) /\ records'[k] = records[k] /\ met[k] \in Nat
      BY <1>1, <1>2, <1>7 DEF RecordInv, TypeOK
    <3>2. CASE k = n
      <4>1. Start(n).pc = "lookup" /\ Start(n).to = Recipients[n]
        BY <3>2, NoticesAssumption DEF Start
      <4>2. ~Passes(Start(n), k)
        BY <4>1 DEF Passes
      <4>3. Lookers(k)' \subseteq Lookers(k) \cup {x} /\ Passers(k)' \subseteq Passers(k)
        BY <1>1, <2>1, <4>2, OneMoves
      <4>4. met'[k] = met[k] + 1 \/ (met'[k] = met[k] /\ Lookers(k) = {})
        <5>1. CASE \E y \in Executors : work[y].pc # "idle" /\ work[y].notice = n
          <6>1. met' = [met EXCEPT ![n] = @ + 1]
            BY <1>7, <5>1 DEF Begin
          <6> QED
            BY <1>1, <1>2, <3>2, <6>1 DEF TypeOK
        <5>2. CASE ~\E y \in Executors : work[y].pc # "idle" /\ work[y].notice = n
          <6>1. met' = met
            BY <1>7, <5>2 DEF Begin
          <6>2. Lookers(k) = {}
            BY <3>2, <5>2 DEF Lookers, Looks, Busy
          <6> QED
            BY <6>1, <6>2
        <5> QED
          BY <5>1, <5>2
      <4>5. RecordOK(k)'
        BY <1>1, <3>1, <4>3, <4>4, BegunRecord
      <4> QED
        BY <3>2, <4>1, <4>5 DEF Addressed
    <3>3. CASE k # n
      <4>1. met'[k] = met[k]
        BY <1>1, <1>2, <1>7, <3>3 DEF Begin, TypeOK
      <4>2. ~Looks(Start(n), k) /\ ~Passes(Start(n), k)
        BY <2>1, <3>3 DEF Looks, Passes
      <4>3. Lookers(k)' \subseteq Lookers(k) /\ Passers(k)' \subseteq Passers(k)
        BY <1>1, <2>1, <4>2, OneMoves
      <4>4. RecordOK(k)'
        BY <1>1, <3>1, <4>1, <4>3, QuietRecord
      <4> QED
        BY <4>2, <4>4 DEF Addressed
    <3> QED
      BY <3>2, <3>3
  <2>3. ASSUME NEW k \in Keys \ NoRef, NEW y \in Executors
        PROVE  Addressed(work'[y], k)
    BY <1>4, <2>1, <2>2
  <2> QED
    BY <1>1, <2>2, <2>3 DEF RecordInv, Addressed, Looks
<1>8. ASSUME NEW x \in Executors, AbortWork(x)
      PROVE  RecordInv'
  <2>1. /\ UNCHANGED <<records, met>> /\ work' = [work EXCEPT ![x] = NoticeIdle]
        /\ \A k : ~Looks(NoticeIdle, k)
    BY <1>8, IdleIsFrame DEF AbortWork, Looks
  <2>2. ASSUME NEW k \in Keys \ NoRef
        PROVE  RecordOK(k)' /\ Addressed(NoticeIdle, k)
    BY <1>5, <2>1, IdleIsFrame
  <2>3. ASSUME NEW k \in Keys \ NoRef, NEW y \in Executors
        PROVE  Addressed(work'[y], k)
    BY <1>4, <2>1, <2>2, IdleIsFrame
  <2> QED
    BY <1>1, <2>2, <2>3 DEF RecordInv, Addressed, Looks
<1>9. ASSUME NEW x \in Executors, Executes(x)
      PROVE  RecordInv'
  <2>1. PICK p \in BusyFrames : p = work[x]
    BY <1>1, <1>9, ExecutesMoves
  <2>2. Remembers(p) /\ p.notice \in Notices /\ p.to \in SUBSET Users /\ Busy(p)
    BY <2>1, BusyFrame DEF RecordInv, ReachInv, BusyFrames
  <2>3. UNCHANGED met
    BY <1>9 DEF Executes
  <2>4. PICK f \in NoticeFrame :
          work' = [work EXCEPT ![x] = f] /\ (Busy(f) => f \in BusyFrames /\ GoOn(x, f))
    BY <1>1, <1>9, ExecutesMoves, IdleIsFrame, BusyFrame DEF Moves, Finish, GoOn
  <2>5. ASSUME NEW k \in Keys \ NoRef
        PROVE  RecordOK(k)' /\ Addressed(f, k)
    <3>1. RecordOK(k) /\ Addressed(p, k)
      BY <2>1 DEF RecordInv
    <3>2. CASE Looks(f, k)
      <4>1. f \in BusyFrames /\ GoOn(x, f)
        BY <2>4, <3>2 DEF Looks
      <4>2. /\ p.notice = k /\ f.to = p.to /\ UNCHANGED records
            /\ PassesFresh(p, f, k)
        BY <1>1, <1>9, <2>1, <2>2, <3>2, <4>1, RecordMoves
      <4>3. Looks(p, k) /\ p.to = Recipients[k]
        BY <2>2, <3>1, <4>2 DEF Looks, PassesFresh, Addressed
      <4>4. Lookers(k)' \subseteq Lookers(k)
        BY <1>1, <2>1, <2>4, <3>2, <4>3, OneMoves
      <4>5. \/ Passers(k)' \subseteq Passers(k)
            \/ \A u \in Recipients[k] : records[k][u] = 0
        <5>1. CASE p.pc = "recipient"
          <6>1. Passes(p, k)
            BY <2>2, <4>2, <5>1 DEF Passes
          <6> QED
            BY <1>1, <2>1, <2>4, <6>1, OneMoves
        <5>2. CASE p.pc # "recipient"
          <6>1. ~\E u \in p.to : records[k][u] > 0
            BY <4>2, <5>2 DEF PassesFresh
          <6>2. \A u \in p.to : records[k][u] \in Nat
            BY <1>1, <1>2, <2>2 DEF TypeOK
          <6>3. \A u \in p.to : records[k][u] = 0
            BY <6>1, <6>2
          <6> QED
            BY <4>3, <6>3
        <5> QED
          BY <5>1, <5>2
      <4>6. records'[k] = records[k] /\ met'[k] = met[k]
        BY <2>3, <4>2
      <4>7. RecordOK(k)'
        BY <1>1, <3>1, <4>4, <4>5, <4>6, QuietRecord
      <4> QED
        BY <4>2, <4>3, <4>7 DEF Addressed
    <3>3. CASE ~Looks(f, k) /\ records'[k] = records[k]
      <4>1. ~Passes(f, k)
        BY <3>3 DEF Passes, Looks
      <4>2. Lookers(k)' \subseteq Lookers(k) /\ Passers(k)' \subseteq Passers(k)
        BY <1>1, <2>4, <3>3, <4>1, OneMoves
      <4>3. met'[k] = met[k]
        BY <2>3
      <4>4. RecordOK(k)'
        BY <1>1, <3>1, <3>3, <4>2, <4>3, QuietRecord
      <4> QED
        BY <3>3, <4>4 DEF Addressed
    <3>4. CASE ~Looks(f, k) /\ records'[k] # records[k]
      <4>1. InsertRecords(x)
        <5>1. ~UNCHANGED records
          BY <3>4
        <5> QED
          BY <1>9, <5>1 DEF Executes, LookUpRecord, CheckRecipient, FindUsers, FetchTokens,
             Push, MarkPushed, CleanTokens
      <4>2. /\ p.pc = "insert"
            /\ records' = [records EXCEPT ![p.notice] =
                             [u \in Users |-> IF u \in p.to THEN @[u] + 1 ELSE @[u]]]
        BY <2>1, <4>1 DEF InsertRecords
      <4>3. p.notice = k
        BY <1>1, <1>2, <2>2, <3>4, <4>2 DEF TypeOK
      <4>4. Looks(p, k) /\ Passes(p, k)
        BY <2>2, <4>2, <4>3 DEF Looks, Passes
      <4>5. x \in Passers(k) /\ p.to = Recipients[k]
        BY <2>1, <3>1, <4>4 DEF Passers, Addressed
      <4>6. \A u \in Users : records'[k][u] =
              IF u \in Recipients[k] THEN records[k][u] + 1 ELSE records[k][u]
        BY <1>1, <1>2, <4>2, <4>3, <4>5 DEF TypeOK
      <4>7. ~Passes(f, k) /\ met'[k] = met[k]
        BY <2>3, <3>4 DEF Passes, Looks
      <4>8. /\ Lookers(k)' \subseteq Lookers(k) \ {x}
            /\ Passers(k)' \subseteq Passers(k) \ {x}
        BY <1>1, <2>4, <3>4, <4>7, OneMoves
      <4>9. RecordOK(k)'
        BY <1>1, <3>1, <4>5, <4>6, <4>7, <4>8, InsertedRecord
      <4> QED
        BY <3>4, <4>9 DEF Addressed
    <3> QED
      BY <3>2, <3>3, <3>4
  <2>6. ASSUME NEW k \in Keys \ NoRef, NEW y \in Executors
        PROVE  Addressed(work'[y], k)
    BY <1>4, <2>4, <2>5
  <2> QED
    BY <1>1, <2>5, <2>6 DEF RecordInv, Addressed, Looks
<1>10. CASE UNCHANGED deliveryVars
  BY <1>3, <1>10 DEF deliveryVars
<1>11. CASE DeliveryNext
  <2>1. ASSUME NEW n \in Notices, DispatchQueued(n)
        PROVE  UNCHANGED met
    BY <2>1 DEF DispatchQueued
  <2>2. ASSUME NEW n \in Notices, NEW x \in Executors, DispatchDirect(x, n) \/ TakeJob(x, n)
        PROVE  RecordInv'
    BY <1>7, <2>2 DEF DispatchDirect, TakeJob
  <2> QED
    BY <1>2, <1>6, <1>8, <1>11, <2>1, <2>2 DEF DeliveryNext
<1> QED
  BY <1>9, <1>10, <1>11 DEF Next, noticeVars

\* The recipient of a notice with a reference has one record of it, and at most one
\* more for each execution of it that began while another was under way, whatever
\* fails, dies, is retried, is dispatched again or is refused by the queue.
THEOREM OneRecord ==
  ASSUME IsFiniteSet(Executors)
  PROVE  Spec => []OneRecordPerReference
<1>1. Init => RecordInv
  <2> SUFFICES ASSUME Init PROVE RecordInv
    OBVIOUS
  <2>1. TypeOK /\ \A x \in Executors : work[x] = NoticeIdle /\ ~Busy(work[x])
    BY InitTyped, IdleIsFrame DEF Init
  <2>2. \A n \in Notices, u \in Users : records[n][u] = 0 /\ met[n] = 0
    BY DEF Init
  <2>3. ReachInv
    BY <2>1 DEF Init, ReachInv, CompletedReachesAll
  <2>4. ASSUME NEW k \in Keys \ NoRef
        PROVE  RecordOK(k) /\ \A x \in Executors : Addressed(work[x], k)
    <3>1. Lookers(k) = {} /\ \A x \in Executors : Addressed(work[x], k)
      BY <2>1 DEF Lookers, Looks, Addressed
    <3>2. met[k] \in Nat /\ k \in Notices
      BY <2>1 DEF TypeOK, Notices
    <3> QED
      BY <2>2, <3>1, <3>2, FS_EmptySet DEF RecordOK
  <2> QED
    BY <2>3, <2>4 DEF RecordInv
<1>2. RecordInv /\ [Next]_noticeVars => RecordInv'
  BY RecordStep
<1>3. RecordInv => OneRecordPerReference
  <2> SUFFICES ASSUME RecordInv, NEW k \in Keys \ NoRef, NEW u \in Users
               PROVE  records[k][u] <= 1 + met[k]
    BY DEF OneRecordPerReference
  <2>1. records[k][u] \in Nat /\ met[k] \in Nat
    BY DEF RecordInv, ReachInv, TypeOK, Notices
  <2>2. Cardinality(Passers(k)) \in Nat /\ RecordOK(k)
    BY LookersAreFinite DEF RecordInv
  <2> QED
    BY <2>1, <2>2 DEF RecordOK
<1> QED
  BY <1>1, <1>2, <1>3, PTL DEF Spec


-----------------------------------------------------------------------------
\* How often the job of n was tried and given up.
Tried(n) == queue[n].made + (IF queue[n].stalled THEN 1 ELSE 0)

\* What the records of a fan-out can be while x is at it: those of earlier tries,
\* and one more for the recipients x has passed.
Within(x, q) ==
  \A u \in Users :
    records[q.notice][u] <=
      (IF x \in Workers THEN Tried(q.notice) ELSE 0) + (IF u \in Left(q) THEN 0 ELSE 1)

\* The chunk that is inserted is not among the chunks to come.
Disjoint(q) == q.pc = "insert" => q.to \cap q.todo = {}

\* The executors of a notice.
At(n) == {x \in Executors : Busy(work[x]) /\ work[x].notice = n}

\* Nothing happens to a fan-out before its one dispatch.
Untouched(f) ==
  queue[f] = NoJob /\ At(f) = {} /\ \A u \in Users : records[f][u] = 0

\* The job of a fan-out that may run again has a try left, and what is in the
\* lists is within the tries.
TriesLeft(f) ==
  /\ queue[f].st \in {"waiting", "active"} => queue[f].made < Attempts[f]
  /\ queue[f].st = "waiting" => \A u \in Users : records[f][u] <= Tried(f)
  /\ \A u \in Users : records[f][u] <= Attempts[f] + 1

\* The strengthening of FanoutIsBounded, for one fan-out: only one executor at a
\* time is at it, and within the tries.
FanoutInv(f) ==
  /\ dispatched[f] = 0 => Untouched(f)
  /\ TriesLeft(f)
  /\ \A x \in At(f) :
       /\ At(f) = {x}
       /\ Disjoint(work[x]) /\ Within(x, work[x])
       /\ queue[f].st = IF x \in Workers THEN "active" ELSE "none"

\* A step of another notice does not matter to f.
LEMMA OtherNotice ==
  ASSUME TypeOK, TypeOK', NEW f \in Fanouts, FanoutInv(f),
         queue'[f] = queue[f], records'[f] = records[f], dispatched'[f] = dispatched[f],
         At(f)' = At(f), \A x \in At(f) : work'[x] = work[x]
  PROVE  FanoutInv(f)'
<1>1. Tried(f)' = Tried(f)
  BY DEF Tried
<1>2. (dispatched[f] = 0 => Untouched(f))'
  BY DEF FanoutInv, Untouched
<1>3. TriesLeft(f)'
  BY <1>1 DEF FanoutInv, TriesLeft
<1>4. ASSUME NEW x \in At(f)
      PROVE  (Disjoint(work[x]) /\ Within(x, work[x]))'
  <2>1. Disjoint(work[x]) /\ Within(x, work[x]) /\ work[x].notice = f
    BY <1>4 DEF FanoutInv, At
  <2>2. work'[x] = work[x]
    BY <1>4
  <2>3. Disjoint(work[x])'
    BY <2>1, <2>2 DEF Disjoint
  <2>4. Within(x, work[x])'
    BY <1>1, <2>1, <2>2 DEF Within, Left
  <2> QED
    BY <2>3, <2>4
<1> QED
  BY <1>2, <1>3, <1>4 DEF FanoutInv

\* An execution of a fan-out that goes on has no more recipients before it than
\* it had.
LEMMA FanoutMoves ==
  ASSUME TypeOK, NEW x \in Executors, Executes(x), NEW p \in BusyFrames, p = work[x],
         p.notice \in Fanouts, Remembers(p), NEW q \in BusyFrames, GoOn(x, q)
  PROVE  /\ ~InsertRecords(x) => Left(q) \subseteq Left(p)
         /\ InsertRecords(x) => p.pc = "insert" /\ Left(q) = p.todo
         /\ Disjoint(q)
<1>1. work'[x] = q /\ p.notice \notin Keys
  BY NoticesAssumption DEF GoOn, TypeOK
<1>2. q # NoticeIdle /\ p.pc \notin {"lookup", "recipient", "mark"}
  BY <1>1, BusyFrame, IdleIsFrame DEF Remembers
<1>3. p.todo \in SUBSET Users /\ p.tokens \in SUBSET Tokens /\ p.failed \in SUBSET Tokens
      /\ p.todo \subseteq Left(p)
  BY DEF BusyFrames, Left
<1>4. ASSUME NEW todo \in SUBSET Users, NextChunk(x, todo)
      PROVE  Left(q) = todo /\ Disjoint(q)
  <2>1. q = [p EXCEPT !.pc = "users", !.todo = todo]
    BY <1>1, <1>2, <1>4 DEF NextChunk, Finish, GoOn, TypeOK
  <2>2. q.pc = "users" /\ q.todo = todo
    BY <2>1 DEF BusyFrames
  <2> QED
    BY <2>2 DEF Left, Disjoint
<1>5. ASSUME NEW failed \in SUBSET Tokens, AfterPush(x, failed)
      PROVE  Left(q) = p.todo /\ Disjoint(q)
  <2> DEFINE g == [p EXCEPT !.failed = failed]
  <2>1. g.todo = p.todo /\ g.notice = p.notice
    BY DEF BusyFrames
  <2>2. NextChunk(x, p.todo)
    BY <1>1, <1>5, <2>1 DEF AfterPush
  <2> QED
    BY <1>3, <1>4, <2>2
<1>6. CASE LookUpRecord(x) \/ CheckRecipient(x) \/ MarkPushed(x)
  BY <1>2, <1>6 DEF LookUpRecord, CheckRecipient, MarkPushed
<1>7. CASE FindUsers(x)
  <2>1. PICK chunk \in SUBSET p.todo :
          \/ NextChunk(x, p.todo \ chunk)
          \/ GoOn(x, [p EXCEPT !.pc = "insert", !.todo = p.todo \ chunk,
                               !.to = chunk \ Unreachable])
    BY <1>7 DEF FindUsers
  <2>2. CASE NextChunk(x, p.todo \ chunk)
    <3>1. p.todo \ chunk \in SUBSET Users
      BY <1>3
    <3>2. Left(q) = p.todo \ chunk /\ Disjoint(q)
      BY <1>4, <2>2, <3>1
    <3> QED
      BY <1>3, <1>7, <3>2 DEF FindUsers, InsertRecords
  <2>3. CASE q = [p EXCEPT !.pc = "insert", !.todo = p.todo \ chunk,
                           !.to = chunk \ Unreachable]
    <3>1. q.pc = "insert" /\ q.todo = p.todo \ chunk /\ q.to = chunk \ Unreachable
      BY <2>3 DEF BusyFrames
    <3>2. Left(q) \subseteq p.todo /\ Disjoint(q)
      BY <3>1 DEF Left, Disjoint
    <3> QED
      BY <1>3, <1>7, <3>2 DEF FindUsers, InsertRecords
  <2> QED
    BY <1>1, <2>1, <2>2, <2>3 DEF GoOn, TypeOK
<1>8. CASE InsertRecords(x)
  <2>1. q = [p EXCEPT !.pc = "tokens"] /\ p.pc = "insert"
    BY <1>1, <1>8 DEF InsertRecords, GoOn, TypeOK
  <2>2. q.pc = "tokens" /\ q.todo = p.todo
    BY <2>1 DEF BusyFrames
  <2> QED
    BY <1>8, <2>1, <2>2 DEF Left, Disjoint
<1>9. CASE FetchTokens(x)
  <2>1. PICK tokens \in SUBSET Tokens :
          \/ NextChunk(x, p.todo)
          \/ GoOn(x, [p EXCEPT !.pc = "push", !.tokens = tokens])
    BY <1>9 DEF FetchTokens, ActiveTokens
  <2>2. CASE NextChunk(x, p.todo)
    BY <1>3, <1>4, <1>9, <2>2 DEF FetchTokens, InsertRecords
  <2>3. CASE q = [p EXCEPT !.pc = "push", !.tokens = tokens]
    <3>1. q.pc = "push" /\ q.todo = p.todo
      BY <2>3 DEF BusyFrames
    <3>2. Left(q) = p.todo /\ Disjoint(q)
      BY <3>1 DEF Left, Disjoint
    <3> QED
      BY <1>3, <1>9, <3>2 DEF FetchTokens, InsertRecords
  <2> QED
    BY <1>1, <2>1, <2>2, <2>3 DEF GoOn, TypeOK
<1>10. CASE Push(x)
  <2>1. PICK failed \in SUBSET p.tokens :
          \/ AfterPush(x, failed)
          \/ GoOn(x, [p EXCEPT !.pc = "clean", !.failed = failed])
    BY <1>10 DEF Push
  <2>2. CASE AfterPush(x, failed)
    BY <1>3, <1>5, <1>10, <2>2 DEF Push, InsertRecords
  <2>3. CASE q = [p EXCEPT !.pc = "clean", !.failed = failed]
    <3>1. q.pc = "clean" /\ q.todo = p.todo
      BY <2>3 DEF BusyFrames
    <3>2. Left(q) = p.todo /\ Disjoint(q)
      BY <3>1 DEF Left, Disjoint
    <3> QED
      BY <1>3, <1>10, <3>2 DEF Push, InsertRecords
  <2> QED
    BY <1>1, <2>1, <2>2, <2>3 DEF GoOn, TypeOK
<1>11. CASE CleanTokens(x)
  BY <1>3, <1>5, <1>11 DEF CleanTokens, InsertRecords
<1> QED
  BY <1>6, <1>7, <1>8, <1>9, <1>10, <1>11 DEF Executes


\* A fan-out whose executor stops, however it does, is within its tries.
LEMMA FanoutStops ==
  ASSUME TypeOK, TypeOK', NEW f \in Fanouts, FanoutInv(f), NEW x \in At(f),
         work' = [work EXCEPT ![x] = NoticeIdle],
         x \in Workers => queue'[f] \in {NoJob, Retried(f), Recovered(f)},
         x \notin Workers => queue'[f] = queue[f],
         UNCHANGED <<records, dispatched>>
  PROVE  FanoutInv(f)'
<1>1. x \in Executors /\ At(f) = {x} /\ f \in Notices
  BY DEF FanoutInv, At, Notices
<1>2. At(f)' = {}
  BY <1>1, IdleIsFrame DEF At, TypeOK
<1>3. dispatched'[f] # 0
  BY DEF FanoutInv, Untouched
<1>4. Attempts[f] \in Nat /\ Attempts[f] > 0
  BY <1>1, NoticesAssumption
<1>5. /\ queue[f].made \in Nat /\ queue[f].stalled \in BOOLEAN
      /\ \A u \in Users : records[f][u] \in Nat
  BY <1>1 DEF TypeOK, QueueJob
<1>6. TriesLeft(f)'
  <2>1. \A u \in Users : records'[f][u] <= Attempts[f] + 1
    BY DEF FanoutInv, TriesLeft
  <2>2. CASE x \notin Workers
    BY <2>1, <2>2 DEF FanoutInv, TriesLeft
  <2>3. CASE x \in Workers
    <3>1. queue[f].made < Attempts[f]
      BY <2>3 DEF FanoutInv, TriesLeft
    <3>2. \A u \in Users : records[f][u] <= Tried(f) + 1
      BY <1>5, <2>3 DEF FanoutInv, Within, At, Tried
    <3>3. CASE queue'[f] = NoJob
      BY <2>1, <3>3 DEF TriesLeft, NoJob
    <3>4. CASE queue'[f] = Retried(f)
      <4>1. /\ queue'[f].made = queue[f].made + 1 /\ queue'[f].stalled = queue[f].stalled
            /\ queue'[f].st \in {"waiting", "active"} => queue[f].made + 1 < Attempts[f]
        BY <1>1, <3>4 DEF Retried, TypeOK, QueueJob
      <4>2. Tried(f)' = Tried(f) + 1
        BY <1>5, <4>1 DEF Tried
      <4> QED
        BY <2>1, <3>2, <4>1, <4>2 DEF TriesLeft
    <3>5. CASE queue'[f] = Recovered(f)
      <4>1. /\ queue'[f].made = queue[f].made /\ queue'[f].stalled
            /\ queue'[f].st = IF queue[f].stalled THEN "failed" ELSE "waiting"
        BY <1>1, <3>5 DEF Recovered, TypeOK, QueueJob
      <4>2. ~queue[f].stalled => Tried(f)' = Tried(f) + 1
        BY <1>5, <4>1 DEF Tried
      <4> QED
        BY <2>1, <3>1, <3>2, <4>1, <4>2 DEF TriesLeft
    <3> QED
      BY <2>3, <3>3, <3>4, <3>5
  <2> QED
    BY <2>2, <2>3
<1> QED
  BY <1>2, <1>3, <1>6 DEF FanoutInv

\* A fan-out that an executor takes has not been passed to anybody on this try.
LEMMA FanoutStarts ==
  ASSUME TypeOK, TypeOK', NEW f \in Fanouts, NEW x \in Executors,
         work' = [work EXCEPT ![x] = Start(f)], At(f) = {},
         TriesLeft(f)', dispatched'[f] # 0,
         queue'[f].st = (IF x \in Workers THEN "active" ELSE "none"),
         \A u \in Users : records'[f][u] <= IF x \in Workers THEN Tried(f)' ELSE 0
  PROVE  FanoutInv(f)'
<1>1. f \in Notices /\ f \notin Keys
  BY NoticesAssumption DEF Notices
<1>2. work'[x] = Start(f) /\ Start(f).notice = f /\ Busy(Start(f))
  BY <1>1, StartIsFrame DEF TypeOK
<1>3. At(f)' = {x}
  BY <1>2 DEF At, TypeOK
<1>4. Start(f).pc = "users"
  BY DEF Start
<1>5. Disjoint(work[x])'
  BY <1>2, <1>4 DEF Disjoint
<1>6. Within(x, work[x])'
  <2>1. (IF x \in Workers THEN Tried(f)' ELSE 0) \in Nat
    BY <1>1 DEF TypeOK, QueueJob, Tried
  <2>2. \A u \in Users : records'[f][u] \in Nat
    BY <1>1 DEF TypeOK
  <2> QED
    BY <1>2, <2>1, <2>2 DEF Within
<1> QED
  BY <1>3, <1>5, <1>6 DEF FanoutInv

\* An execution of a fan-out that goes on stays within its tries.
LEMMA FanoutGoesOn ==
  ASSUME TypeOK, TypeOK', NEW f \in Fanouts, FanoutInv(f), NEW x \in Executors,
         Executes(x), NEW p \in BusyFrames, p = work[x], p.notice = f, Remembers(p),
         NEW q \in BusyFrames, q.notice = f, GoOn(x, q)
  PROVE  FanoutInv(f)'
<1>1. /\ ~InsertRecords(x) => Left(q) \subseteq Left(p)
      /\ InsertRecords(x) => p.pc = "insert" /\ Left(q) = p.todo
      /\ Disjoint(q)
  BY FanoutMoves
<1>2. work'[x] = q /\ queue' = queue /\ f \in Notices
  BY DEF GoOn, TypeOK, Notices
<1>3. x \in At(f) /\ At(f) = {x} /\ Disjoint(p) /\ Within(x, p)
  BY BusyFrame DEF At, FanoutInv
<1>4. At(f)' = {x}
  BY <1>2, <1>3, BusyFrame DEF At, GoOn, TypeOK
<1>5. dispatched' = dispatched /\ dispatched[f] # 0 /\ Tried(f)' = Tried(f)
  BY <1>2, <1>3 DEF Executes, LookUpRecord, CheckRecipient, FindUsers, InsertRecords,
     FetchTokens, Push, MarkPushed, CleanTokens, FanoutInv, Untouched, Tried
<1> DEFINE base == IF x \in Workers THEN Tried(f) ELSE 0
<1>6. base \in Nat /\ (\A u \in Users : records[f][u] \in Nat /\ records'[f][u] \in Nat)
  BY <1>2 DEF TypeOK, QueueJob, Tried
<1>7. \A u \in Users : records[f][u] <= base + (IF u \in Left(p) THEN 0 ELSE 1)
  BY <1>3 DEF Within
<1> HIDE DEF base
<1>8. \A u \in Users : records'[f][u] <= base + (IF u \in Left(q) THEN 0 ELSE 1)
  <2>1. CASE InsertRecords(x)
    <3>1. \A u \in Users :
            records'[f][u] = IF u \in p.to THEN records[f][u] + 1 ELSE records[f][u]
      BY <1>2, <2>1 DEF InsertRecords, TypeOK
    <3>2. Left(p) = p.todo \cup p.to /\ Left(q) = p.todo /\ p.to \cap p.todo = {}
      BY <1>1, <1>3, <2>1 DEF Left, Disjoint
    <3> QED
      BY <1>6, <1>7, <3>1, <3>2
  <2>2. CASE ~InsertRecords(x)
    <3>1. records' = records
      BY <2>2 DEF Executes, LookUpRecord, CheckRecipient, FindUsers, FetchTokens, Push,
         MarkPushed, CleanTokens
    <3> QED
      BY <1>1, <1>6, <1>7, <2>2, <3>1
  <2> QED
    BY <2>1, <2>2
<1>9. (Disjoint(work[x]) /\ Within(x, work[x]))'
  BY <1>1, <1>2, <1>5, <1>8 DEF Disjoint, Within, Left, base
<1>10. TriesLeft(f)'
  <2>1. queue[f].st = IF x \in Workers THEN "active" ELSE "none"
    BY <1>3 DEF FanoutInv
  <2>2. Attempts[f] \in Nat /\ queue[f].made \in Nat
    BY <1>2, NoticesAssumption DEF TypeOK, QueueJob
  <2>3. x \in Workers => queue[f].made < Attempts[f]
    BY <2>1 DEF FanoutInv, TriesLeft
  <2>4. base <= Attempts[f]
    BY <2>2, <2>3 DEF base, Tried
  <2>5. \A u \in Users : records'[f][u] <= Attempts[f] + 1
    BY <1>6, <1>8, <2>2, <2>4
  <2> QED
    BY <1>2, <2>1, <2>3, <2>5 DEF TriesLeft
<1> QED
  BY <1>1, <1>2, <1>3, <1>4, <1>5, <1>9, <1>10 DEF FanoutInv

\* Every step keeps a fan-out within its tries.
LEMMA FanoutStep ==
  ASSUME ReachInv, Alone, NEW f \in Fanouts, FanoutInv(f), [Next]_noticeVars
  PROVE  FanoutInv(f)'
<1>1. TypeOK /\ TypeOK' /\ f \in Notices /\ f \notin Keys
  BY TypeStep, NoticesAssumption DEF ReachInv, Notices
<1>2. Callers \cap Workers = {} /\ Executors = Workers \cup Callers
  BY ExecutorsAssumption DEF Executors
<1>3. ASSUME NEW n \in Notices, DispatchQueued(n)
      PROVE  FanoutInv(f)'
  <2>1. At(f)' = At(f) /\ records' = records /\ work' = work
    BY <1>3 DEF DispatchQueued, At
  <2>2. CASE n # f
    <3>1. queue'[f] = queue[f] /\ dispatched'[f] = dispatched[f]
      BY <1>1, <1>3, <2>2 DEF DispatchQueued, TypeOK
    <3> QED
      BY <1>1, <2>1, <3>1, OtherNotice
  <2>3. CASE n = f
    <3>1. dispatched[f] = 0 /\ dispatched'[f] = 1
      BY <1>1, <1>3, <2>3 DEF DispatchQueued, MayDispatch, TypeOK
    <3>2. Untouched(f)
      BY <3>1 DEF FanoutInv
    <3>3. /\ queue'[f].st = "waiting" /\ queue'[f].made = 0
          /\ queue'[f].stalled = FALSE
      BY <1>1, <1>3, <2>3, <3>2 DEF DispatchQueued, Untouched, NoJob, TypeOK
    <3>4. Attempts[f] \in Nat \ {0}
      BY <1>1, NoticesAssumption
    <3>5. TriesLeft(f)'
      BY <2>1, <3>2, <3>3, <3>4 DEF TriesLeft, Tried, Untouched
    <3>6. At(f)' = {} /\ dispatched'[f] # 0
      BY <2>1, <3>1, <3>2 DEF Untouched
    <3> QED
      BY <3>5, <3>6 DEF FanoutInv
  <2> QED
    BY <2>2, <2>3
<1>4. ASSUME NEW n \in Notices, NEW x \in Executors,
             work' = [work EXCEPT ![x] = Start(n)], ~Busy(work[x]), n # f,
             queue'[f] = queue[f], UNCHANGED records, dispatched'[f] = dispatched[f]
      PROVE  FanoutInv(f)'
  <2>1. At(f)' = At(f) /\ \A y \in At(f) : work'[y] = work[y]
    BY <1>1, <1>4, StartIsFrame DEF At, TypeOK
  <2> QED
    BY <1>1, <1>4, <2>1, OtherNotice
<1>5. ASSUME NEW n \in Notices, NEW x \in Callers, DispatchDirect(x, n)
      PROVE  FanoutInv(f)'
  <2>1. x \in Executors /\ x \notin Workers
    BY <1>2
  <2>2. CASE n # f
    <3>1. queue' = queue /\ dispatched'[f] = dispatched[f] /\ ~Busy(work[x])
      BY <1>1, <1>5, <2>2 DEF DispatchDirect, Begin, TypeOK, Busy
    <3> QED
      BY <1>4, <1>5, <2>1, <2>2, <3>1 DEF DispatchDirect, Begin
  <2>3. CASE n = f
    <3>1. dispatched[f] = 0 /\ dispatched'[f] = 1
      BY <1>1, <1>5, <2>3 DEF DispatchDirect, MayDispatch, TypeOK
    <3>2. Untouched(f) /\ TriesLeft(f)
      BY <3>1 DEF FanoutInv
    <3>3. queue' = queue /\ records' = records
      BY <1>5 DEF DispatchDirect
    <3>4. TriesLeft(f)'
      BY <3>2, <3>3 DEF TriesLeft, Tried
    <3>5. queue'[f].st = IF x \in Workers THEN "active" ELSE "none"
      BY <2>1, <3>2, <3>3 DEF Untouched, NoJob
    <3>6. \A u \in Users : records'[f][u] <= IF x \in Workers THEN Tried(f)' ELSE 0
      BY <2>1, <3>2, <3>3 DEF Untouched
    <3>7. work' = [work EXCEPT ![x] = Start(f)] /\ At(f) = {} /\ dispatched'[f] # 0
      BY <1>5, <2>3, <3>1, <3>2 DEF DispatchDirect, Begin, Untouched
    <3> QED
      BY <1>1, <2>1, <3>4, <3>5, <3>6, <3>7, FanoutStarts
  <2> QED
    BY <2>2, <2>3
<1>6. ASSUME NEW n \in Notices, NEW x \in Workers, TakeJob(x, n)
      PROVE  FanoutInv(f)'
  <2>1. x \in Executors /\ UNCHANGED <<records, dispatched>> /\ ~Busy(work[x])
    BY <1>2, <1>6 DEF TakeJob, Begin, Busy
  <2>2. CASE n # f
    <3>1. queue'[f] = queue[f]
      BY <1>1, <1>6, <2>2 DEF TakeJob, TypeOK
    <3> QED
      BY <1>4, <1>6, <2>1, <2>2, <3>1 DEF TakeJob, Begin
  <2>3. CASE n = f
    <3>1. /\ queue[f].st = "waiting" /\ queue'[f].st = "active"
          /\ queue'[f].made = queue[f].made /\ queue'[f].stalled = queue[f].stalled
      BY <1>1, <1>6, <2>3 DEF TakeJob, TypeOK, QueueJob
    <3>2. At(f) = {}
      BY <3>1 DEF FanoutInv
    <3>3. dispatched'[f] # 0
      BY <2>1, <3>1 DEF FanoutInv, Untouched, NoJob
    <3>4. Tried(f)' = Tried(f)
      BY <3>1 DEF Tried
    <3>5. TriesLeft(f)' /\ \A u \in Users : records'[f][u] <= Tried(f)'
      BY <2>1, <3>1, <3>4 DEF FanoutInv, TriesLeft
    <3> QED
      BY <1>1, <1>6, <2>1, <2>3, <3>1, <3>2, <3>3, <3>5, FanoutStarts DEF TakeJob, Begin
  <2> QED
    BY <2>2, <2>3
<1>7. ASSUME NEW x \in Executors, NEW p \in BusyFrames, p = work[x], p.notice # f,
             UNCHANGED dispatched, records'[f] = records[f], queue'[f] = queue[f],
             NEW q \in NoticeFrame, Busy(q) => q.notice = p.notice,
             work' = [work EXCEPT ![x] = q]
      PROVE  FanoutInv(f)'
  <2>1. At(f)' = At(f) /\ \A y \in At(f) : work'[y] = work[y]
    BY <1>1, <1>7 DEF At, TypeOK
  <2> QED
    BY <1>1, <1>7, <2>1, OtherNotice
<1>8. ASSUME NEW x \in Executors, AbortWork(x)
      PROVE  FanoutInv(f)'
  <2>1. PICK p \in BusyFrames : p = work[x]
    BY <1>1, <1>8, BusyFrame DEF AbortWork, Busy, TypeOK
  <2>2. /\ UNCHANGED <<records, dispatched>> /\ work' = [work EXCEPT ![x] = NoticeIdle]
        /\ p.notice \in Notices
    BY <1>8, <2>1 DEF AbortWork, BusyFrames
  <2>3. CASE p.notice # f
    <3>1. queue'[f] = queue[f]
      BY <1>1, <1>8, <2>1, <2>2, <2>3 DEF AbortWork, TypeOK
    <3> QED
      BY <1>7, <2>1, <2>2, <2>3, <3>1, IdleIsFrame
  <2>4. CASE p.notice = f
    <3>1. x \in At(f)
      BY <2>1, <2>4, BusyFrame DEF At
    <3>2. /\ x \in Workers => queue'[f] \in {Retried(f), Recovered(f)}
          /\ x \notin Workers => queue'[f] = queue[f]
      BY <1>1, <1>2, <1>8, <2>1, <2>4 DEF AbortWork, TypeOK
    <3> QED
      BY <1>1, <2>2, <3>1, <3>2, FanoutStops
  <2> QED
    BY <2>3, <2>4
<1>9. ASSUME NEW x \in Executors, Executes(x)
      PROVE  FanoutInv(f)'
  <2>1. PICK p \in BusyFrames : p = work[x]
    BY <1>1, <1>9, ExecutesMoves
  <2>2. Moves(x) /\ p.notice \in Notices /\ Remembers(p)
    BY <1>1, <1>9, <2>1, ExecutesMoves, BusyFrame DEF BusyFrames, ReachInv
  <2>3. dispatched' = dispatched
    BY <1>9 DEF Executes, LookUpRecord, CheckRecipient, FindUsers, InsertRecords,
       FetchTokens, Push, MarkPushed, CleanTokens
  <2>4. CASE p.notice # f
    <3>1. records'[f] = records[f]
      BY <1>1, <1>9, <2>1, <2>4 DEF Executes, LookUpRecord, CheckRecipient, FindUsers,
         InsertRecords, FetchTokens, Push, MarkPushed, CleanTokens, TypeOK
    <3>2. queue'[f] = queue[f]
      BY <1>1, <2>1, <2>2, <2>4 DEF Moves, Finish, GoOn, TypeOK
    <3>3. PICK q \in NoticeFrame : /\ work' = [work EXCEPT ![x] = q]
                                   /\ Busy(q) => q.notice = p.notice
      BY <2>1, <2>2, IdleIsFrame, BusyFrame DEF Moves, Finish, GoOn
    <3> QED
      BY <1>7, <2>1, <2>3, <2>4, <3>1, <3>2, <3>3
  <2>5. CASE p.notice = f /\ Finish(x)
    <3>1. x \in At(f)
      BY <2>1, <2>5, BusyFrame DEF At
    <3>2. /\ x \in Workers => queue'[f] = NoJob
          /\ x \notin Workers => queue'[f] = queue[f]
      BY <1>1, <2>1, <2>5 DEF Finish, TypeOK
    <3>3. records' = records
      <4>1. ~InsertRecords(x)
        <5>1. ASSUME InsertRecords(x) PROVE FALSE
          <6>1. work'[x] = [p EXCEPT !.pc = "tokens"]
            BY <1>1, <2>1, <5>1 DEF InsertRecords, GoOn, TypeOK
          <6>2. work'[x].pc = "tokens"
            BY <6>1 DEF BusyFrames
          <6> QED
            BY <1>1, <2>5, <6>2 DEF Finish, NoticeIdle, TypeOK
        <5> QED
          BY <5>1
      <4> QED
        BY <1>9, <4>1 DEF Executes, LookUpRecord, CheckRecipient, FindUsers, FetchTokens,
           Push, MarkPushed, CleanTokens
    <3> QED
      BY <1>1, <2>3, <2>5, <3>1, <3>2, <3>3, FanoutStops DEF Finish
  <2>6. CASE p.notice = f /\ \E q \in BusyFrames : q.notice = work[x].notice /\ GoOn(x, q)
    BY <1>1, <1>9, <2>1, <2>2, <2>6, FanoutGoesOn
  <2> QED
    BY <2>2, <2>4, <2>5, <2>6 DEF Moves
<1>10. CASE UNCHANGED <<queue, work, records, dispatched>>
  BY <1>1, <1>10, OtherNotice DEF At
<1> QED
  BY <1>3, <1>5, <1>6, <1>8, <1>9, <1>10
     DEF Next, DeliveryNext, noticeVars, deviceVars, deliveryVars

\* A fan-out, which has no lookup, repeats itself at most as often as it is tried:
\* its attempts, and once more when a worker died, wherever it is executed.
THEOREM FanoutRepeatsBounded == Spec => []FanoutIsBounded
<1> DEFINE Inv == ReachInv /\ Alone /\ \A f \in Fanouts : FanoutInv(f)
<1>1. Init => Inv
  <2> SUFFICES ASSUME Init PROVE Inv
    OBVIOUS
  <2>1. TypeOK /\ \A x \in Executors : ~Busy(work[x])
    BY InitTyped, IdleIsFrame DEF Init
  <2>2. \A n \in Notices : queue[n] = NoJob /\ \A u \in Users : records[n][u] = 0
    BY DEF Init
  <2>3. ASSUME NEW f \in Fanouts
        PROVE  FanoutInv(f)
    <3>1. f \in Notices /\ Attempts[f] \in Nat
      BY NoticesAssumption DEF Notices
    <3> QED
      BY <2>1, <2>2, <3>1 DEF FanoutInv, Untouched, TriesLeft, At, NoJob
  <2> QED
    BY <2>1, <2>3, ExecutorsAssumption
       DEF Init, ReachInv, Alone, CompletedReachesAll, Executors
<1>2. Inv /\ [Next]_noticeVars => Inv'
  BY ReachStep, AloneStep, FanoutStep DEF ReachInv
<1>3. Inv => FanoutIsBounded
  BY DEF FanoutInv, TriesLeft, FanoutIsBounded
<1> QED
  BY <1>1, <1>2, <1>3, PTL DEF Spec


-----------------------------------------------------------------------------
\* The execution q is about to mark a record of n, or will be once it has cleaned.
Owes(q, n) ==
  /\ Busy(q) /\ q.notice = n
  /\ \/ q.pc = "mark"
     \/ q.pc = "clean" /\ n \in Keys /\ q.failed # q.tokens

Owed(n) == {x \in Executors : Owes(work[x], n)}

\* The pushes that stand behind the marks of n: made, or left out for want of
\* credentials.
Pushes(n) == IF initialized THEN reached[n] ELSE skipped[n]

LEMMA PushesAreNumbers ==
  ASSUME TypeOK, NEW n \in Notices
  PROVE  Pushes(n) \in Nat
  BY DEF Pushes, TypeOK

\* The strengthening of PushedWasReceived: every mark made or owed has a push.
PushedInv ==
  TypeOK /\ \A n \in Notices : marked[n] + Cardinality(Owed(n)) <= Pushes(n)

\* A step that gives no executor a new mark to make keeps the balance.
LEMMA NoNewMark ==
  ASSUME PushedInv, TypeOK', NEW n \in Notices, IsFiniteSet(Executors),
         marked'[n] = marked[n], Pushes(n)' >= Pushes(n),
         \A x \in Executors : Owes(work[x], n)' => Owes(work[x], n)
  PROVE  marked'[n] + Cardinality(Owed(n)') <= Pushes(n)'
<1>1. IsFiniteSet(Owed(n)) /\ Owed(n)' \subseteq Owed(n)
  BY FS_Subset DEF Owed
<1>2. IsFiniteSet(Owed(n)') /\ Cardinality(Owed(n)') <= Cardinality(Owed(n))
  BY <1>1, FS_Subset
<1>3. Cardinality(Owed(n)) \in Nat /\ Cardinality(Owed(n)') \in Nat
  BY <1>1, <1>2, FS_CardinalityType
<1>4. marked[n] \in Nat /\ Pushes(n) \in Nat /\ Pushes(n)' \in Nat
  BY PushesAreNumbers DEF PushedInv, TypeOK, Pushes
<1> QED
  BY <1>2, <1>3, <1>4 DEF PushedInv

\* A push that reached a device pays for one more mark.
LEMMA PaidMark ==
  ASSUME PushedInv, TypeOK', NEW n \in Notices, IsFiniteSet(Executors),
         NEW x \in Executors, marked'[n] = marked[n], Pushes(n)' = Pushes(n) + 1,
         \A y \in Executors \ {x} : Owes(work[y], n)' => Owes(work[y], n)
  PROVE  marked'[n] + Cardinality(Owed(n)') <= Pushes(n)'
<1>1. IsFiniteSet(Owed(n)) /\ Owed(n)' \subseteq Owed(n) \cup {x}
  BY FS_Subset DEF Owed
<1>2. /\ IsFiniteSet(Owed(n) \cup {x})
      /\ Cardinality(Owed(n) \cup {x}) =
           IF x \in Owed(n) THEN Cardinality(Owed(n)) ELSE Cardinality(Owed(n)) + 1
  BY <1>1, FS_AddElement
<1>3. /\ IsFiniteSet(Owed(n)')
      /\ Cardinality(Owed(n)') <= Cardinality(Owed(n) \cup {x})
  BY <1>1, <1>2, FS_Subset
<1>4. Cardinality(Owed(n)) \in Nat /\ Cardinality(Owed(n)') \in Nat
  BY <1>1, <1>3, FS_CardinalityType
<1>5. marked[n] \in Nat /\ Pushes(n) \in Nat
  BY PushesAreNumbers DEF PushedInv, TypeOK
<1> QED
  BY <1>2, <1>3, <1>4, <1>5 DEF PushedInv

\* A mark that is made is owed no longer.
LEMMA MadeMark ==
  ASSUME PushedInv, TypeOK', NEW n \in Notices, IsFiniteSet(Executors),
         NEW x \in Owed(n), marked'[n] = marked[n] + 1, Pushes(n)' = Pushes(n),
         ~Owes(work[x], n)',
         \A y \in Executors \ {x} : Owes(work[y], n)' => Owes(work[y], n)
  PROVE  marked'[n] + Cardinality(Owed(n)') <= Pushes(n)'
<1>1. IsFiniteSet(Owed(n)) /\ Owed(n)' \subseteq Owed(n) \ {x}
  BY FS_Subset DEF Owed
<1>2. /\ IsFiniteSet(Owed(n) \ {x})
      /\ Cardinality(Owed(n) \ {x}) = Cardinality(Owed(n)) - 1
  BY <1>1, FS_RemoveElement
<1>3. /\ IsFiniteSet(Owed(n)')
      /\ Cardinality(Owed(n)') <= Cardinality(Owed(n) \ {x})
  BY <1>1, <1>2, FS_Subset
<1>4. Cardinality(Owed(n)) \in Nat /\ Cardinality(Owed(n)') \in Nat
  BY <1>1, <1>3, FS_CardinalityType
<1>5. marked[n] \in Nat /\ Pushes(n) \in Nat
  BY PushesAreNumbers DEF PushedInv, TypeOK
<1> QED
  BY <1>2, <1>3, <1>4, <1>5 DEF PushedInv

\* After a push, only an execution of a key that reached a device owes a mark.
LEMMA AfterPushOwes ==
  ASSUME TypeOK, NEW x \in Executors, NEW p \in BusyFrames, p = work[x],
         NEW failed \in SUBSET Tokens, AfterPush(x, failed),
         NEW n \in Notices, Owes(work[x], n)'
  PROVE  n = p.notice /\ n \in Keys /\ failed # p.tokens
<1> DEFINE g == [p EXCEPT !.failed = failed]
           m == [g EXCEPT !.pc = "mark"]
<1>1. /\ g.todo = p.todo /\ g.notice = p.notice /\ g.tokens = p.tokens
      /\ m.notice = p.notice /\ p.todo \in SUBSET Users
  BY DEF BusyFrames
<1>2. CASE NextChunk(x, p.todo)
  <2>1. [p EXCEPT !.pc = "users", !.todo = p.todo].pc = "users"
    BY DEF BusyFrames
  <2>2. work'[x] = NoticeIdle \/ work'[x].pc = "users"
    BY <1>2, <2>1 DEF NextChunk, Finish, GoOn, TypeOK
  <2> QED
    BY <2>2, IdleIsFrame DEF Owes
<1>3. CASE p.notice \in Keys /\ failed # p.tokens /\ GoOn(x, m)
  <2>1. work'[x] = m
    BY <1>3 DEF GoOn, TypeOK
  <2> QED
    BY <1>1, <1>3, <2>1 DEF Owes
<1> QED
  BY <1>1, <1>2, <1>3 DEF AfterPush

\* Every step keeps the balance of marks and pushes.
LEMMA PushedStep ==
  ASSUME IsFiniteSet(Executors), PushedInv, [Next]_noticeVars
  PROVE  PushedInv'
<1>1. TypeOK /\ TypeOK'
  BY TypeStep DEF PushedInv
<1>2. ASSUME UNCHANGED <<initialized, marked, reached, skipped>>, NEW n \in Notices,
             \A x \in Executors : Owes(work[x], n)' => Owes(work[x], n)
      PROVE  marked'[n] + Cardinality(Owed(n)') <= Pushes(n)'
  <2>1. marked'[n] = marked[n] /\ Pushes(n)' >= Pushes(n)
    BY <1>1, <1>2, PushesAreNumbers DEF Pushes
  <2> QED
    BY <1>1, <1>2, <2>1, NoNewMark
<1>3. ASSUME UNCHANGED <<initialized, marked, reached, skipped>>, NEW x \in Executors,
             NEW f, work' = [work EXCEPT ![x] = f],
             \A n \in Notices : Owes(f, n) => Owes(work[x], n)
      PROVE  PushedInv'
  <2>1. \A n \in Notices, y \in Executors : Owes(work[y], n)' => Owes(work[y], n)
    BY <1>1, <1>3 DEF TypeOK, Owes
  <2> QED
    BY <1>1, <1>2, <1>3, <2>1 DEF PushedInv
<1>4. CASE UNCHANGED <<initialized, marked, reached, skipped, work>>
  <2>1. \A n \in Notices, y \in Executors : Owes(work[y], n)' => Owes(work[y], n)
    BY <1>4 DEF Owes
  <2> QED
    BY <1>1, <1>2, <1>4, <2>1 DEF PushedInv
<1>5. ASSUME NEW m \in Notices, NEW x \in Executors, DispatchDirect(x, m) \/ TakeJob(x, m),
             UNCHANGED initialized
      PROVE  PushedInv'
  <2>1. \A n \in Notices : ~Owes(Start(m), n)
    BY DEF Owes, Start
  <2> QED
    BY <1>3, <1>5, <2>1 DEF DispatchDirect, TakeJob, Begin
<1>6. ASSUME NEW x \in Executors, AbortWork(x), UNCHANGED initialized
      PROVE  PushedInv'
  BY <1>3, <1>6, IdleIsFrame DEF AbortWork, Owes
<1>7. ASSUME NEW x \in Executors, Executes(x)
      PROVE  PushedInv'
  <2>1. PICK p \in BusyFrames : p = work[x]
    BY <1>1, <1>7, ExecutesMoves
  <2>2. Moves(x) /\ p.notice \in Notices /\ p.failed \in SUBSET Tokens
        /\ p.tokens \in SUBSET Tokens
    BY <1>1, <1>7, <2>1, ExecutesMoves DEF BusyFrames
  <2>3. PICK f \in NoticeFrame :
          /\ work' = [work EXCEPT ![x] = f]
          /\ work'[x] = f
          /\ \A y \in Executors \ {x} : work'[y] = work[y]
          /\ \A n \in Notices : Owes(f, n) => n = p.notice
    <3>1. PICK f \in NoticeFrame : /\ work' = [work EXCEPT ![x] = f]
                                   /\ Busy(f) => f.notice = p.notice
      BY <2>1, <2>2, IdleIsFrame, BusyFrame DEF Moves, Finish, GoOn
    <3> QED
      BY <1>1, <3>1 DEF TypeOK, Owes
  <2>4. \A n \in Notices, y \in Executors \ {x} : Owes(work[y], n)' => Owes(work[y], n)
    BY <2>3 DEF Owes
  <2>5. CASE LookUpRecord(x) \/ CheckRecipient(x) \/ InsertRecords(x)
    <3>1. \A pc \in {"recipient", "insert", "tokens"} : [p EXCEPT !.pc = pc].pc = pc
      BY DEF BusyFrames
    <3>2. f = NoticeIdle \/ f.pc \in {"recipient", "insert", "tokens"}
      BY <1>1, <2>1, <2>3, <2>5, <3>1 DEF LookUpRecord, CheckRecipient, InsertRecords,
         Finish, GoOn, TypeOK
    <3>3. \A n \in Notices : ~Owes(f, n)
      BY <3>2, IdleIsFrame DEF Owes
    <3>4. UNCHANGED <<initialized, marked, reached, skipped>>
      BY <1>7, <2>5 DEF LookUpRecord, CheckRecipient, InsertRecords, Executes
    <3> QED
      BY <1>3, <2>3, <3>3, <3>4
  <2>6. CASE FindUsers(x) \/ FetchTokens(x)
    <3>1. ASSUME NEW todo \in SUBSET Users, NextChunk(x, todo)
          PROVE  f = NoticeIdle \/ f.pc = "users"
      <4>1. f = NoticeIdle \/ f = [p EXCEPT !.pc = "users", !.todo = todo]
        BY <1>1, <2>1, <2>3, <3>1 DEF NextChunk, Finish, GoOn, TypeOK
      <4> QED
        BY <4>1 DEF BusyFrames
    <3>2. f = NoticeIdle \/ f.pc \in {"users", "push", "insert"}
      <4>1. CASE FindUsers(x)
        <5>1. PICK chunk \in SUBSET p.todo :
                \/ NextChunk(x, p.todo \ chunk)
                \/ GoOn(x, [p EXCEPT !.pc = "insert", !.todo = p.todo \ chunk,
                                     !.to = chunk \ Unreachable])
          BY <2>1, <4>1 DEF FindUsers
        <5>2. [p EXCEPT !.pc = "insert", !.todo = p.todo \ chunk,
                        !.to = chunk \ Unreachable].pc = "insert"
          BY DEF BusyFrames
        <5>3. p.todo \ chunk \in SUBSET Users
          BY DEF BusyFrames
        <5> QED
          BY <1>1, <2>3, <3>1, <5>1, <5>2, <5>3 DEF GoOn, TypeOK
      <4>2. CASE FetchTokens(x)
        <5>1. PICK tokens \in SUBSET Tokens :
                \/ NextChunk(x, p.todo)
                \/ GoOn(x, [p EXCEPT !.pc = "push", !.tokens = tokens])
          BY <2>1, <4>2 DEF FetchTokens, ActiveTokens
        <5>2. [p EXCEPT !.pc = "push", !.tokens = tokens].pc = "push"
          BY DEF BusyFrames
        <5>3. p.todo \in SUBSET Users
          BY DEF BusyFrames
        <5> QED
          BY <1>1, <2>3, <3>1, <5>1, <5>2, <5>3 DEF GoOn, TypeOK
      <4> QED
        BY <2>6, <4>1, <4>2
    <3>3. \A n \in Notices : ~Owes(f, n)
      BY <3>2, IdleIsFrame DEF Owes
    <3>4. UNCHANGED <<initialized, marked, reached, skipped>>
      BY <1>7, <2>6 DEF FindUsers, FetchTokens, Executes
    <3> QED
      BY <1>3, <2>3, <3>3, <3>4
  <2>7. CASE Push(x)
    <3>1. PICK failed \in SUBSET p.tokens :
            /\ IF failed = p.tokens THEN UNCHANGED <<reached, skipped>>
               ELSE IF initialized
                 THEN reached' = CountOne(reached, p.notice) /\ UNCHANGED skipped
               ELSE skipped' = CountOne(skipped, p.notice) /\ UNCHANGED reached
            /\ \/ AfterPush(x, failed)
               \/ GoOn(x, [p EXCEPT !.pc = "clean", !.failed = failed])
      BY <2>1, <2>7 DEF Push
    <3>2. failed \in SUBSET Tokens /\ UNCHANGED <<initialized, marked>>
      BY <1>7, <2>2, <2>7 DEF Push, Executes
    <3>3. ASSUME NEW n \in Notices, Owes(f, n)
          PROVE  n = p.notice /\ failed # p.tokens
      <4>1. CASE AfterPush(x, failed)
        <5>1. Owes(work[x], n)'
          BY <2>3, <3>3 DEF Owes
        <5> QED
          BY <1>1, <2>1, <3>2, <4>1, <5>1, AfterPushOwes
      <4>2. CASE GoOn(x, [p EXCEPT !.pc = "clean", !.failed = failed])
        <5>1. f = [p EXCEPT !.pc = "clean", !.failed = failed]
          BY <1>1, <2>3, <4>2 DEF GoOn, TypeOK
        <5>2. f.pc = "clean" /\ f.failed = failed /\ f.tokens = p.tokens
          BY <5>1 DEF BusyFrames
        <5> QED
          BY <2>3, <3>3, <5>2 DEF Owes
      <4> QED
        BY <3>1, <4>1, <4>2
    <3>4. CASE failed = p.tokens
      BY <1>3, <2>3, <3>1, <3>2, <3>3, <3>4
    <3>5. CASE failed # p.tokens
      <4>1. ASSUME NEW n \in Notices
            PROVE  marked'[n] + Cardinality(Owed(n)') <= Pushes(n)'
        <5>1. CASE n = p.notice
          <6>1. Pushes(n)' = Pushes(n) + 1 /\ marked'[n] = marked[n]
            BY <1>1, <3>1, <3>2, <3>5, <5>1 DEF TypeOK, Pushes, CountOne
          <6> QED
            BY <1>1, <2>4, <6>1, PaidMark
        <5>2. CASE n # p.notice
          <6>1. Pushes(n)' = Pushes(n) /\ marked'[n] = marked[n] /\ Pushes(n) \in Nat
            BY <1>1, <3>1, <3>2, <3>5, <5>2, PushesAreNumbers DEF TypeOK, Pushes, CountOne
          <6>2. \A y \in Executors : Owes(work[y], n)' => Owes(work[y], n)
            BY <2>3, <2>4, <3>3, <5>2 DEF Owes
          <6> QED
            BY <1>1, <6>1, <6>2, NoNewMark
        <5> QED
          BY <5>1, <5>2
      <4> QED
        BY <1>1, <4>1 DEF PushedInv
    <3> QED
      BY <3>4, <3>5
  <2>8. CASE CleanTokens(x)
    <3>1. p.pc = "clean" /\ AfterPush(x, p.failed) /\ UNCHANGED <<initialized, marked, reached, skipped>>
      BY <1>7, <2>1, <2>8 DEF CleanTokens, Executes
    <3>2. ASSUME NEW n \in Notices, Owes(f, n)
          PROVE  Owes(work[x], n)
      <4>1. Owes(work[x], n)'
        BY <2>3, <3>2 DEF Owes
      <4>2. n = p.notice /\ n \in Keys /\ p.failed # p.tokens
        BY <1>1, <2>1, <2>2, <3>1, <4>1, AfterPushOwes
      <4> QED
        BY <2>1, <3>1, <4>2, BusyFrame DEF Owes
    <3> QED
      BY <1>3, <2>3, <3>1, <3>2
  <2>9. CASE MarkPushed(x)
    <3>1. /\ p.pc = "mark" /\ UNCHANGED <<initialized, reached, skipped>>
          /\ marked' = [marked EXCEPT ![p.notice] = @ + 1] /\ f = NoticeIdle
      BY <1>1, <1>7, <2>1, <2>3, <2>9 DEF MarkPushed, Finish, TypeOK, Executes
    <3>2. ~Owes(work[x], p.notice)'
      BY <2>3, <3>1, IdleIsFrame DEF Owes
    <3>3. ASSUME NEW n \in Notices
          PROVE  marked'[n] + Cardinality(Owed(n)') <= Pushes(n)'
      <4>1. CASE n = p.notice
        <5>1. x \in Owed(n) /\ marked'[n] = marked[n] + 1 /\ Pushes(n)' = Pushes(n)
          BY <1>1, <2>1, <3>1, <4>1, BusyFrame DEF Owed, Owes, TypeOK, Pushes
        <5>2. ~Owes(work[x], n)'
          BY <3>2, <4>1
        <5> QED
          BY <1>1, <2>4, <5>1, <5>2, MadeMark
      <4>2. CASE n # p.notice
        <5>1. Pushes(n)' = Pushes(n) /\ marked'[n] = marked[n] /\ Pushes(n) \in Nat
          BY <1>1, <3>1, <4>2, PushesAreNumbers DEF TypeOK, Pushes
        <5>2. \A y \in Executors : Owes(work[y], n)' => Owes(work[y], n)
          BY <2>3, <2>4, <4>2 DEF Owes
        <5> QED
          BY <1>1, <5>1, <5>2, NoNewMark
      <4> QED
        BY <4>1, <4>2
    <3> QED
      BY <1>1, <3>3 DEF PushedInv
  <2> QED
    BY <1>7, <2>5, <2>6, <2>7, <2>8, <2>9 DEF Executes
<1>8. ASSUME NEW m \in Notices, DispatchQueued(m), UNCHANGED initialized
      PROVE  PushedInv'
  BY <1>4, <1>8 DEF DispatchQueued
<1> QED
  BY <1>4, <1>5, <1>6, <1>7, <1>8
     DEF Next, DeliveryNext, noticeVars, deviceVars, deliveryVars, Executors

\* No more records of a notice are marked as pushed than pushes of it reached a
\* device, or were left out where Firebase has no credentials, for any number of
\* executors at it at once.
THEOREM MarksArePushes ==
  ASSUME IsFiniteSet(Executors)
  PROVE  Spec => []PushedWasReceived
<1>1. Init => PushedInv
  <2> SUFFICES ASSUME Init PROVE PushedInv
    OBVIOUS
  <2>1. TypeOK /\ \A x \in Executors : ~Busy(work[x])
    BY InitTyped, IdleIsFrame DEF Init
  <2>2. ASSUME NEW n \in Notices
        PROVE  marked[n] + Cardinality(Owed(n)) <= Pushes(n)
    <3>1. Owed(n) = {}
      BY <2>1 DEF Owed, Owes
    <3>2. marked[n] = 0 /\ Pushes(n) = 0
      BY DEF Init, Pushes
    <3> QED
      BY <3>1, <3>2, FS_EmptySet
  <2> QED
    BY <2>1, <2>2 DEF PushedInv
<1>2. PushedInv /\ [Next]_noticeVars => PushedInv'
  BY PushedStep
<1>3. PushedInv => PushedWasReceived
  <2> SUFFICES ASSUME PushedInv, NEW n \in Notices PROVE marked[n] <= Pushes(n)
    BY DEF PushedWasReceived, Pushes
  <2>1. IsFiniteSet(Owed(n))
    BY FS_Subset DEF Owed
  <2>2. Cardinality(Owed(n)) \in Nat
    BY <2>1, FS_CardinalityType
  <2> QED
    BY <2>2, PushesAreNumbers DEF PushedInv, TypeOK
<1> QED
  BY <1>1, <1>2, <1>3, PTL DEF Spec


-----------------------------------------------------------------------------
\* For a token that is not contested, the registrations under way are of one user.
RegistrationsApart ==
  \A q, r \in DevReq :
    /\ dreq[q].pc # "idle" /\ dreq[r].pc # "idle"
    /\ dreq[q].token = dreq[r].token /\ dreq[r].token \notin contested
    => dreq[q].user = dreq[r].user

\* The strengthening of OneOwner: while such a registration is under way, no other
\* user has its token.
OwnerInv ==
  /\ DevicesTypeOK
  /\ OneOwner
  /\ RegistrationsApart
  /\ \A r \in DevReq : dreq[r].pc # "idle" /\ dreq[r].token \notin contested =>
       \A v \in Users \ {dreq[r].user} : device[v][dreq[r].token] # "active"

\* Nobody becomes the owner of a token.
NoNewOwner ==
  \A v \in Users, t \in Tokens : device'[v][t] = "active" => device[v][t] = "active"

\* A registration goes on with its token, or ends.
GoesOn(q) ==
  \/ dreq'[q] = dreq[q]
  \/ dreq'[q].pc = "idle"
  \/ /\ dreq[q].pc # "idle"
     /\ dreq'[q].user = dreq[q].user /\ dreq'[q].token = dreq[q].token

\* A deactivation, whatever rows it hits, makes nobody an owner and leaves none of
\* those rows active.
LEMMA DeactivatedOwns ==
  ASSUME DevicesTypeOK, NEW S, device' = Deactivated(S)
  PROVE  NoNewOwner /\ \A v \in Users, t \in Tokens :
                         <<v, t>> \in S => device'[v][t] # "active"
  BY DEF DevicesTypeOK, Deactivated, NoNewOwner

\* Registrations that go on stay apart.
LEMMA ApartStays ==
  ASSUME RegistrationsApart, UNCHANGED contested, \A q \in DevReq : GoesOn(q)
  PROVE  RegistrationsApart'
<1>1. SUFFICES ASSUME NEW q \in DevReq, NEW r \in DevReq,
                      dreq'[q].pc # "idle", dreq'[r].pc # "idle",
                      dreq'[q].token = dreq'[r].token, dreq'[r].token \notin contested
               PROVE  dreq'[q].user = dreq'[r].user
  BY DEF RegistrationsApart
<1>2. dreq[q].pc # "idle" /\ dreq'[q].user = dreq[q].user /\ dreq'[q].token = dreq[q].token
  BY <1>1 DEF GoesOn
<1>3. dreq[r].pc # "idle" /\ dreq'[r].user = dreq[r].user /\ dreq'[r].token = dreq[r].token
  BY <1>1 DEF GoesOn
<1> QED
  BY <1>1, <1>2, <1>3 DEF RegistrationsApart

\* A token that is not contested keeps one owner.
LEMMA OwnerStep ==
  ASSUME TypeOK, OwnerInv, [Next]_noticeVars
  PROVE  OwnerInv'
<1>1. TypeOK' /\ DevicesTypeOK /\ DevicesTypeOK'
  BY TypeStep DEF TypeOK
<1>2. ASSUME NoNewOwner, UNCHANGED contested, \A q \in DevReq : GoesOn(q)
      PROVE  OwnerInv'
  <2>1. OneOwner'
    BY <1>2 DEF NoNewOwner, OwnerInv, OneOwner
  <2>2. ASSUME NEW q \in DevReq, dreq'[q].pc # "idle", dreq'[q].token \notin contested,
               NEW v \in Users \ {dreq'[q].user}
        PROVE  device'[v][dreq'[q].token] # "active"
    <3>1. /\ dreq[q].pc # "idle"
          /\ dreq'[q].user = dreq[q].user /\ dreq'[q].token = dreq[q].token
      BY <1>2, <2>2 DEF GoesOn
    <3>2. dreq[q].token \in Tokens
      BY <1>1, <3>1 DEF DevicesTypeOK, DeviceFrame
    <3> QED
      BY <1>2, <2>2, <3>1, <3>2 DEF NoNewOwner, OwnerInv
  <2>3. RegistrationsApart'
    BY <1>2, ApartStays DEF OwnerInv
  <2> QED
    BY <1>1, <1>2, <2>1, <2>2, <2>3 DEF OwnerInv
<1>3. CASE UNCHANGED deviceVars
  BY <1>2, <1>3 DEF deviceVars, NoNewOwner, GoesOn
<1>4. ASSUME NEW x \in Executors, CleanTokens(x)
      PROVE  OwnerInv'
  BY <1>1, <1>2, <1>4, DeactivatedOwns DEF CleanTokens, GoesOn
<1>5. ASSUME NEW S, Unregister(S)
      PROVE  OwnerInv'
  BY <1>1, <1>2, <1>5, DeactivatedOwns DEF Unregister, GoesOn
<1>6. ASSUME NEW r \in DevReq, NEW u \in Users, NEW t \in Tokens, BeginRegister(r, u, t)
      PROVE  OwnerInv'
  <2>1. /\ NoNewOwner
        /\ \A v \in Users \ {u} : device'[v][t] # "active"
    <3>1. device' = Deactivated((Users \ {u}) \X {t})
      BY <1>6 DEF BeginRegister
    <3>2. \A v \in Users \ {u} : <<v, t>> \in (Users \ {u}) \X {t}
      OBVIOUS
    <3> QED
      BY <1>1, <3>1, <3>2, DeactivatedOwns
  <2>2. /\ dreq'[r].user = u /\ dreq'[r].token = t
        /\ \A q \in DevReq \ {r} : dreq'[q] = dreq[q]
        /\ dreq[r].pc = "idle"
    BY <1>1, <1>6 DEF BeginRegister, Arrive, DevicesTypeOK
  <2>3. /\ \A s \in Tokens \ {t} : s \in contested' <=> s \in contested
        /\ t \notin contested' =>
             \A q \in DevReq : dreq[q].pc # "idle" /\ dreq[q].token = t => dreq[q].user = u
    BY <1>6 DEF BeginRegister, Arrive
  <2>4. OneOwner'
    <3>1. SUFFICES ASSUME NEW s \in Tokens, s \notin contested', NEW v \in Users,
                          NEW w \in Users, device'[v][s] = "active", device'[w][s] = "active"
                   PROVE  v = w
      BY DEF OneOwner
    <3>2. CASE s = t
      BY <2>1, <3>1, <3>2
    <3>3. CASE s # t
      BY <2>1, <2>3, <3>1, <3>3 DEF NoNewOwner, OwnerInv, OneOwner
    <3> QED
      BY <3>2, <3>3
  <2>5. \A q \in DevReq : dreq'[q].pc # "idle" => dreq'[q].token \in Tokens
    BY <1>1 DEF DevicesTypeOK, DeviceFrame
  <2>6. ASSUME NEW q \in DevReq, dreq'[q].pc # "idle", dreq'[q].token \notin contested',
               NEW v \in Users \ {dreq'[q].user}
        PROVE  device'[v][dreq'[q].token] # "active"
    <3>1. CASE q = r
      BY <2>1, <2>2, <2>6, <3>1
    <3>2. CASE q # r
      <4>1. dreq'[q] = dreq[q]
        BY <2>2, <3>2
      <4>2. CASE dreq[q].token = t
        BY <2>1, <2>3, <2>6, <4>1, <4>2
      <4>3. CASE dreq[q].token # t
        <5>1. dreq[q].token \in Tokens /\ dreq[q].token \notin contested
          BY <2>3, <2>5, <2>6, <4>1, <4>3
        <5>2. device[v][dreq[q].token] # "active"
          BY <2>6, <4>1, <5>1 DEF OwnerInv
        <5> QED
          BY <2>1, <4>1, <5>1, <5>2 DEF NoNewOwner
      <4> QED
        BY <4>2, <4>3
    <3> QED
      BY <3>1, <3>2
  <2>7. RegistrationsApart'
    <3>1. SUFFICES ASSUME NEW q \in DevReq, NEW s \in DevReq,
                          dreq'[q].pc # "idle", dreq'[s].pc # "idle",
                          dreq'[q].token = dreq'[s].token, dreq'[s].token \notin contested'
                   PROVE  dreq'[q].user = dreq'[s].user
      BY DEF RegistrationsApart
    <3>2. CASE dreq'[s].token = t
      <4>1. dreq'[q].user = u
        BY <2>2, <2>3, <3>1, <3>2
      <4>2. dreq'[s].user = u
        BY <2>2, <2>3, <3>1, <3>2
      <4> QED
        BY <4>1, <4>2
    <3>3. CASE dreq'[s].token # t
      <4>1. q # r /\ s # r
        BY <2>2, <3>1, <3>3
      <4>2. dreq'[q] = dreq[q] /\ dreq'[s] = dreq[s]
        BY <2>2, <4>1
      <4>3. dreq[s].token \notin contested
        BY <2>3, <2>5, <3>1, <3>3, <4>2
      <4> QED
        BY <3>1, <4>2, <4>3 DEF OwnerInv, RegistrationsApart
    <3> QED
      BY <3>2, <3>3
  <2> QED
    BY <1>1, <2>4, <2>6, <2>7 DEF OwnerInv
<1>7. ASSUME NEW r \in DevReq, dreq[r].pc # "idle", UNCHANGED contested,
             device' = Activated(dreq[r].user, dreq[r].token),
             dreq'[r].pc = "idle", \A q \in DevReq \ {r} : dreq'[q] = dreq[q]
      PROVE  OwnerInv'
  <2>1. PICK u \in Users, t \in Tokens : u = dreq[r].user /\ t = dreq[r].token
    BY <1>1, <1>7 DEF DevicesTypeOK, DeviceFrame
  <2>2. \A v \in Users, s \in Tokens :
          device'[v][s] = IF v = u /\ s = t THEN "active" ELSE device[v][s]
    BY <1>1, <1>7, <2>1 DEF Activated, DevicesTypeOK
  <2>3. t \notin contested => \A v \in Users \ {u} : device[v][t] # "active"
    BY <1>7, <2>1 DEF OwnerInv
  <2>4. OneOwner'
    BY <1>7, <2>2, <2>3 DEF OwnerInv, OneOwner
  <2>5. ASSUME NEW q \in DevReq, dreq'[q].pc # "idle", dreq'[q].token \notin contested,
               NEW v \in Users \ {dreq'[q].user}
        PROVE  device'[v][dreq'[q].token] # "active"
    <3>1. dreq'[q] = dreq[q] /\ dreq[q].pc # "idle"
      BY <1>7, <2>5
    <3>2. dreq[q].token \in Tokens
      BY <1>1, <3>1 DEF DevicesTypeOK, DeviceFrame
    <3>3. dreq[q].token = t => dreq[q].user = u
      BY <1>7, <2>1, <2>5, <3>1 DEF OwnerInv, RegistrationsApart
    <3>4. device[v][dreq[q].token] # "active"
      BY <2>5, <3>1 DEF OwnerInv
    <3> QED
      BY <2>2, <2>5, <3>1, <3>2, <3>3, <3>4
  <2>6. RegistrationsApart'
    BY <1>7, ApartStays DEF OwnerInv, GoesOn
  <2> QED
    BY <1>1, <1>7, <2>4, <2>5, <2>6 DEF OwnerInv
<1>8. ASSUME NEW r \in DevReq, InsertDevice(r) \/ SaveWriteDevice(r)
      PROVE  OwnerInv'
  <2>1. /\ dreq[r].pc # "idle" /\ dreq'[r].pc = "idle" /\ UNCHANGED contested
        /\ \A q \in DevReq \ {r} : dreq'[q] = dreq[q]
    BY <1>1, <1>8 DEF InsertDevice, SaveWriteDevice, DevicesTypeOK, DeviceIdle
  <2>2. device' = device \/ device' = Activated(dreq[r].user, dreq[r].token)
    BY <1>8 DEF InsertDevice, SaveWriteDevice
  <2>3. CASE device' = device
    <3>1. NoNewOwner
      BY <2>3 DEF NoNewOwner
    <3> QED
      BY <1>2, <2>1, <3>1 DEF GoesOn
  <2>4. CASE device' = Activated(dreq[r].user, dreq[r].token)
    BY <1>7, <2>1, <2>4
  <2> QED
    BY <2>2, <2>3, <2>4
<1>9. ASSUME NEW r \in DevReq, FindDevice(r) \/ SaveReadDevice(r)
      PROVE  OwnerInv'
  <2>1. device' = device /\ contested' = contested
    BY <1>9 DEF FindDevice, SaveReadDevice
  <2>2. dreq[r] \in [pc : {"find", "insert", "save", "write"}, user : Users, token : Tokens]
    BY <1>1, <1>9 DEF DevicesTypeOK, DeviceFrame, FindDevice, SaveReadDevice
  <2>3. dreq'[r].pc = "idle" \/
        (dreq'[r].user = dreq[r].user /\ dreq'[r].token = dreq[r].token)
    BY <1>1, <1>9, <2>2 DEF FindDevice, SaveReadDevice, DeviceIdle, DevicesTypeOK
  <2>4. dreq[r].pc # "idle" /\ \A q \in DevReq \ {r} : dreq'[q] = dreq[q]
    BY <1>1, <1>9, <2>2 DEF FindDevice, SaveReadDevice, DevicesTypeOK
  <2>5. NoNewOwner
    BY <2>1 DEF NoNewOwner
  <2> QED
    BY <1>2, <2>1, <2>3, <2>4, <2>5 DEF GoesOn
<1>10. ASSUME NEW r \in DevReq, AbortDevice(r)
       PROVE  OwnerInv'
  BY <1>1, <1>2, <1>10 DEF AbortDevice, NoNewOwner, DevicesTypeOK, DeviceIdle, GoesOn
<1>11. CASE DevicesNext
  BY <1>5, <1>6, <1>8, <1>9, <1>10, <1>11 DEF DevicesNext
<1> QED
  BY <1>3, <1>4, <1>11 DEF Next, DeliveryNext, Executes, noticeVars, deviceVars

\* A device whose last registration began with no other user registering it has at
\* most one active owner, for any number of registrations, overlapping ones of the
\* same user included, whatever is unregistered, refused by Firebase or abandoned
\* between their awaits, and whatever registrations overlapped before.
THEOREM OneOwnerEach == Spec => []OneOwner
<1>1. Init => TypeOK /\ OwnerInv
  <2> SUFFICES ASSUME Init PROVE TypeOK /\ OwnerInv
    OBVIOUS
  <2>1. TypeOK
    BY InitTyped
  <2>2. /\ \A u \in Users, t \in Tokens : device[u][t] = "none"
        /\ \A s \in DevReq : dreq[s].pc = "idle"
    BY DEF Init, DevicesInit, DeviceIdle
  <2> QED
    BY <2>1, <2>2 DEF OwnerInv, OneOwner, RegistrationsApart, TypeOK
<1>2. TypeOK /\ OwnerInv /\ [Next]_noticeVars => (TypeOK /\ OwnerInv)'
  BY OwnerStep, TypeStep
<1>3. OwnerInv => OneOwner
  BY DEF OwnerInv
<1> QED
  BY <1>1, <1>2, <1>3, PTL DEF Spec
=============================================================================
