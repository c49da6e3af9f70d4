---------------------------- MODULE Notifications ----------------------------
(***************************************************************************)
(* NotificationsService: from a dispatch to the record in the recipient's  *)
(* list and the push on his devices.                                       *)
(*                                                                         *)
(* A notice is what a dispatch hands over.  A key is the job id            *)
(* (type, reference, recipient) of dispatchP1 and dispatchP3; a fan-out is *)
(* one call of dispatchFanoutP3 with more than ten recipients.  BullMQ     *)
(* keeps at most one job per id; it retries a job that fails until its     *)
(* attempts are used up, and puts a job back, once, when its worker died.  *)
(* Where the queue is off or refuses the job, the caller executes it.      *)
(*                                                                         *)
(* The table of records is reduced to how many rows a notice has for each  *)
(* user and how many of them are marked as pushed.                         *)
(***************************************************************************)
EXTENDS Devices, Naturals, FiniteSets

CONSTANTS
  Keys, Fanouts,
  Recipients,    \* the recipients of a notice: one user for a key
  NoRef,         \* keys without a reference, as announcements have
  Unreachable,   \* users that are blocked or gone
  Attempts,      \* 3 for P1, 2 for P3 and fan-outs
  ChunkSize,     \* chunkSize of a fan-out
  Workers,       \* workers of the two queues, each with one job at a time
  Serves,        \* the notices in the queue of a worker
  Callers,       \* requests that execute a notice themselves
  Enqueue,       \* what queue.add may answer: "ok", "rejects"
  MaxDispatch,   \* bound: dispatches of a key
  MaxRecords     \* bound: rows of a notice for one user

Notices == Keys \cup Fanouts
Executors == Workers \cup Callers

ASSUME NoticesAssumption ==
  /\ Keys \cap Fanouts = {}
  /\ Recipients \in [Notices -> SUBSET Users]
  /\ \A k \in Keys : \E u \in Users : Recipients[k] = {u}
  /\ \A f \in Fanouts : Recipients[f] # {} /\ IsFiniteSet(Recipients[f])
  /\ Attempts \in [Notices -> Nat \ {0}]
  /\ NoRef \subseteq Keys
ASSUME ExecutorsAssumption ==
  /\ Workers \cap Callers = {}
  /\ Serves \in [Workers -> SUBSET Notices]
ASSUME BoundsAssumption ==
  ChunkSize \in Nat \ {0} /\ MaxDispatch \in Nat /\ MaxRecords \in Nat

VARIABLES
  initialized,   \* Firebase has its credentials; fixed at the start
  queue,         \* BullMQ's job of each notice
  dispatched,    \* how often each notice was dispatched
  work,          \* the notice each executor is at, and how far
  records,       \* rows of a notice for a user
  marked,        \* rows of a notice with isPushed
  met,           \* history: executions of a notice begun while another was under way
  reached,       \* history: pushes of a notice that reached a device
  skipped,       \* history: pushes of a notice not made, for want of credentials
  completed      \* history: notices whose execution returned

deliveryVars ==
  <<initialized, queue, dispatched, work, records, marked, met, reached, skipped, completed>>
noticeVars == <<deviceVars, deliveryVars>>

NoJob == [st |-> "none", made |-> 0, stalled |-> FALSE]

QueueJob == [st : {"none", "waiting", "active", "failed"}, made : Nat,
             stalled : BOOLEAN]

\* todo: recipients of later chunks; to: of this one; tokens: their devices;
\* failed: those that sendToDevices returned.
NoticeIdle == [pc |-> "idle"]

NoticeFrame ==
  [pc : {"idle"}]
    \cup [pc : {"lookup", "recipient", "users", "insert", "tokens", "push",
                "clean", "mark"},
          notice : Notices, todo : SUBSET Users, to : SUBSET Users,
          tokens : SUBSET Tokens, failed : SUBSET Tokens]

TypeOK ==
  /\ DevicesTypeOK
  /\ initialized \in BOOLEAN
  /\ queue \in [Notices -> QueueJob]
  /\ dispatched \in [Notices -> Nat]
  /\ work \in [Executors -> NoticeFrame]
  /\ records \in [Notices -> [Users -> Nat]]
  /\ marked \in [Notices -> Nat]
  /\ met \in [Notices -> Nat]
  /\ reached \in [Notices -> Nat]
  /\ skipped \in [Notices -> Nat]
  /\ completed \in SUBSET Notices

Init ==
  /\ DevicesInit
  /\ initialized \in BOOLEAN
  /\ queue = [n \in Notices |-> NoJob]
  /\ dispatched = [n \in Notices |-> 0]
  /\ work = [x \in Executors |-> NoticeIdle]
  /\ records = [n \in Notices |-> [u \in Users |-> 0]]
  /\ marked = [n \in Notices |-> 0]
  /\ met = [n \in Notices |-> 0]
  /\ reached = [n \in Notices |-> 0]
  /\ skipped = [n \in Notices |-> 0]
  /\ completed = {}

-----------------------------------------------------------------------------
\* The frame in which an execution of n starts.
Start(n) ==
  [pc |-> IF n \in Fanouts THEN "users"
          ELSE IF n \in NoRef THEN "recipient" ELSE "lookup",
   notice |-> n,
   todo |-> IF n \in Fanouts THEN Recipients[n] ELSE {},
   to |-> IF n \in Fanouts THEN {} ELSE Recipients[n],
   tokens |-> {}, failed |-> {}]

\* An idle executor begins with n, whoever else is at it.
Begin(x, n) ==
  /\ work[x].pc = "idle"
  /\ work' = [work EXCEPT ![x] = Start(n)]
  /\ met' = IF \E q \in {work[y] : y \in Executors} : q.pc # "idle" /\ q.notice = n
              THEN [met EXCEPT ![n] = @ + 1] ELSE met

MayDispatch(n) == dispatched[n] < (IF n \in Fanouts THEN 1 ELSE MaxDispatch)

\* dispatchP1, dispatchP3, dispatchFanoutP3: BullMQ ignores a job whose id it
\* has, a failed one included (removeOnFail is false).
DispatchQueued(n) ==
  /\ MayDispatch(n)
  /\ "ok" \in Enqueue
  /\ dispatched' = [dispatched EXCEPT ![n] = @ + 1]
  /\ queue' = IF queue[n].st = "none" THEN [queue EXCEPT ![n].st = "waiting"]
                                      ELSE queue
  /\ UNCHANGED <<work, records, marked, met, reached, skipped, completed>>

\* The same when the queue is off or add rejects: direct execution.
DispatchDirect(x, n) ==
  /\ MayDispatch(n)
  /\ "rejects" \in Enqueue
  /\ dispatched' = [dispatched EXCEPT ![n] = @ + 1]
  /\ Begin(x, n)
  /\ UNCHANGED <<queue, records, marked, reached, skipped, completed>>

\* A worker takes a job of its queue: process.
TakeJob(x, n) ==
  /\ n \in Serves[x]
  /\ queue[n].st = "waiting"
  /\ queue' = [queue EXCEPT ![n].st = "active"]
  /\ Begin(x, n)
  /\ UNCHANGED <<dispatched, records, marked, reached, skipped, completed>>

-----------------------------------------------------------------------------
\* The execution of x returns; a completed job is removed.
Finish(x) ==
  /\ work' = [work EXCEPT ![x] = NoticeIdle]
  /\ completed' = completed \cup {work[x].notice}
  /\ queue' = IF x \in Workers THEN [queue EXCEPT ![work[x].notice] = NoJob]
                               ELSE queue

GoOn(x, frame) ==
  /\ work' = [work EXCEPT ![x] = frame]
  /\ UNCHANGED <<queue, completed>>

\* The turn of the loop over chunks that starts with todo left; a key has none.
NextChunk(x, todo) ==
  IF todo = {} THEN Finish(x)
  ELSE GoOn(x, [work[x] EXCEPT !.pc = "users", !.todo = todo])

\* Wrong on purpose: the records of the key are not looked up.
LookUpNothing(x) ==
  /\ work[x].pc = "lookup"
  /\ GoOn(x, [work[x] EXCEPT !.pc = "recipient"])
  /\ UNCHANGED <<records, marked, reached, skipped, dispatched>>

\* executeNotificationJob, the idempotency check.
LookUpRecord(x) ==
  /\ work[x].pc = "lookup"
  /\ LET q == work[x] IN
     IF \E u \in q.to : records[q.notice][u] > 0
       THEN Finish(x)
       ELSE GoOn(x, [q EXCEPT !.pc = "recipient"])
  /\ UNCHANGED <<records, marked, reached, skipped, dispatched>>

\* executeNotificationJob: the recipient must exist and not be blocked.
CheckRecipient(x) ==
  /\ work[x].pc = "recipient"
  /\ IF work[x].to \subseteq Unreachable
       THEN Finish(x)
       ELSE GoOn(x, [work[x] EXCEPT !.pc = "insert"])
  /\ UNCHANGED <<records, marked, reached, skipped, dispatched>>

\* Wrong on purpose: a chunk without users that can be reached ends the loop.
FindUsersOrStop(x) ==
  /\ work[x].pc = "users"
  /\ \E chunk \in SUBSET work[x].todo :
       LET q == work[x]
           to == chunk \ Unreachable
       IN /\ \/ Cardinality(chunk) = ChunkSize
             \/ chunk = q.todo /\ Cardinality(chunk) < ChunkSize
          /\ IF to = {} THEN Finish(x)
             ELSE GoOn(x, [q EXCEPT !.pc = "insert", !.todo = @ \ chunk, !.to = to])
  /\ UNCHANGED <<records, marked, reached, skipped, dispatched>>

\* executeFanoutNotificationJob: the next chunk, and who of it can be reached.
FindUsers(x) ==
  /\ work[x].pc = "users"
  /\ \E chunk \in SUBSET work[x].todo :
       LET q == work[x]
           to == chunk \ Unreachable
       IN /\ \/ Cardinality(chunk) = ChunkSize
             \/ chunk = q.todo /\ Cardinality(chunk) < ChunkSize
          /\ IF to = {} THEN NextChunk(x, q.todo \ chunk)
             ELSE GoOn(x, [q EXCEPT !.pc = "insert", !.todo = @ \ chunk, !.to = to])
  /\ UNCHANGED <<records, marked, reached, skipped, dispatched>>

\* The record, or the records of a chunk in one save.
InsertRecords(x) ==
  /\ work[x].pc = "insert"
  /\ LET q == work[x] IN
     /\ \A u \in q.to : records[q.notice][u] < MaxRecords
     /\ records' = [records EXCEPT ![q.notice] =
                      [u \in Users |-> IF u \in q.to THEN @[u] + 1 ELSE @[u]]]
     /\ GoOn(x, [q EXCEPT !.pc = "tokens"])
  /\ UNCHANGED <<marked, reached, skipped, dispatched>>

\* getActiveTokens of the recipients; without any, there is nothing to push.
FetchTokens(x) ==
  /\ work[x].pc = "tokens"
  /\ LET q == work[x]
         tokens == ActiveTokens(q.to)
     IN IF tokens = {} THEN NextChunk(x, q.todo)
        ELSE GoOn(x, [q EXCEPT !.pc = "push", !.tokens = tokens])
  /\ UNCHANGED <<records, marked, reached, skipped, dispatched>>

\* Where an execution goes on when it has sent to tokens and failed were refused.
AfterPush(x, failed) ==
  LET q == [work[x] EXCEPT !.failed = failed] IN
  IF q.notice \in Keys /\ failed # q.tokens
    THEN GoOn(x, [q EXCEPT !.pc = "mark"])
    ELSE NextChunk(x, q.todo)

CountOne(count, n) == [count EXCEPT ![n] = @ + 1]

\* sendToDevices: without credentials it sends nothing and reports no failure; otherwise
\* Firebase accepts some of the tokens, and a call that throws counts as all refused.
Push(x) ==
  /\ work[x].pc = "push"
  /\ \E failed \in SUBSET work[x].tokens :
       LET n == work[x].notice IN
       /\ ~initialized => failed = {}
       /\ IF failed = work[x].tokens THEN UNCHANGED <<reached, skipped>>
          ELSE IF initialized THEN reached' = CountOne(reached, n) /\ UNCHANGED skipped
          ELSE skipped' = CountOne(skipped, n) /\ UNCHANGED reached
       /\ IF failed = {} THEN AfterPush(x, failed)
          ELSE GoOn(x, [work[x] EXCEPT !.pc = "clean", !.failed = failed])
  /\ UNCHANGED <<records, marked, dispatched>>

\* Wrong on purpose: the mark does not ask whether a token succeeded.
CleanAndMark(x) ==
  /\ work[x].pc = "clean"
  /\ IF work[x].notice \in Keys THEN GoOn(x, [work[x] EXCEPT !.pc = "mark"])
                                ELSE NextChunk(x, work[x].todo)
  /\ device' = Deactivated(Users \X work[x].failed)
  /\ UNCHANGED <<contested, dreq, records, marked, reached, skipped, dispatched>>

\* The refused tokens are deactivated, whoever has them.
CleanTokens(x) ==
  /\ work[x].pc = "clean"
  /\ AfterPush(x, work[x].failed)
  /\ device' = Deactivated(Users \X work[x].failed)
  /\ UNCHANGED <<contested, dreq, records, marked, reached, skipped, dispatched>>

\* executeNotificationJob: the record is marked as pushed.
MarkPushed(x) ==
  /\ work[x].pc = "mark"
  /\ marked' = [marked EXCEPT ![work[x].notice] = @ + 1]
  /\ Finish(x)
  /\ UNCHANGED <<records, reached, skipped, dispatched>>

-----------------------------------------------------------------------------
\* Wrong on purpose: a failed attempt is not counted.
RetriedForever(n) == [queue[n] EXCEPT !.st = "waiting"]

\* BullMQ: the job of n after an attempt that threw.
Retried(n) ==
  [queue[n] EXCEPT !.made = @ + 1,
                   !.st = IF queue[n].made + 1 < Attempts[n] THEN "waiting" ELSE "failed"]

\* Wrong on purpose: a job is put back whenever its worker dies.
RecoveredForever(n) == [queue[n] EXCEPT !.st = "waiting"]

\* BullMQ: the job of n after its worker died.
Recovered(n) ==
  [queue[n] EXCEPT !.stalled = TRUE,
                   !.st = IF queue[n].stalled THEN "failed" ELSE "waiting"]

\* An execution throws, or its process dies; a caller's is lost.
AbortWork(x) ==
  /\ Faults
  /\ work[x].pc # "idle"
  /\ work' = [work EXCEPT ![x] = NoticeIdle]
  /\ LET n == work[x].notice IN
     \/ x \in Workers /\ queue' = [queue EXCEPT ![n] = Retried(n)]
     \/ x \in Workers /\ queue' = [queue EXCEPT ![n] = Recovered(n)]
     \/ x \in Callers /\ UNCHANGED queue
  /\ UNCHANGED <<dispatched, records, marked, met, reached, skipped, completed>>

Executes(x) ==
  /\ \/ /\ \/ LookUpRecord(x) \/ CheckRecipient(x) \/ FindUsers(x) \/ InsertRecords(x)
           \/ FetchTokens(x) \/ Push(x) \/ MarkPushed(x)
        /\ UNCHANGED deviceVars
     \/ CleanTokens(x)
  /\ UNCHANGED <<initialized, met>>

DeliveryNext ==
  /\ \/ \E n \in Notices : DispatchQueued(n) \/ \E x \in Callers : DispatchDirect(x, n)
     \/ \E x \in Workers, n \in Notices : TakeJob(x, n)
     \/ \E x \in Executors : AbortWork(x)
  /\ UNCHANGED initialized

Next ==
  \/ DevicesNext /\ UNCHANGED deliveryVars
  \/ DeliveryNext /\ UNCHANGED deviceVars
  \/ \E x \in Executors : Executes(x)

Spec == Init /\ [][Next]_noticeVars

\* A worker takes waiting jobs, and goes on when its awaited call is answered.
FairSpec ==
  /\ Spec
  /\ \A x \in Workers :
       /\ WF_noticeVars(Executes(x))
       /\ WF_noticeVars(\E n \in Notices :
                           TakeJob(x, n) /\ UNCHANGED <<deviceVars, initialized>>)

-----------------------------------------------------------------------------
\* "Fully idempotent: prevents duplicate records & duplicate pushes on retry",
\* for notices with a reference: whatever attempts fail, workers die and
\* dispatches are repeated, the recipient has one record.  Only the job id keeps
\* executions apart: each one that begins while another is under way, as the
\* direct one does when the queue refuses a repeated dispatch, may add a record.
OneRecordPerReference ==
  \A k \in Keys \ NoRef, u \in Users : records[k][u] <= 1 + met[k]

\* "Mark notification as pushed if at least one token succeeded": there are no
\* more marked records than pushes that reached a device.  Without credentials
\* the comment is not kept: there are no more than pushes that were left out.
PushedWasReceived ==
  \A n \in Notices : marked[n] <= IF initialized THEN reached[n] ELSE skipped[n]

\* A notice whose execution returned is in the list of every recipient who can
\* be reached, though chunks are skipped, retried and begun by others.
CompletedReachesAll ==
  \A n \in completed : \A u \in Recipients[n] \ Unreachable : records[n][u] > 0

\* A fan-out repeats itself at most as often as it is tried: its attempts, and
\* once more when a worker died.
FanoutIsBounded ==
  \A n \in Fanouts, u \in Users : records[n][u] <= Attempts[n] + 1

\* Retries end: every job in the queue completes or fails for good.
JobsSettle ==
  \A n \in Notices :
    queue[n].st \in {"waiting", "active"} ~> queue[n].st \in {"none", "failed"}

\* "prevents duplicate records [...] on retry": a notice has at most as many
\* records for a user as it was dispatched.
RetryRepeatsNothing ==
  \A n \in Notices, u \in Users : records[n][u] <= dispatched[n]
=============================================================================
