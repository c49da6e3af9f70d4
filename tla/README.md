# Constructor backend: TLA+ specifications

Specifications, model-checking runs and machine-checked proofs for the backend
in this repository (NestJS, TypeORM, PostgreSQL). They describe the code under
`src/src/modules`; every definition names its lines in `PROJECT.json`.

Contents: [the system](#the-system), [the execution model](#the-execution-model),
[the modules](#the-modules), [the runs](#the-runs), [the proofs](#the-proofs),
[what the runs found](#what-the-runs-found),
[what was seen while modelling](#seen-while-modelling),
[what is left out](#left-out), [the plan](#plan).

## The system

One Node process serves a mobile app (workers, site engineers), a company and
contractor panel and an admin panel. All lasting state is in PostgreSQL; a Redis
queue (BullMQ) carries notifications when it is there.

| Component | State it keeps | Operations that change it | Talks to |
|---|---|---|---|
| Job postings (`jobs`) | `jobs.status` and descriptive columns, bookmarks, abuse reports | create, update, close, moderate, toggleSave, reportJob | announces to seekers through Notifications |
| Applications (`applications`) | `applications.status`, unique per job and seeker | apply, updateStatus, bulkShortlist, withdraw | reads the posting; opens a conversation and sends the remark; Notifications |
| Conversations (`conversations`) | threads with a copied last message and two unread counters; messages with a read mark | findOrCreate, sendMessage, markRead | reads the application's status; Notifications |
| Daily reports (`reports`, `sites`) | one row per site and day: costs, total, revenue, profit, status | create, update, record progress, submit, review; the legacy insert of `SitesService` | sums of labour, materials and expenses; Notifications |
| Labour, materials, expenses | records of a day and a site, request and approval states | create, update, approve | summed into daily reports |
| Projects, sites, assignments, engineers | status rows, active assignments | create, update, assign, unassign, archive | notify the engineer |
| Attendance | one record per user and day | check-in, check-out | site access |
| Notifications | records, device tokens, queue jobs | dispatch (P1, P3, fan-out), execute, register and unregister a device | BullMQ, Firebase |
| Auth and sessions | on the user row: password and OTP hash, token version, refresh hash, failed attempts, lockout | send and verify OTP, register, login, reset, refresh, logout | SMS provider, device tokens |
| Payments | status, paid time | create, update, refund | |
| Posts | posts, likes, comments, three counters | toggle like, comment, share, moderate | Notifications |
| Worker app, documents | the user row with one JSON column of resumes, rows of documents, bytes in an object storage, cached PDF files | profile, photo, resumes, upload and remove; a second way to apply | object storage, applications |
| Report exports | export rows and an in-memory fallback | create, status, download | all of reporting |
| Profiles, users, calculators, audit logs, authorization | single rows, or none | | |

Two controllers are registered twice. `AppModule` registers
`ApplicationsController` and `SitesController` before the controllers of the
worker app and of reports with the same paths, so `POST
sites/:siteId/daily-reports` reaches the legacy insert of `SitesService`.

Where it is hard:

* **Interleaving.** There are no transactions and no locks. Each `await` is a
  point where other handlers run, and nearly every handler reads, checks, then
  writes some awaits later.
* **Stale snapshots.** `repository.save(entity)` writes back what the handler
  loaded, not only what it changed.
* **Check, then insert** without a unique key: conversations, daily reports,
  attendance, assignments, bookmarks, notification records.
* **Partial failure.** A handler makes several writes and calls; errors of some
  are swallowed (notifications, opening a conversation), of others they end the
  request with the earlier writes in place. The process may die between any two.
* **Retries**: queued notifications are run again after a failure.

The properties that make each component right are stated with the modules
[below](#properties).

## The execution model

`Server` states it in one place. A request is a small process. What the
handler holds in local variables is the *frame* of the request: `jreq`, `areq`,
`creq`, `req`, `dreq`, `work`, `mreq`, `rreq`, `freq`, `preq`, `yreq`, `freqs`,
`epc`, each with a `pc` naming the awaited call it stands before. An action is the code from one awaited repository call to the next; the code before
the first await, with the checks and early returns that depend only on what was
just loaded, is part of it. A refused request (403, 404, 409) changes nothing
and is no action, except where it comes after an earlier await.

`save(entity)` of an entity loaded earlier is two actions. The first is TypeORM's
select: it compares the entity with the row as it is *now*. The second is the
update of the columns that differed *then*. Several hazards exist only because
of this: a save may write nothing, may carry another column back, and may leave
a row that is half of one request and half of another. `save` of a new entity is
one insert.

With `Faults` true, any request may stop before any of its awaited calls
(the `Abort` actions): the call rejects, or the
process dies. What was written stays, what was in memory is gone. A crash of the
process is the abort of all requests in flight, in some order.

**Ids** are positions in a sequence (conversations, messages, reports, records of a
site, assignments and attendance are never deleted), postings and applications are named by constants: an application *is*
its pair of job and seeker, which the unique index guarantees.

## The modules

| Module | Models | State and how it corresponds to the code |
|---|---|---|
| `Server` | the Node process over a database | the constant `Faults` |
| `Jobs` | `JobsService` | `job`: the status column; `jreq`: the locals `job`, `previousStatus` and the status to save. `everVisible`, `announced` and `lost` (postings whose announcer died before the announcement) are history. Actions `CreateJob`, `UpdateJob`, `CloseJob`, `ModerateJob` (each ends in `LoadJob`, the `findOne`, checks and assignments), `SaveReadJob`, `SaveWriteJob`, `AnnounceJob`, `AbortJob` |
| `Conversations` | `ConversationsService` | `conv`, `msg`: the two tables; `creq`: the call in progress of each request, whether from its own controller (`ConvReq`) or made inside a request of `ApplicationsService` (`CallReq`). `FindConversation`, `CreateConversation`; `LoadConversation`, `CheckRules`, `FindDuplicate`, `InsertMessage` and the save are `sendMessage` from await to await; `BeginMarkRead`, the save and `MarkMessages` are `markRead`. `MessageAges` is the passing of five seconds |
| `Applications` | `ApplicationsService`; composes it with the two above | `app`: the status column (declared in `Conversations`, which reads it); `areq`: the locals. `updateStatus` is `BeginUpdateStatus`, the save, a call into `creq` (`opening`), perhaps a second (`sending`), `NotifySeeker`. A call that throws returns conversation 0 and the caller goes on, as its `try` does. `BeginApplyFromApp` is `applyToJob` of `WorkerAppService`, for the applications in `FromApp`: it skips the status of the posting and tells nobody. `decided` is history |
| `MessageFlow` | what recruitment promises about who speaks when | `decided`, `threads`, `said`: no requests, no snapshots, no retries |
| `DailyReports` | daily reports of `ReportsService`, the legacy insert of `SitesService` | `report`: the table; `books`: what labour, materials and expenses add up to right now; `req`: the locals, with the entity, the columns assigned a number and the columns found changed. `everSubmitted`, `overtaken` (requests whose save another one wrote under, between its two halves, or whose entity came from such a report) and `raced` (reports whose last save was overtaken) are history |
| `Devices` | device tokens of `NotificationsService` | `device`: `isActive` of the row of a user and a token; `dreq`: the locals of `registerDevice`, which takes the token from other users (`BeginRegister`), looks for its own row (`FindDevice`) and inserts or saves it. `contested` is history: tokens whose last registration arrived while another user's was under way. `Unregister` is `unregisterDevice` and `deactivateUserTokens` |
| `Notifications` | `NotificationsService` from dispatch to push, its two processors, `FirebaseProvider.sendToDevices`; composes it with `Devices` | `queue`: the job of each notice; `work`: the frame of each executor, a worker of a queue or a request that executes a notice itself; `records`, `marked`: the notifications table, counted. `initialized`: whether Firebase has its credentials, chosen at the start. `dispatched` bounds; `met` (executions that began while another of the same notice was under way), `reached`, `skipped` (pushes left out for want of credentials) and `completed` are history. `DispatchQueued`, `DispatchDirect`, `TakeJob`; then `LookUpRecord`, `CheckRecipient`, `InsertRecords`, `FetchTokens`, `Push`, `CleanTokens`, `MarkPushed` are `executeNotificationJob` from await to await, and with `FindUsers` for the first two `executeFanoutNotificationJob`, chunk by chunk |
| `Sessions` | `AuthService`, `JwtStrategy.validate` and the handlers of `UsersService` that save the same row, for one account | `user`: what the row says of password, code, refresh token, failed attempts, lock, token version and proof; `req`: the entity a request loaded, the columns it will write and what follows its save. `Load` and `Create` are a handler up to its first save or insert; `Insert`, `SaveRead`, `SaveWrite` store; `Continue` is what comes next, up to `generateTokens`; `Send` is the SMS or mail. `LockoutPasses` is fifteen minutes. `signup`, `proved`, `wrong`, `issued`, `stored` are history (a signup token, once handed out, stays) |
| `Sites` | `ProjectsService`, `ProjectSitesService`, `SiteEngineersService` | `project`, `site`: the status columns; `engineers`: users with that role; `assignment`: the table; `mreq`: the locals. `BeginAssign`, `FindActive`, `InsertAssignment` are `assignEngineer` from await to await; an edit loads the row with its `children`, and its save is refused by NOT NULL when the table has a child that the entity has not. `granted` is history |
| `SiteRecords` | the records of `AttendanceService` (labour), `MaterialsService`, `ExpensesService`; composes them with `Sites` | `materials`, `labour`, `movement`, `expense`: the tables; `rreq`: the locals. `MayWork` is the check of access that each service makes, some awaits before its insert or save |
| `CostReports` | the reports of `ReportsService` on costs, summary, expenses and profitability of a project, the portfolio reports, `getStock`, `getSiteMaterialCost`; composes them with `SiteRecords` | The figures are functions of the tables. `freq`: `getProjectCost` as a handler, `FindSites` and one `ReadSum` for each statement. `atStart`, `atEnd`, `edited` in it are history |
| `Attendance` | `AttendanceService.checkIn`, `checkOut`, the legacy check-in of `SitesService` | `now`: the clock in minutes; `attendance`: the table; `areq`: the locals, with the row that a check-out loaded. `doubled` is history: users and dates with two requests under way at once |
| `Posts` | `PostsService`, for one post | `post`: counters and `deletedAt`; `like`, `comments`: the rows; `preq`: the locals. `Count` is the statement that increments or decrements a counter. `shares`, `disturbed` are history |
| `Payments` | `PaymentsService` | `payment`: status and `paidAt`; `yreq`: the locals. `cleared` is history |
| `Exports` | `createExport`, its lookup, list and download | `exportRow`: the table; `object`, `kept`: the objects of the process and which of them the Map `inMemoryExports` refers to; `epc`: where each handler is. `told` is history |
| `Files` | `DocumentsService`; profile, photo, documents, resumes and PDF cache of `WorkerAppService`, for one user | `configured`: the services that find a store configured, chosen at the start; `stored`: keys whose bytes are in the store or on the local disk; `documents`: the rows; `account`: the columns of the user, the resumes being one of them; `pdf`: the cached files; `freqs`: the locals. `edits` numbers the edits; `warned` (uploads that went on without bytes), `wanted`, `overwritten` are history |
| `Services` | `Posts`, `Payments`, `Attendance`, `Exports`, `Files` side by side | nothing of its own: `ServicesNext` is a step of one of the five |
| `MCJobs`, `MCHiring`, `MCDailyReports`, `MCNotifications`, `MCSiteWork`, `MCServices` | nothing of their own | ownership functions, recipients, symmetry, and the *scenes* of a run |
| `JobsProofs`, `DailyReportsProofs`, `NotificationsProofs`, `SessionsProofs` | theorems about `Jobs`, `DailyReports`, `Notifications` and `Sessions` | |
| `HiringProofs` | theorems about recruitment as a whole, `Applications!Spec`, and what the steps of `Conversations` keep | |
| `SitesProofs` | theorems about `Sites`, `SiteRecords` and `CostReports` | |
| `ServicesProofs` | theorems about `Services` and its parts | |
| `Sums` | lemmas about sums over finite sets, for `SitesProofs` | |

`Spec` of `Applications` interleaves `JobsNext`, `ConvNext` and `AppNext`: the
three services of recruitment run in one process on one database.

`SiteRecords` and `CostReports` extend `Sites` in the same way: `SiteWorkSpec` and
`FiguresSpec` interleave managers, bookings and reports over one database. The
five components of `Services` share no state with anybody and are composed side by side.

Abstractions that matter:

* A posting and an application are their status. No handler branches on another
  column, except on ownership, which never changes and so is decided at load.
* A conversation's `lastMessage` and `lastMessageAt` are the message they copy.
* The three cost columns of a daily report are one number, `booked`: each handler
  that assigns one assigns all three from sums read just before. Money is an
  integer. PostgreSQL returns decimals as strings, so TypeORM may or may not
  take a money column that was assigned an equal number for changed: `SaveRead`
  allows both.
* Message texts are model values, and one of them is the remark.
* A notice is named by what BullMQ tells jobs apart by: a key is the job id
  `(type, reference, recipient)`, a fan-out is one call with more than ten
  recipients. The rows of a notice are counted per user, because nothing tells
  them apart. `NoRef` are the keys whose reference is absent (`none` in the id).
* BullMQ is modelled from how the code uses it and is external: one job per id,
  removed on completion and kept on failure (`removeOnComplete`, `removeOnFail`),
  put back until its attempts are used up (`Retried`), put back once when its
  worker died (`Recovered`, the default of one stall). Backoff only delays.
* Firebase refuses any set of tokens; a call that throws counts as all refused.
* A stored hash of a code or a refresh token is a token somebody holds; what is
  presented and refused changes nothing and is no action, except a wrong password.
  A password is what the handlers tell apart: none, pending (`null` or the hash
  that stands for it), random, registered, chosen after a proof. Expiry and
  `isActive` only refuse, so one who comes too late, or is deactivated, is one who
  does not come. Phone and email are one channel; the two sign-ups are one.
  `lockoutUntil` is compared with the clock, so it is in the future or past.
  The reset of a token version above a billion is beyond the bound.
* Costs of records are whole units; `FiguresAssumption` gives each material its
  category and each project its amounts for good. Other costs and revenue of a site
  are what its daily reports say, a constant here: how they come about is
  `DailyReports`.
* A shift is minutes of one clock; the date of a request is `now \div DayLength` on
  its arrival, as the server takes it. The site of a check-in only refuses.
* A like is the id of its row, so that a delete by id can miss. One post, because
  posts share nothing. `DoubleToggles` says whether a user sends a second toggle
  while his first is under way.
* A store has the bytes of a key or not; a `PUT` that fails may have stored them
  (a request may abort after `Put`). Bunny and S3 are one store. Each service may
  be without one: `DocumentsService` then writes to the local disk and swallows an
  error of that, the worker app then stores the row alone. Both log a warning.
* A resume is a number, that of the edit that wrote it. Whether fields of it go to
  the profile too is a choice of `BeginSaveResume`.
* Nobody is blocked or deleted while notices are under way (`Unreachable` is a
  constant): no code of the repository sets `isBlocked`.

Operators with a comment *"Wrong on purpose"* stand before the definition they
imitate. They are plausible mistakes (a dropped filter, a late read, a missing
default); each was put in place of the definition and makes the property it is
paired with in `PROJECT.json` fail, which shows that the run would notice.

### Properties

`Jobs`
: `AnnouncedWasPublished`: seekers are told only of a posting that was really
  visible at some time.
: `VisibleIsOrWillBeAnnounced`: a posting that ever became visible is announced,
  or some request stands before its announcement, or one died there. With two
  publishers at once each compares with the status *it* loaded; the property says
  that they never each leave it to the other.
: `PublishedIsAnnounced`: the same as liveness: a posting that becomes visible is
  announced unless its announcer dies.

`Conversations`, `Applications`
: `SeekerAnswers`: before each message of a seeker there is one of the company in
  the same thread.
: `CompanyWritesAfterDecision`: a thread with a company message is about an
  application that was shortlisted, accepted or rejected at some time.
: `UnreadWasWritten`: lost and resurrected counts never show more unread messages
  than were ever written.
: `DecisionStoredBeforeNotice`: a decision the seeker is notified of was stored,
  although the save may find the row changed and write nothing.
: `ThreadsAreBounded`: `findOrCreate` looks and inserts without a unique key, so two
  decisions may open two threads (`OneConversation` fails). This says how far that
  goes: threads, and inserts on their way, are never more than decisions that can be
  in flight together; one that comes later finds a thread.
: `ImplementsMessageFlow`: the three services implement `MessageFlow` under
  `threads <- [c |-> conv[c].app]`, `said <- [i |-> thread and sender of msg[i]]`.

`DailyReports`
: `ReviewedWasSubmitted`: a reviewed report was stored as submitted before,
  although edits carry old statuses back.
: `TotalIsSum`: the total is labour, material, expenses and other costs together.
  It fails when two saves of a report overlap.
: `TotalIsSumUnlessRaced`: it fails for no other reason, however old the entities
  are that overlapping requests save, and not for good. The total of a report is
  right unless its last save was overtaken: another save wrote the row between its
  comparison and its update, or it saved an entity loaded from a report that was
  wrong already without computing the total anew (a review).

`Devices`, `Notifications`
: `OneOwner`: a device has one active owner, whatever unregistrations, refused pushes
  and deaths come between the awaits of its registrations. Two users whose
  registrations of it overlap may both end active; the next registration that begins
  by itself repairs that.
: `OneRecordPerReference`: however often a notice with a reference is dispatched,
  retried and recovered, its recipient has one record. Only the job id keeps
  executions apart: one that begins while another of the same notice is under way,
  as the caller's own does when the queue refuses a repetition, may add one (`met`).
: `PushedWasReceived`: `isPushed` claims no more than devices received. Without
  credentials of Firebase it claims pushes that were left out, and no more than these.
: `CompletedReachesAll`: an execution that returned has left a record for every
  recipient who can be reached, though chunks are skipped and executions start over.
: `FanoutIsBounded`: fan-outs have no lookup; what bounds their repetition is the
  number of tries.
: `JobsSettle`: every job ends, completed or failed (liveness).

`Sessions`
: `LockedAfterFailures`: an account is locked only after as many wrong passwords as
  it takes. Counts are lost when attempts overlap, and carried back by any save of
  an older row; they are never invented.
: `NoFutureTokens`: an access token carries a version that the row had. A sign-in
  bumps the version in one save and hands the token out after another; one that
  handed it out earlier would leave a token which a later sign-in makes valid.
: `ProofBehindPassword`: nobody is verified, and no password is chosen in a sign-up
  or a reset, before the phone or email was proved, whatever rows are saved back.
: `KickedStayOut`: a token whose version the row has left is not accepted again. It
  fails when a request that had the row in hand while another raised the version saves
  it; `SessionsEnd` shows that no other step takes the version back.

`Sites`, `SiteRecords`, `CostReports`
: `RemovalsAreBounded` (proved, see `AccessEndsWithRemovals`): two overlapping
  assignments leave two active rows, and a removal clears one. Active rows, and
  inserts on their way, are never more than requests that can be in flight together.
: `AssignedHaveAccess`: whoever was assigned to a site and not removed since has
  access. Sites are saved with the assignments that were loaded with them: what
  keeps a stale save from detaching a newer one is the NOT NULL of `siteId` alone.
: `RecordsHaveAssignment`: what an engineer booked is on a site to which he was
  assigned at some time, though he may be removed between check and insert.
: `ReportsAgree`: the reports tell one story, each from rows of its own selection:
  a project costs what its sites cost, and what its days cost; trades and
  categories add up to the totals; the summary is the cost report with the other
  costs; the portfolio is the sum of its contractors'. For queries without `siteId`.
: `SpentIsBetween`: the total of a cost report, read in four statements while rows
  are inserted, is between the totals of its start and of its end, unless an expense
  is edited meanwhile.

`Attendance`
: `NoHourTwice`: completed shifts of a user do not overlap, across midnights and
  shifts left open, and their hours are those of the clock, on dates on which he never
  had two requests under way at once. On a date with two (a double tap) both may look
  before either inserts, and the table may hold two rows of it: the code's "Prevent
  duplicate check-in" is not kept. His other dates stay right, before and after.

`Posts`
: `CountersAddUp`: counters of comments and shares never claim more than there is;
  and as long as every counting statement runs and no edit writes an old counter
  back, the counters are the rows but for handlers between the two.

`Payments`
: `CompletedWasPaid`: a completed payment carries the time of its payment, whatever
  statuses it went through, unless a stale update set that time back to null.

`Exports`
: `AnsweredIsFound`: while the process lives, an export is found with the status
  that its request was answered. The exception is named in the property.

`Files`
: `NamedIsStored`: "no phantom rows" (`worker-app.service.ts:325`, `documents.service.ts:307`): what a row or the
  profile names is stored. The exception: it came through a service without a store,
  which went on without bytes and logged a warning. A service with a store leaves no
  such row, whatever the other one does and whichever of its calls fail.
: `EditsAreKept`: an edit of the user is lost only to a save that met a column
  changed since it was loaded; apart from these the user is what the edits made of
  him, in the order of their saves.

## The runs

A run may have *scenes*: a variable chosen in the initial state and never changed,
which says what happens and what rests. A scene is what would otherwise be a run
of its own.

Runs that pass:

| Run | Instance | Shows |
|---|---|---|
| `jobs` (`MCJobs.cfg`) | 1 posting, 3 requests, faults | `AnnouncedWasPublished`, `VisibleIsOrWillBeAnnounced`, `PublishedIsAnnounced` |
| `hiring` (`MCHiring.cfg`) | 1 posting, 2 applications of which one may come by the worker app, 2 messages, faults. Scenes: two requests decide on one application; one does while another writes messages; one applies while the posting is created, edited and moderated | `TypeOK`, `SeekerAnswers`, `CompanyWritesAfterDecision`, `UnreadWasWritten`, `ThreadsAreBounded`, `ImplementsMessageFlow`, `DecisionStoredBeforeNotice` |
| `reports` (`MCReports.cfg`) | 1 report, faults. Scenes: 3 overlapping requests with all amounts 0; 2 overlapping requests, costs 0 and 1, no revenue | `TypeOK`, `TotalIsSumUnlessRaced`, `ReviewedWasSubmitted` |
| `delivery` (`MCDelivery.cfg`) | 1 key, dispatched twice to a queue that may refuse, 2 workers and 1 caller, 2 attempts, 2 tokens of the recipient, 1 registration, with and without credentials, faults | `TypeOK`, `OneRecordPerReference`, `PushedWasReceived`, `JobsSettle` |
| `fanout` (`MCFanout.cfg`) | a fan-out in chunks of one to two users of whom one cannot be reached, an announcement, 1 worker, 1 caller, 2 attempts, 2 registrations of one token by two users, faults | `CompletedReachesAll`, `FanoutIsBounded`, `OneOwner` |
| `sessions` (`MCSessions.cfg`) | 1 account, 1 request by code and 1 by password or token, lock after 2 of 2 wrong passwords, versions 0 and 1, faults | `SessionsTypeOK`, `LockedAfterFailures`, `NoFutureTokens`, `ProofBehindPassword` |
| `site_work` (`MCSiteWork.cfg`) | 2 projects of 2 contractors with a site each, 1 engineer, 2 days, faults. Scenes: 2 managers and 2 assignments; one manager next to a request that books; a report next to a request that books 2 rows | `ReportsTypeOK`, `AssignedHaveAccess`, `RecordsHaveAssignment`, `ReportsAgree`, `SpentIsBetween` |
| `services` (`MCServices.cfg`) | 2 requests in each of five scenes (posts, payments, attendance, exports, files; of one user, files with and without a store), faults | `ServicesTypeOK`, `NoHourTwice`, `CountersAddUp`, `CompletedWasPaid`, `AnsweredIsFound`, `NamedIsStored`, `EditsAreKept` |

Bounds, and why they are enough to meet the interesting cases:

* Requests: each request starts over when it has answered, so one request stands
  for any number of sequential ones. Two overlap in every way two handlers can;
  three are used where the argument is about "somebody else" (an announcement
  left to another, a status carried back by a third).
* `jobs`: a request that dies after its save and before the announcement leaves a
  visible posting unannounced, and the code does nothing about it. `lost` records
  these postings, and only these are excepted by the properties: a request that
  dies anywhere else excuses nobody.
* `MaxMsgs` (2) bounds the messages ever stored: one of each side, a question and
  its answer, or a pair of duplicates. `InsertMessage` waits at the bound.
* `MaxReports` (1): reports of different days do not meet, and a second report of
  the same day is only ever a second row.
* `hiring`: the scenes about decisions and messages start with the posting published
  (`PublishedInit`), the one about postings empty. Seeker and company write to the
  thread through the one request of `ConversationsController`; the request of
  `ApplicationsController` interleaves with it at every await. Where a scene leaves
  statuses out, no guard tells them from one that it keeps, or they are another
  scene's.
* `reports`: the review of a report does not depend on amounts, so three requests
  overlap with 0. Sums do: two requests with amounts 0 and 1 overtake each other in
  every way. Revenue takes no part in the total.
* `site_work`: two projects, so that a report or a check could take the site of
  another; two days, so that a filter matters; two assignments are a repetition, or
  one made while a site is edited. Two rows are one before and one in the middle of
  a report. `ContractValue` is 0 for one project and `Budget` for the other.
* `services`: three likes of two users are a like, its removal and another. `MaxTime`
  4 with days of 3 minutes is two days with a midnight; overtime begins after 1
  minute. Both requests of attendance are of one user, so that check-ins and
  check-outs are doubled on either day. Two exports, two files, one resume, two edits:
  one that overlaps another. In the scene of files both services have a store or
  neither has; the theorem (`RowsNameFiles`) has the mixed cases too.
* `delivery` and `fanout`: two attempts, so that there is a first, a last and one
  in between a death and a retry; `ChunkSize` 1 stands for 500, so that a fan-out
  to two users has a chunk of nobody and one of somebody. What matters of tokens is
  whether none, some or all are refused: `delivery` has two tokens of one user.
  `fanout` has one, which moves between two users, with two registrations in flight,
  so that both users may be past the step that takes it from the other; it has the
  credentials, since without them it is as if Firebase accepted all. `MaxDispatch`
  (2) is a notice and its repetition. `MaxRecords` (3 and 4) is above what these
  instances reach.
* `sessions`: accounts share nothing, so one is enough. `LockAfter` (2 for 5) and
  `SaneFailures` (2 for 20) are constants; with two, a lost count, a
  lock and its end are met; the restart of a count above `SaneFailures` is beyond
  `MaxWrong` and left to the theorem (`LockNeedsFailures`). `MaxVersion` and `MaxWrong` stop sign-ins and
  wrong passwords at the bound. Two versions suffice for a token of a version not
  stored yet; `session_revived` has three bumps, no requests by code and no faults.
* Symmetry is declared over requests only, and not where liveness is checked.

Fairness is assumed in two places. `JobsFairSpec` has weak fairness of
`JobContinues(r)` for each request. A handler that has been started is resumed
when its awaited call is answered; the event loop runs callbacks in order and
starves none, and no lock can keep a call from being answered. That new requests
arrive is not assumed. `FairSpec` of `Notifications` has weak fairness of
`Executes(x)` and of taking some job for each worker: BullMQ's workers fetch jobs
while there are any, and their handlers resume like all others. Failures are not
prevented: that a job ends in spite of them is what `JobsSettle` says.

`site_work` and `services` turn deadlock checking off, because there the system may
stop: a request that waits for room at a bound (`HasRoom`, `MaxAssignments`,
`MaxLikes`, `MaxComments`), a clock at `MaxTime`, an export that was answered and
is never changed again. In the other runs something is always possible: a new
request, an edit of the books, a moderation.

## The proofs

Checked by TLAPS for every value of the constants, under the named assumptions of
the modules (`FaultsAssumption`, `JobOwnerAssumption`, `RequestsAssumption`,
`MaxMsgsAssumption`, `JobOfAssumption`, `RemarkAssumption`, `FromAppAssumption`,
`AmountsAssumption`, `MaxReportsAssumption`, `NoticesAssumption`,
`ExecutorsAssumption`, `BoundsAssumption`, `LockAssumption`,
`SessionBoundsAssumption`, `SitesAssumption`, `RecordsAssumption`,
`FiguresAssumption`, `AttendanceAssumption`, `PostsAssumption`, `FilesAssumption`).
`FiguresAssumption` asks that projects, sites, days and contractors are
finitely many, as rows of a table are; the number of records is not bounded by it.

Some rules the code does not keep when two handlers meet in a certain place: two
users of a device, two saves of a report, two openers of a thread, two managers of an
assignment, two check-ins of a user, a sign-in and any other save of the account. No
theorem assumes that they do not meet. Where the damage passes, a history variable
says where it is, and the theorem is about the rest: a device whose last registrations
overlapped (`contested`), a report whose last save was overtaken (`raced`), the dates
with two requests at once (`doubled`), the requests that are late (`late`). Where it
stays, the theorem bounds it by the requests that can overlap (`ThreadsStayBounded`,
`AccessEndsWithRemovals`) or by those that did (`OneRecord`). The only side conditions
left are that executors, requests or users are finitely many, where they are counted,
and in `SequentialTotals`, which says so in its name.

`JobsProofs`
: `JobsTypeCorrect`, `AnnouncementsAreOfVisible`. The inductive invariant is
  `JobsInv`: the type invariant; what is announced was visible; what is published
  now was visible; and `Witnessed`: a request that is about to announce, or that
  loaded the posting as published, works on a posting that was visible. The
  property alone is not inductive: in the step that announces, only `Witnessed`
  tells that the posting was published, and in a save that finds the row equal
  to its entity and writes nothing, only the conjunct about the present row does.
: `NoAnnouncementForgotten`. `VisibleIsOrWillBeAnnounced` is inductive relative to
  `JobsInv`. Whoever stores `published` either loaded another status and goes on to
  announce, or loaded the posting as published, and then it was visible before:
  `Witnessed`. A posting that was visible keeps its promise because only the
  request that stands before the announcement can leave that place, and it leaves
  by announcing or by dying (`OthersKeepPromise`).

`HiringProofs`
: `HiringTypeCorrect`, `SeekerNeverFirst`,
  `CompanyNeverEarly`, `NoticesAreOfDecisions`. The inductive invariant is
  `HiringInv`: `JobsInv`, `ConvInv` and `AppInv`, one part per service. Each part
  adds to the properties what a request in flight still knows of what it read some
  awaits ago. `Held(q)`, for a call of `ConversationsService`: if the status it
  loaded was a decision, the application is in `decided`; once past `CheckRules`,
  rules 1 and 2 still allow it to write. `AppHeld(q)`, for a request of
  `ApplicationsService`: one past its save works on a decision that was stored. What they know stays true
  because the tables only grow (`Grows`): nothing opened, written or decided is
  taken back, and a row changes only in its counters and marks. So a step has to
  argue about the frame it moves and the row it adds, and `GrowthKeepsInv` and
  `GrowthKeepsApp` do the rest.
: `RecruitmentImplementsMessageFlow`: `Init => Flow!Init` and, under `HiringInv`,
  every step is one of `MessageFlow` or leaves `decided`, the threads and what was
  said alone (`FlowStep`). The hard step is `InsertMessage`: `MaySpeak` is a fact
  about the tables as they are, `MayWrite` was checked on the tables as they were;
  `Held` connects them.
: `BadgesInventNothing`. `UnreadInv` adds that the row in every waiting snapshot is
  bounded by the messages written so far. Counts of messages only grow
  (`SentGrows`), so a stale row stays bounded; the insert counts one message more
  on the side whose counter goes up (`SentCounts`), and a save that mixes columns
  of two bounded rows writes a bounded row.
: `ThreadsStayBounded`, for finitely many requests. The invariant `OpeningInv` is the
  property, which counts the inserts on their way, and that only decisions open
  threads. An insert moves one from the requests to the threads. A lookup adds a
  request only when there is no thread, and then the requests alone are counted.

`DailyReportsProofs`
: `TypeCorrect`, `ReviewNeedsSubmission`. The inductive invariant is `ReviewInv`:
  every row that is not a draft was submitted (stronger than the property, which
  says so only of reviewed ones), and every entity in flight is `Harmless`: if it
  carries the status reviewed back, its report was submitted, and a row to be
  inserted is a draft. One lemma per way of moving (`GotoKeepsReview`,
  `InsertKeepsReview`), one step per action.
: `TotalsAddUp`: `TotalIsSumUnlessRaced`, for any overlap. The invariant `SumInv` says
  that whatever is about to be stored is `Prepared`, unless its request was overtaken:
  the entity is balanced, and the columns that the save will not write are equal in
  the entity and in the row. The first holds for entities of any age, because every
  handler but the review computes the total from the columns it carries. The second
  is established by the comparison in `SaveRead`, on the row as it is then; it is lost
  only when another save changes the row between comparison and update, and that is
  what `overtaken` records. `SequentialTotals`, `TotalIsSum` for at most one request,
  is a corollary.

`NotificationsProofs`
: `NoticesTypeCorrect`. The lemma `ExecutesMoves` behind it is used by all others:
  an awaited step ends an execution or gives it another frame of the same notice.
: `NobodyForgotten`. The invariant is `Remembers`: for an execution under way,
  every reachable recipient who is not `Left` before it has a record. It survives
  other executions because records are never taken back (`RecordsGrow`).
: `OneRecord`, for finitely many executors, whatever the queue answers. `RecordInv`
  counts for each key the executions before their insert (`Lookers`), at most one and
  those that met another, and, once there are records, those past the lookup
  (`Passers`) together with the records: an execution that looks up later finds one.
: `FanoutRepeatsBounded`, with or without a queue. `FanoutInv` counts tries:
  records never exceed the tries given up (`Tried`), and one more for recipients
  the present try has passed (`Within`), which needs that the chunk in hand is not
  among those to come (`Disjoint`).
: `MarksArePushes`, for finitely many executors, with credentials or without. The
  invariant counts the marks owed: `marked + Cardinality(Owed) <= Pushes`, the pushes
  that reached a device or were left out. An execution that is about to mark has paid
  with one of them.
: `OneOwnerEach`, for any overlap. `OwnerInv` says of a token that is not contested that
  the registrations under way are of one user (`RegistrationsApart`, an invariant here
  and no assumption) and that no other user has it: the first of them took it away, and
  all other steps only deactivate. A registration that finds another user's under way
  makes the token contested; one that does not takes it from all others, which
  establishes the invariant anew.

`SessionsProofs`
: `SessionsTypeCorrect`, `LockNeedsFailures`, `TokensWereStored`,
  `PasswordsAreProved`. The inductive invariant is `Guarded`. Any entity in flight
  may be saved at any time, so what the properties say of the row (`Sound`) is said
  of every entity too, and stays true because the histories only grow
  (`SoundStays`). For the versions `Good` adds that a request about to answer holds
  a version that was stored, and so does one whose save will leave the version
  alone. `LoadKeeps`, `CreateKeeps` and `FinishKeeps` argue once for every way to
  start and to go on; the steps of the handlers say what each assigns.
: `SessionsEnd`: `BackOnlyByLate`, for any overlap. `LateSpec` is `Spec` with one history
  variable: a request is `late` when it had the account in hand while another one raised
  the version, until it is done. The version goes back only in the save of a late
  request. `Ahead` says that an entity in flight is never behind the row, if its request
  is on time: every step of such a request then keeps the version or raises it
  (`Ascends`). `StoreAhead` and its companions show it of the request that moves,
  `OthersAhead` of the others: they are late, or the version stays. That a late save
  does take the version back is the run `session_revived`.

`SitesProofs`
: `SitesTypeCorrect`, `AssignedKeepAccess`. `AssignedHaveAccess` is inductive with the
  types (`SitesInv`): the one step that ends an access takes the pair out of
  `granted` in the same statement, and an edit of a site writes no assignment.
: `AccessEndsWithRemovals`: `RemovalsAreBounded`, for finitely many requests. The
  argument is that of `ThreadsStayBounded`: an insert moves one from the requests to the
  rows, a lookup adds a request only when there is no active row, and a removal, of a
  row loaded at any time, makes none active (`WaitsKeepRows`, `InsertKeepsRows`).
: `RecordsTypeCorrect`, `BookedWithAssignment`. `RecordsInv` adds that a row which a
  request is about to insert is `Covered` by an assignment. The check of access
  establishes it, and it stays because assignments neither disappear nor change
  hands (`AssignmentsStay`), whatever the managers do.
: `FiguresTypeCorrect`, `FiguresAgreeAlways`. `ReportsAgree` is a fact about any tables
  that are well typed (`FiguresAgree`), with one lemma per conjunct. A figure is a sum
  over selected rows. Two figures agree because the rows of one are those of the other
  sorted by a key, a site, a day, a category or a contractor, so that each row is in
  one group (`SumByKey` of `Sums`, `SumBySite`, `SumByDay`, `SumByOwner`), or because
  a sum of sums may be taken in either order. The portfolio needs that a project has
  one contractor, and a site one project.
: `SpentStaysBetween`. `FiguresInv` says of a report in flight (`Between`) that the total
  of its start is at most what it has added up so far plus what the tables now hold
  for the statements to come, and that what it has added up is at most what they now
  hold for the statements behind it. A read moves one part from one side to the other
  (`SpentTakesOut`); new rows and sites can only raise what the tables hold
  (`PartsGrow`, `SitesGrow`, `BetweenStays`), because costs are natural numbers; an
  edit may lower it, and is the exception of the property.

`Sums`
: Sums over finite sets: taking one element out, unions, differences, sums of sums,
  grouping by a key. `SumFunctionOnSet` of the community modules is a function chosen
  by its recursion, so that there is one has to be shown (`RecursExists`). The
  library's induction theorems take an operator and cannot be used; `SubsetInduction`
  stands in for them: the collection of subsets for which a law fails has a minimal
  member, since cardinalities are well founded (`WFMin`).

`ServicesProofs`
: `AttendanceTypeCorrect`, `HoursCountOnce`, for any overlap. `AttInv` orders the rows
  of a user outside `doubled` (`RowsOrdered`: one per date, and a closed row ends before
  the next begins), and says what a request relies on: `RequestOK` what any of them may
  (its stamps are past), `AloneOK` what one may that has its user to itself: it came on
  the last date its user has such a row for, one that will insert found no row of its
  date, one that will close works on the last row. This holds for a request that stands
  still for days, because a second one makes the dates of both `doubled` (`OneEach`).
: `PostsTypeCorrect`, `CountersAreRows`, for finitely many users and requests. The
  counters are exact only together with the handlers that owe a statement, which are
  counted (`Exact`); an entity in flight is `Modest`, its counters are not above what
  was done; and with one toggle per user at a time the row that a toggle found is
  still as it found it (`TogglesAlone`).
: `PaymentsTypeCorrect`, `CompletedCarriesTime`. `PayGood`: an entity in flight that
  is completed has its time, and a save that leaves the time alone finds it set in
  the row, unless it was cleared.
: `ExportsTypeCorrect`, `AnswersAreFound`. `ExportGood` follows one export through its
  handler: before the second save the row is "processing", or missing and the object
  in the Map.
: `FilesTypeCorrect`, `RowsNameFiles`. `Grounded`: what a handler will store names
  bytes that are there, or a key that a service without a store has warned of
  (`Backed`); neither is ever taken back.
: `EditsKept`. `overwritten` is judged by values, and a save leaves out a column that
  was equal when it compared: a column that changed and changed back would be missed.
  `EditsInv` shows that this does no harm. The number of an edit and the key of a
  photo are new when they are made and stay those of one handler until they are stored
  (`NumbersApart`, `KeysApart`), so what an edit brings differs from the row. `AllMissed`
  says of a save about to write: a column it will leave out is one that the edit does
  not change, or, for the resumes, some edit was overwritten or the column differs
  from what was loaded, and the save will be counted as one that overlaps. Otherwise
  the save leaves the row as `Apply` makes it of the row as it is, and that is what
  `wanted` becomes.
: `ServicesTypeCorrect`: a behaviour of `ServicesSpec` is one of each of the five
  (`ServicesAreApart`), so their theorems hold side by side.

Only model-checked: `PublishedIsAnnounced` and `JobsSettle`. Liveness under fairness
is out of the prover's reach, as is `ENABLED`.

## What the runs found

Four runs check a sentence of the repository that the code breaks; TLC's trace is
the argument.

| Run | Sentence | What happens |
|---|---|---|
| `one_conversation` | "idempotent — no duplicates created" (`applications.service.ts:254`) | two decisions on one application look for the thread before either inserts it |
| `report_total_race` | "Labour + Material + Expense + Other (server-calculated)" (`daily-report.entity.ts:44`) | two requests leave the costs of one and the total of the other |
| `announcement_repeated` | "Fully idempotent: prevents duplicate records & duplicate pushes on retry" (`notifications.service.ts:141`) | a notice without a reference skips the lookup; an attempt that fails after the insert is repeated in full |
| `session_revived` | "bump to invalidate all old JWTs — single-session" (`user.entity.ts:126`) | a refresh that loaded the row before a login saves the older token version after it |

## Seen while modelling

Differences between code and comments that no run is spent on, because they are
one assignment, one missing check, or the same pattern as a run above:

* A withdrawal checks the status it loaded (`applications.service.ts:360`): an
  acceptance stored before its save is overwritten, though the repository's
  `README.md:1320` says that accepted applications cannot be withdrawn.
* The save in `generateTokens` carries every column of the older row back, not only
  the version: a password that was reset meanwhile, a spent code, a deactivation.
* Two sign-ins at once compute the same next version, so both sessions are valid
  (`auth.service.ts:1111`).
* A first request for a code whose SMS fails late clears the code that a second
  one stored (`auth.service.ts:221`).
* A count of failed attempts above 20 starts again at 1, and the lock needs 5: an
  account that stays at the limit is not locked for four attempts
  (`auth.service.ts:1100`). Attempts in flight together count once.
* `logout` saves the row and then deactivates device tokens; a failure between
  leaves a signed-out device that is still notified (`auth.service.ts:1191`).
* `requestOtp` gives an unknown phone a random password, after which the sign-up
  takes the phone for registered (`auth.service.ts:409`).
* The repository's `README.md:62` says 12 bcrypt rounds and line 84 that only job
  seekers register themselves; the code has 10 rounds and lets companies and
  contractors register (`auth.service.ts:990`).
* A remark that comes with the status `reviewed` is stored and never sent
  (`applications.service.ts:268`), though `update-applications.dto.ts:9` says that
  it works for all statuses.
* Two identical messages in flight together are both stored
  (`conversations.service.ts:216`), though line 148 says rapid duplicates are not.
* An edit of a daily report carries the status back that it loaded
  (`reports.service.ts:164`), past a submission or a review, though
  `daily-report.entity.ts:17` draws a lifecycle that only advances.
* Without credentials `sendToDevices` reports no failure, so records are marked as
  pushed though nothing was sent (`notifications.service.ts:226`; the second half of
  `PushedWasReceived`). A call to Firebase that
  throws returns all tokens, and they are deactivated although they are valid.
* Two users who register one device at once can both end active
  (`notifications.service.ts:80`), until one of them registers it again.
* Where the queue refuses a notice that it has already, the caller executes it next to
  the worker, and both may insert (`notifications.service.ts:348`): `met` in
  `OneRecordPerReference`.
* The lookup of `executeNotificationJob` compares event and reference, not the
  occurrence: a second `project_update` of one project is skipped as a duplicate.
  The id of a notice without reference ends in `none`: two different announcements
  to one user share it, and while the first is queued the second is dropped.
* A job that failed for good stays under its id (`removeOnFail: false`), so the
  same notice can never be queued again.
* The header at `notifications.service.ts:136` calls both handlers idempotent; the
  fan-out has no lookup.
* `application.entity.ts:31-33` draws a lifecycle of applications; `updateStatus`
  and `bulkShortlist` store any status over any other, a withdrawn one included.
* `markRead` marks every unread message of the thread, the caller's own too
  (`conversations.service.ts:324`), though line 306 speaks of the recipient.
* The legacy route takes `estimatedProfit` from the body when it is given
  (`sites.service.ts:97`), which `daily-report.entity.ts:54` calls calculated.
* `applyToJob` of the worker app (`worker-app.service.ts:511`) takes applications to
  postings in any status and tells no company, where `apply` says "You can only apply
  to published jobs" (`applications.service.ts:57`). `apply` itself inserts some awaits
  after that check, perhaps into a posting closed meanwhile.
* Two overlapping `assignEngineer` insert two active rows, and removing one of them
  leaves the access (`project-sites.service.ts:194`, `:227`): `RemovalsAreBounded`
  is what is left.
* `updateRequestStatus` stores any status over any other (`materials.service.ts:291`);
  the balance of a stock may go below zero (`:126`). An edit of an expense that has
  an attachment and nothing else saves the columns it loaded
  (`expenses.service.ts:131-137`).
* `getProjectSummary` takes `contractValue || budget`. A decimal column arrives as a
  string, and `"0.00"` is true: a project without a contract value reports revenue 0,
  while the profitability report, which converts first, falls back to the budget.
* A `siteId` in the query of a project report is not compared with the project; the
  portfolio report counts the cost of that site once for each project.
* The material cost of a daily report is purchases and consumption, that of a project
  report purchases alone.
* Two overlapping check-ins of a user insert two rows (`attendance.service.ts:60`, "Prevent
  duplicate check-in"), and the hours of that date may count twice: the dates in
  `doubled`, which `NoHourTwice` leaves out. Two overlapping check-outs leave
  columns of both. A shift that is open at midnight can never be closed.
* A payment in any status can be set to "refunded" by `updateStatus`, though
  `payments.service.ts:170` says "Only completed payments can be refunded". A save
  from before the completion may clear `paidAt`.
* An edit of a post writes back the counters it loaded, and revives a post that was
  deleted meanwhile (`posts.service.ts:260`), though `posts.controller.ts:116` says
  "Atomically increments commentsCount".
* An export whose second save fails stays "processing" in the table for good, and one
  kept in memory only is not listed while the database is up. Entries of the Map are
  never removed. `GET reports/export/download` is hidden by `reports/export/:id`.
* The photo upload loads the user before the bytes are sent and saves the whole entity
  afterwards (`worker-app.service.ts:276`): resumes saved meanwhile are lost. The PDF
  is cached before the resume is saved, from the body alone, and preferred to a new
  one ever after; deleting a resume leaves its file, deleting a document its bytes.
* `documents.service.ts:307` says "if storage fails we throw and never
  create a phantom DB row". Without Bunny and S3 the bytes go to the local disk, an error of that is
  only logged (`:173-184`), and the row is inserted. Without Bunny the worker app inserts
  rows and sends no bytes anywhere (`worker-app.service.ts:130`), with a warning.
* `createDailyReport` refuses a second report of a day (`reports.service.ts:117`)
  but the legacy route does not look, and two requests may both look first.
* `recordProgress` changes costs of a reviewed report, which
  `updateDailyReport` refuses (`reports.service.ts:164`).

## Left out

`PROJECT.json` lists every component with its status. Lists, statistics,
formatting, validation of bodies, guards and file contents are abstracted
everywhere. Attachments, progress percentages and report texts are not modelled.

* Calculators are floating-point formulas without state; the compiler of PDF resumes
  is layout.
* Profiles of companies, contractors and workers, bookmarks, abuse reports, audit
  logs, read marks of notifications: one row, read and written in one statement, and
  nothing else depends on it.
* The authorization service and the guards are a table that is consulted before a
  handler. The models start behind them.
* Of the catalogue of materials only the insert is modelled, not its edits; of posts
  not the insert. The password that a contractor sets for an engineer is left out.
* Analytics of workers and materials and the dashboards read like the cost reports,
  but no rule relates their figures to others.
* Recruitment and reports hand notifications over and go on; what happens to them
  then is `Notifications`, which starts at the dispatch. The choice of recipients is
  left out, and so is a worker that BullMQ takes for dead while it goes on.
* In `Sessions` a deactivation is a save of the row, without the refusals that follow.
* No property ties an application to the status of its posting: the code gives no
  guarantee. In `ReportsAgree`, queries with a `siteId` are left out, in `CountersAddUp`
  users who send a toggle twice at once, for the same reason, see
  [above](#seen-while-modelling).

## Plan

Order: what interleaves most and matters most first.

1. **Done**: recruitment (`Jobs`, `Conversations`, `Applications`, `MessageFlow`)
   and `DailyReports`.
2. **Done**: delivery of notifications (`Devices`, `Notifications`).
3. **Done**: sign-in and sessions of an account (`Sessions`). An abstract
   specification in which a session is valid iff its version is current holds
   without overlap only, and is `KickedStayOut` then.
4. **Done**: site work: projects, sites, assignments, records, cost reports (`Sites`,
   `SiteRecords`, `CostReports`).
5. **Done**: `Attendance`, `Posts`, `Payments`, `Exports`, `Files`.
6. Open: daily reports whose costs are the sums of `SiteRecords` instead of `books`;
   sessions composed with `Devices`, for the logout between the two; the edits of the
   catalogue.
