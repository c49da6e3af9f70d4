---------------------------- MODULE Applications ----------------------------
(***************************************************************************)
(* ApplicationsService: seekers apply to postings and withdraw, the owning *)
(* company (or the admin) decides.  updateStatus calls ConversationsService*)
(* in the middle of its own request, and apply reads the postings of       *)
(* JobsService: this module composes the three services of recruitment.    *)
(* WorkerAppService has a route of its own into the table of applications. *)
(*                                                                         *)
(* The row is reduced to its status.  A request by a company that does not *)
(* own the job, or by another seeker, ends in 403 before it writes.        *)
(***************************************************************************)
EXTENDS Jobs, Conversations

CONSTANTS
  JobOf,    \* the job of an application
  Remark,   \* the text a company sends along with a decision
  FromApp   \* the applications that may come in through the worker app

ASSUME JobOfAssumption == JobOf \in [Apps -> Jobs]
ASSUME RemarkAssumption == Remark \in Texts
ASSUME FromAppAssumption == FromApp \subseteq Apps

VARIABLES
  areq      \* what each request of ApplicationsController holds

hiringVars == <<job, everVisible, announced, lost, jreq,
                app, decided, conv, msg, creq, areq>>

AppReq == CallReq

AppIdle == [pc |-> "idle"]

\* op: the handler that is saving; to: the status it saves; remark: a remark
\* came with it; tells: the company will be notified.
AppFrame ==
  [pc : {"idle", "list"}]
    \cup [pc : {"exists", "insert", "tell"}, app : Apps, tells : BOOLEAN]
    \cup [pc : {"save", "write"}, op : {"update", "bulk", "withdraw"},
          app : Apps, to : AppStatus, remark : BOOLEAN]
    \cup [pc : {"opening", "sending", "notify"}, app : Apps,
          to : AppStatus, remark : BOOLEAN]

AppTypeOK == areq \in [AppReq -> AppFrame]

AppInit == areq = [r \in AppReq |-> AppIdle]

-----------------------------------------------------------------------------
\* The row of application a gets status s.
StoreApp(a, s) ==
  /\ app' = [app EXCEPT ![a] = s]
  /\ decided' = IF s \in Decided THEN decided \cup {a} ELSE decided

Goto(r, frame) == areq' = [areq EXCEPT ![r] = frame]

\* apply: only a posting that is published when it is read.
BeginApply(r, a) ==
  /\ areq[r].pc = "idle"
  /\ job[JobOf[a]] = "published"
  /\ Goto(r, [pc |-> "exists", app |-> a, tells |-> TRUE])
  /\ UNCHANGED <<app, decided, creq>>

\* applyToJob of the worker app: any posting that exists, published or not, and
\* nobody is notified.
BeginApplyFromApp(r, a) ==
  /\ a \in FromApp
  /\ areq[r].pc = "idle"
  /\ job[JobOf[a]] # "none"
  /\ Goto(r, [pc |-> "exists", app |-> a, tells |-> FALSE])
  /\ UNCHANGED <<app, decided, creq>>

\* apply, applyToJob: the lookup of an earlier application, 409 if there is one.
FindExisting(r) ==
  /\ areq[r].pc = "exists"
  /\ Goto(r, IF app[areq[r].app] = "none" THEN [areq[r] EXCEPT !.pc = "insert"]
                                          ELSE AppIdle)
  /\ UNCHANGED <<app, decided, creq>>

\* apply, applyToJob: the insert, which the unique index refuses if another request of the
\* same seeker was faster.
InsertApplication(r) ==
  /\ areq[r].pc = "insert"
  /\ LET q == areq[r] IN
     \/ /\ app[q.app] = "none"
        /\ StoreApp(q.app, "pending")
        /\ Goto(r, IF q.tells THEN [q EXCEPT !.pc = "tell"] ELSE AppIdle)
     \/ /\ app[q.app] # "none"
        /\ Goto(r, AppIdle)
        /\ UNCHANGED <<app, decided>>
  /\ UNCHANGED creq

\* apply: the company is notified (errors are swallowed).
TellCompany(r) ==
  /\ areq[r].pc = "tell"
  /\ Goto(r, AppIdle)
  /\ UNCHANGED <<app, decided, creq>>

-----------------------------------------------------------------------------
\* updateStatus: load, ownership check, assignment.
BeginUpdateStatus(r, a, to, remark) ==
  /\ areq[r].pc = "idle"
  /\ app[a] # "none"
  /\ Goto(r, [pc |-> "save", op |-> "update", app |-> a, to |-> to,
              remark |-> remark])
  /\ UNCHANGED <<app, decided, creq>>

\* withdraw: load, the check on an accepted application, assignment.
BeginWithdraw(r, a) ==
  /\ areq[r].pc = "idle"
  /\ app[a] \notin {"none", "accepted"}
  /\ Goto(r, [pc |-> "save", op |-> "withdraw", app |-> a, to |-> "withdrawn",
              remark |-> FALSE])
  /\ UNCHANGED <<app, decided, creq>>

\* bulkShortlist: the ids come in any order and number, so each turn of the
\* loop takes any application and the list may end anywhere.
BeginBulk(r) ==
  /\ areq[r].pc = "idle"
  /\ Goto(r, [pc |-> "list"])
  /\ UNCHANGED <<app, decided, creq>>

NextInBulk(r, a) ==
  /\ areq[r].pc = "list"
  /\ app[a] # "none"
  /\ Goto(r, [pc |-> "save", op |-> "bulk", app |-> a, to |-> "shortlisted",
              remark |-> FALSE])
  /\ UNCHANGED <<app, decided, creq>>

EndBulk(r) ==
  /\ areq[r].pc = "list"
  /\ Goto(r, AppIdle)
  /\ UNCHANGED <<app, decided, creq>>

\* What follows a save: bulk goes on, withdraw answers, updateStatus calls
\* findOrCreate.
AfterSaveApp(r) ==
  LET q == areq[r] IN
  CASE q.op = "withdraw" -> Goto(r, AppIdle) /\ UNCHANGED creq
    [] q.op = "bulk"     -> Goto(r, [pc |-> "list"]) /\ UNCHANGED creq
    [] q.op = "update"   ->
         /\ Goto(r, [pc |-> "opening", app |-> q.app, to |-> q.to,
                     remark |-> q.remark])
         /\ creq' = [creq EXCEPT ![r] = [pc |-> "find", app |-> q.app]]

\* Wrong on purpose: the save is forgotten.
SaveReadApplicationOnly(r) ==
  /\ areq[r].pc = "save"
  /\ AfterSaveApp(r)
  /\ UNCHANGED <<app, decided>>

\* First half of save: the status column has changed or not.
SaveReadApplication(r) ==
  /\ areq[r].pc = "save"
  /\ IF app[areq[r].app] = areq[r].to
       THEN AfterSaveApp(r)
       ELSE Goto(r, [areq[r] EXCEPT !.pc = "write"]) /\ UNCHANGED creq
  /\ UNCHANGED <<app, decided>>

\* Second half of save.
SaveWriteApplication(r) ==
  /\ areq[r].pc = "write"
  /\ StoreApp(areq[r].app, areq[r].to)
  /\ AfterSaveApp(r)

\* Wrong on purpose: a conversation that could not be opened is written to.
ConversationOpenedUnchecked(r) ==
  /\ areq[r].pc = "opening"
  /\ creq[r].pc = "returned"
  /\ LET q == areq[r] IN
     IF q.to \in Decided /\ q.remark
       THEN /\ Goto(r, [q EXCEPT !.pc = "sending"])
            /\ creq' = [creq EXCEPT ![r] =
                 [pc |-> "load", c |-> creq[r].c, from |-> "company",
                  text |-> Remark]]
       ELSE /\ Goto(r, [q EXCEPT !.pc = "notify"])
            /\ creq' = [creq EXCEPT ![r] = ConvIdle]
  /\ UNCHANGED <<app, decided>>

\* updateStatus: findOrCreate has answered (0: it threw, which is logged).  A
\* remark that comes with a decision is sent as the company.
ConversationOpened(r) ==
  /\ areq[r].pc = "opening"
  /\ creq[r].pc = "returned"
  /\ LET q == areq[r] IN
     IF q.to \in Decided /\ q.remark /\ creq[r].c # 0
       THEN /\ Goto(r, [q EXCEPT !.pc = "sending"])
            /\ creq' = [creq EXCEPT ![r] =
                 [pc |-> "load", c |-> creq[r].c, from |-> "company",
                  text |-> Remark]]
       ELSE /\ Goto(r, [q EXCEPT !.pc = "notify"])
            /\ creq' = [creq EXCEPT ![r] = ConvIdle]
  /\ UNCHANGED <<app, decided>>

\* updateStatus: sendMessage has answered or thrown.
RemarkAnswered(r) ==
  /\ areq[r].pc = "sending"
  /\ creq[r].pc = "returned"
  /\ Goto(r, [areq[r] EXCEPT !.pc = "notify"])
  /\ creq' = [creq EXCEPT ![r] = ConvIdle]
  /\ UNCHANGED <<app, decided>>

\* updateStatus: the seeker is notified (errors are swallowed).
NotifySeeker(r) ==
  /\ areq[r].pc = "notify"
  /\ Goto(r, AppIdle)
  /\ UNCHANGED <<app, decided, creq>>

\* A repository call of this service rejects, or the process dies under the
\* request and the call it is making.
AbortApplication(r) ==
  /\ Faults
  /\ areq[r].pc # "idle"
  /\ Goto(r, AppIdle)
  /\ creq' = [creq EXCEPT ![r] = ConvIdle]
  /\ UNCHANGED <<app, decided>>

AppArrives(r) ==
  \/ BeginBulk(r)
  \/ \E a \in Apps :
       \/ BeginApply(r, a) \/ BeginApplyFromApp(r, a) \/ BeginWithdraw(r, a)
       \/ \E to \in {"reviewed", "shortlisted", "accepted", "rejected"},
             remark \in BOOLEAN : BeginUpdateStatus(r, a, to, remark)

AppContinues(r) ==
  \/ FindExisting(r) \/ InsertApplication(r) \/ TellCompany(r)
  \/ \E a \in Apps : NextInBulk(r, a)
  \/ EndBulk(r)
  \/ SaveReadApplication(r) \/ SaveWriteApplication(r)
  \/ ConversationOpened(r) \/ RemarkAnswered(r) \/ NotifySeeker(r)

AppNext ==
  /\ \E r \in AppReq : AppArrives(r) \/ AppContinues(r) \/ AbortApplication(r)
  /\ UNCHANGED <<conv, msg>>

-----------------------------------------------------------------------------
\* The whole of recruitment.
TypeOK == JobsTypeOK /\ ConvTypeOK /\ AppTypeOK

Init == JobsInit /\ ConvInit /\ AppInit

Next ==
  \/ JobsNext /\ UNCHANGED <<convVars, areq>>
  \/ ConvNext /\ UNCHANGED <<jobVars, areq>>
  \/ AppNext /\ UNCHANGED jobVars

Spec == Init /\ [][Next]_hiringVars

-----------------------------------------------------------------------------
\* The notification of a decision follows the decision: when updateStatus hands
\* over "shortlisted", "accepted" or "rejected", such a status was stored, though
\* a save that finds the row already changed writes nothing.
DecisionStoredBeforeNotice ==
  [][\A r \in AppReq :
       areq[r].pc = "notify" /\ areq[r].to \in Decided /\ areq'[r] # areq[r]
         => areq[r].app \in decided]_hiringVars

\* Recruitment implements MessageFlow: forgetting requests, counters, read
\* marks and duplicates, what is said keeps the order the service enforces.
Flow == INSTANCE MessageFlow WITH
  threads <- [c \in DOMAIN conv |-> conv[c].app],
  said <- [i \in DOMAIN msg |-> [thread |-> msg[i].conv, who |-> msg[i].from]]

ImplementsMessageFlow == Flow!Spec
=============================================================================
