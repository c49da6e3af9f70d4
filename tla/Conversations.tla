---------------------------- MODULE Conversations ----------------------------
(***************************************************************************)
(* ConversationsService: the thread between a company and a seeker about   *)
(* one application.  The company opens it, and only after a decision; the  *)
(* seeker may answer.                                                      *)
(*                                                                         *)
(* The service is called by its own controller (send, mark read) and, in   *)
(* the middle of a request of ApplicationsService, by updateStatus         *)
(* (findOrCreate, send).  creq is the call in progress of each request; a  *)
(* call made by updateStatus ends in pc "returned", where the caller picks *)
(* the result up.                                                          *)
(*                                                                         *)
(* Ids are positions in conv and msg: rows are never deleted.  The key     *)
(* (companyId, seekerId, jobId) of a conversation is its application, for  *)
(* the company is the owner of the job and an application is unique per    *)
(* job and seeker.  A save is two round trips (see Server).                *)
(***************************************************************************)
EXTENDS Server, Naturals, Sequences, FiniteSets

CONSTANTS
  Apps,        \* applications: one per job and seeker (unique index)
  Texts,       \* message texts
  ConvReq,     \* requests of ConversationsController in flight together
  CallReq,     \* requests of ApplicationsController, which call this service
  MaxMsgs      \* bound: messages ever stored

ASSUME MaxMsgsAssumption == MaxMsgs \in Nat
ASSUME RequestsAssumption == ConvReq \cap CallReq = {}

VARIABLES
  app,         \* status column of the application; "none": not inserted
  decided,     \* history: applications that were ever stored as decided
  conv,        \* the conversations table
  msg,         \* the messages table, in insertion order
  creq         \* the call of this service in progress in each request

convVars == <<app, decided, conv, msg, creq>>

AppStatus ==
  {"pending", "reviewed", "shortlisted", "accepted", "rejected", "withdrawn"}

\* allowedStatuses of rule 2
Decided == {"accepted", "rejected", "shortlisted"}

Senders == {"company", "seeker", "admin"}

\* last stands for lastMessage and lastMessageAt: the message they copy.
ConvRow == [app : Apps, unreadCompany : Nat, unreadSeeker : Nat, last : Nat]

\* recent: created less than five seconds ago.
Message == [conv : Nat \ {0}, from : Senders, text : Texts,
            read : BOOLEAN, recent : BOOLEAN]

Columns == {"unreadCompany", "unreadSeeker", "last"}

ConvIdle == [pc |-> "idle"]

ConvFrame ==
  [pc : {"idle"}]
    \cup [pc : {"returned"}, c : Nat]
    \cup [pc : {"find", "create"}, app : Apps]
    \cup [pc : {"load"}, c : Nat \ {0}, from : Senders, text : Texts]
    \cup [pc : {"count", "dedupe", "insert"}, c : Nat \ {0}, from : Senders,
          text : Texts, status : AppStatus \cup {"none"}, row : ConvRow]
    \cup [pc : {"save", "write"}, op : {"send", "read"}, c : Nat \ {0},
          from : Senders, row : ConvRow, dirty : SUBSET Columns]
    \cup [pc : {"mark"}, c : Nat \ {0}, from : Senders]

Callers == ConvReq \cup CallReq

OnConversation(q) ==
  q.pc \in {"load", "count", "dedupe", "insert", "save", "write", "mark"}

ConvTypeOK ==
  /\ app \in [Apps -> AppStatus \cup {"none"}]
  /\ decided \in SUBSET Apps
  /\ conv \in Seq(ConvRow)
  /\ msg \in Seq(Message)
  /\ creq \in [Callers -> ConvFrame]
  /\ \A r \in Callers : OnConversation(creq[r]) => creq[r].c \in DOMAIN conv
  /\ \A i \in DOMAIN msg : msg[i].conv \in DOMAIN conv

ConvInit ==
  /\ app = [a \in Apps |-> "none"]
  /\ decided = {}
  /\ conv = <<>>
  /\ msg = <<>>
  /\ creq = [r \in Callers |-> ConvIdle]

-----------------------------------------------------------------------------
\* The frame after a call: its result (0: it threw) for a calling handler,
\* nothing for the controller, which answers.
Return(r, c) ==
  IF r \in CallReq THEN [pc |-> "returned", c |-> c] ELSE ConvIdle

\* Wrong on purpose: the lookup misses the row, as one with another key would.
FindNoConversation(r) ==
  /\ creq[r].pc = "find"
  /\ creq' = [creq EXCEPT ![r].pc = "create"]
  /\ UNCHANGED <<app, decided, conv, msg>>

\* findOrCreate, the lookup: any row with the key.
FindConversation(r) ==
  /\ creq[r].pc = "find"
  /\ LET found == {c \in DOMAIN conv : conv[c].app = creq[r].app} IN
     \/ /\ found = {}
        /\ creq' = [creq EXCEPT ![r].pc = "create"]
     \/ \E c \in found : creq' = [creq EXCEPT ![r] = Return(r, c)]
  /\ UNCHANGED <<app, decided, conv, msg>>

\* findOrCreate, the insert.  The four existence checks before it read rows
\* that are never deleted.
CreateConversation(r) ==
  /\ creq[r].pc = "create"
  /\ conv' = Append(conv, [app |-> creq[r].app, unreadCompany |-> 0,
                           unreadSeeker |-> 0, last |-> 0])
  /\ creq' = [creq EXCEPT ![r] = Return(r, Len(conv) + 1)]
  /\ UNCHANGED <<app, decided, msg>>

-----------------------------------------------------------------------------
\* The controller's POST :id/messages.
BeginSend(r, c, from, text) ==
  /\ creq[r].pc = "idle"
  /\ creq' = [creq EXCEPT ![r] =
                [pc |-> "load", c |-> c, from |-> from, text |-> text]]
  /\ UNCHANGED <<app, decided, conv, msg>>

\* sendMessage: the conversation joined with its application.
LoadConversation(r) ==
  /\ creq[r].pc = "load"
  /\ LET q == creq[r] IN
     creq' = [creq EXCEPT ![r] =
                [pc |-> "count", c |-> q.c, from |-> q.from, text |-> q.text,
                 status |-> app[conv[q.c].app], row |-> conv[q.c]]]
  /\ UNCHANGED <<app, decided, conv, msg>>

\* Wrong on purpose: the count does not filter by sender.
SomebodyHasWritten(c) == \E i \in DOMAIN msg : msg[i].conv = c

CompanyHasWritten(c) ==
  \E i \in DOMAIN msg : msg[i].conv = c /\ msg[i].from = "company"

\* Wrong on purpose: rule 2 is missing.
MayWriteUndecided(q) ==
  \/ CompanyHasWritten(q.c)
  \/ q.from \in {"company", "admin"}

\* Rule 1: the candidate does not write first.
\* Rule 2: the company writes first only after a decision.
MayWrite(q) ==
  \/ CompanyHasWritten(q.c)
  \/ q.from = "company" /\ q.status \in Decided
  \/ q.from = "admin"

\* sendMessage: the count of company messages and rules 1 and 2.
CheckRules(r) ==
  /\ creq[r].pc = "count"
  /\ creq' = [creq EXCEPT ![r] = IF MayWrite(creq[r])
                                   THEN [@ EXCEPT !.pc = "dedupe"]
                                   ELSE Return(r, 0)]
  /\ UNCHANGED <<app, decided, conv, msg>>

\* Rule 3: an identical message less than five seconds old is the answer.
FindDuplicate(r) ==
  /\ creq[r].pc = "dedupe"
  /\ LET q == creq[r]
         dup == \E i \in DOMAIN msg :
                  /\ msg[i].conv = q.c /\ msg[i].from = q.from
                  /\ msg[i].text = q.text /\ msg[i].recent
     IN creq' = [creq EXCEPT ![r] = IF dup THEN Return(r, q.c)
                                           ELSE [@ EXCEPT !.pc = "insert"]]
  /\ UNCHANGED <<app, decided, conv, msg>>

\* Wrong on purpose: the sender's counter goes up.
CountedForSender(q, m) ==
  IF q.from = "company"
    THEN [q.row EXCEPT !.last = m, !.unreadCompany = @ + 1]
    ELSE [q.row EXCEPT !.last = m, !.unreadSeeker = @ + 1]

\* Rules 4 and 5: the message is inserted, and the entity loaded earlier gets
\* the new snapshot and the recipient's counter.
Counted(q, m) ==
  IF q.from = "company"
    THEN [q.row EXCEPT !.last = m, !.unreadSeeker = @ + 1]
    ELSE [q.row EXCEPT !.last = m, !.unreadCompany = @ + 1]

\* Wrong on purpose: every sender who is not the seeker is stored as company.
InsertMessageTwoSided(r) ==
  /\ creq[r].pc = "insert"
  /\ Len(msg) < MaxMsgs
  /\ LET q == creq[r]
         who == IF q.from = "seeker" THEN "seeker" ELSE "company"
     IN /\ msg' = Append(msg, [conv |-> q.c, from |-> who, text |-> q.text,
                               read |-> FALSE, recent |-> TRUE])
        /\ creq' = [creq EXCEPT ![r] =
                      [pc |-> "save", op |-> "send", c |-> q.c, from |-> q.from,
                       row |-> Counted(q, Len(msg) + 1), dirty |-> {}]]
  /\ UNCHANGED <<app, decided, conv>>

InsertMessage(r) ==
  /\ creq[r].pc = "insert"
  /\ Len(msg) < MaxMsgs
  /\ LET q == creq[r] IN
     /\ msg' = Append(msg, [conv |-> q.c, from |-> q.from, text |-> q.text,
                            read |-> FALSE, recent |-> TRUE])
     /\ creq' = [creq EXCEPT ![r] =
                   [pc |-> "save", op |-> "send", c |-> q.c, from |-> q.from,
                    row |-> Counted(q, Len(msg) + 1), dirty |-> {}]]
  /\ UNCHANGED <<app, decided, conv>>

\* First half of save: which columns differ from the row as it is now.
SaveReadConversation(r) ==
  /\ creq[r].pc = "save"
  /\ LET q == creq[r] IN
     creq' = [creq EXCEPT
                ![r].pc = "write",
                ![r].dirty = {k \in Columns : q.row[k] # conv[q.c][k]}]
  /\ UNCHANGED <<app, decided, conv, msg>>

Column(k, new, old, dirty) == IF k \in dirty THEN new ELSE old

\* Second half of save.  A send then notifies the recipient and returns.
SaveWriteConversation(r) ==
  /\ creq[r].pc = "write"
  /\ LET q == creq[r]
         old == conv[q.c]
     IN /\ conv' = [conv EXCEPT ![q.c] =
             [app |-> old.app,
              unreadCompany |-> Column("unreadCompany", q.row.unreadCompany,
                                       old.unreadCompany, q.dirty),
              unreadSeeker |-> Column("unreadSeeker", q.row.unreadSeeker,
                                      old.unreadSeeker, q.dirty),
              last |-> Column("last", q.row.last, old.last, q.dirty)]]
        /\ creq' = [creq EXCEPT ![r] =
             IF q.op = "send" THEN Return(r, q.c)
             ELSE [pc |-> "mark", c |-> q.c, from |-> q.from]]
  /\ UNCHANGED <<app, decided, msg>>

-----------------------------------------------------------------------------
\* markRead: the company side clears its counter, every other role (the admin
\* too) the seeker's.
BeginMarkRead(r, c, from) ==
  /\ creq[r].pc = "idle"
  /\ LET row == IF from = "company"
                  THEN [conv[c] EXCEPT !.unreadCompany = 0]
                  ELSE [conv[c] EXCEPT !.unreadSeeker = 0]
     IN creq' = [creq EXCEPT ![r] =
                   [pc |-> "save", op |-> "read", c |-> c, from |-> from,
                    row |-> row, dirty |-> {}]]
  /\ UNCHANGED <<app, decided, conv, msg>>

\* markRead, the bulk update: every unread message of the conversation.
MarkMessages(r) ==
  /\ creq[r].pc = "mark"
  /\ msg' = [i \in DOMAIN msg |->
               IF msg[i].conv = creq[r].c THEN [msg[i] EXCEPT !.read = TRUE]
                                          ELSE msg[i]]
  /\ creq' = [creq EXCEPT ![r] = Return(r, creq[r].c)]
  /\ UNCHANGED <<app, decided, conv>>

-----------------------------------------------------------------------------
\* Five seconds pass for the oldest message that is still recent.
MessageAges ==
  /\ \E i \in DOMAIN msg :
       /\ msg[i].recent
       /\ \A k \in 1..(i - 1) : ~msg[k].recent
       /\ msg' = [msg EXCEPT ![i].recent = FALSE]
  /\ UNCHANGED <<app, decided, conv, creq>>

\* A repository call rejects, or the process dies: the call throws and what it
\* wrote stays.
AbortCall(r) ==
  /\ Faults
  /\ creq[r].pc \notin {"idle", "returned"}
  /\ creq' = [creq EXCEPT ![r] = Return(r, 0)]
  /\ UNCHANGED <<app, decided, conv, msg>>

ConvArrives(r) ==
  \E c \in DOMAIN conv, from \in Senders :
    \/ \E text \in Texts : BeginSend(r, c, from, text)
    \/ BeginMarkRead(r, c, from)

ConvContinues(r) ==
  \/ FindConversation(r) \/ CreateConversation(r)
  \/ LoadConversation(r) \/ CheckRules(r) \/ FindDuplicate(r)
  \/ InsertMessage(r) \/ SaveReadConversation(r) \/ SaveWriteConversation(r)
  \/ MarkMessages(r)

ConvNext ==
  \/ \E r \in ConvReq : ConvArrives(r)
  \/ \E r \in Callers : ConvContinues(r) \/ AbortCall(r)
  \/ MessageAges

-----------------------------------------------------------------------------
\* The candidate never writes first: before each of his messages the company
\* wrote one in the same conversation, although the check and the insert are
\* separated by two awaits.
SeekerAnswers ==
  \A i \in DOMAIN msg :
    msg[i].from = "seeker" =>
      \E k \in 1..(i - 1) : /\ msg[k].conv = msg[i].conv
                            /\ msg[k].from = "company"

\* The company writes only in a thread whose application was shortlisted,
\* accepted or rejected at some time (it may have changed since: the status
\* was read some awaits before the message was stored).
CompanyWritesAfterDecision ==
  \A i \in DOMAIN msg :
    msg[i].from = "company" => conv[msg[i].conv].app \in decided

Sent(c, S) ==
  Cardinality({i \in DOMAIN msg : msg[i].conv = c /\ msg[i].from \in S})

\* The badges never show more than was written: concurrent saves of stale
\* snapshots may lose or resurrect counts, but never invent them.
UnreadWasWritten ==
  \A c \in DOMAIN conv :
    /\ conv[c].unreadSeeker <= Sent(c, {"company"})
    /\ conv[c].unreadCompany <= Sent(c, {"seeker", "admin"})

\* The conversations about a, and the requests that are about to open one.
ThreadsAbout(a) == {c \in DOMAIN conv : conv[c].app = a}
AboutToOpen(a) == {r \in CallReq : creq[r].pc = "create" /\ creq[r].app = a}

\* findOrCreate opens more than one conversation about an application only for
\* requests that looked before the first was inserted: there are never more,
\* those to come included, than decisions that can be in flight together.
ThreadsAreBounded ==
  \A a \in Apps :
    Cardinality(ThreadsAbout(a)) + Cardinality(AboutToOpen(a)) <= Cardinality(CallReq)

\* "no duplicates created": one conversation per company, seeker and job.
OneConversation ==
  \A c, d \in DOMAIN conv : conv[c].app = conv[d].app => c = d
==============================================================================
