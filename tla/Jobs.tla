-------------------------------- MODULE Jobs --------------------------------
(***************************************************************************)
(* JobsService: a company creates, edits and closes its job postings, the  *)
(* admin moderates them, and whoever makes a posting visible announces it  *)
(* to the job seekers.                                                     *)
(*                                                                         *)
(* The row is reduced to its status.  Title, pay and the other columns     *)
(* steer nothing.  A request by anybody but the owning company (or the     *)
(* admin, for moderation) ends in 403 or 404 before it writes: it is not   *)
(* an action.                                                              *)
(***************************************************************************)
EXTENDS Server

CONSTANTS
  Jobs,        \* the ids a posting may get
  Companies,   \* companies with a profile
  JobOwner,    \* the company that creates the posting: companyId never changes
  JobReq       \* handlers of JobsService that can be in flight together

ASSUME JobOwnerAssumption == JobOwner \in [Jobs -> Companies]

VARIABLES
  job,         \* status column of the posting; "none" before it is inserted
  everVisible, \* history: postings that were ever stored as published
  announced,   \* history: postings notifyJobSeekers was called for
  lost,        \* history: postings whose announcer died before it
  jreq         \* what each request in flight holds

jobVars == <<job, everVisible, announced, lost, jreq>>

JobStatus == {"draft", "published", "closed", "rejected"}

\* pc: where the handler stands; job: the row; prev: previousStatus;
\* to: the status of the entity it will save.
JobIdle == [pc |-> "idle", prev |-> "none", to |-> "none"]

JobFrame ==
  [pc : {"idle"}, prev : {"none"}, to : {"none"}]
    \cup [pc : {"save", "write", "announce"}, job : Jobs,
          prev : JobStatus \cup {"none"}, to : JobStatus]

JobsTypeOK ==
  /\ job \in [Jobs -> JobStatus \cup {"none"}]
  /\ everVisible \in SUBSET Jobs
  /\ announced \in SUBSET Jobs /\ lost \in SUBSET Jobs
  /\ jreq \in [JobReq -> JobFrame]

JobsInit ==
  /\ job = [j \in Jobs |-> "none"]
  /\ everVisible = {}
  /\ announced = {} /\ lost = {}
  /\ jreq = [r \in JobReq |-> JobIdle]

-----------------------------------------------------------------------------
\* The row gets status s.
StoreJob(j, s) ==
  /\ job' = [job EXCEPT ![j] = s]
  /\ everVisible' = IF s = "published" THEN everVisible \cup {j} ELSE everVisible

\* Wrong on purpose: the new status is not looked at.
AfterSaveOfAnything(j, prev, to) ==
  IF prev # "published"
    THEN [pc |-> "announce", job |-> j, prev |-> prev, to |-> to]
    ELSE JobIdle

\* The code after a save: announce a posting that has just become visible,
\* or answer.
AfterSave(j, prev, to) ==
  IF prev # "published" /\ to = "published"
    THEN [pc |-> "announce", job |-> j, prev |-> prev, to |-> to]
    ELSE JobIdle

\* create: the entity has no id, so save is one insert.
CreateJob(r, c, j, s) ==
  /\ jreq[r].pc = "idle"
  /\ job[j] = "none"
  /\ JobOwner[j] = c
  /\ StoreJob(j, s)
  /\ jreq' = [jreq EXCEPT ![r] = AfterSave(j, "none", s)]
  /\ UNCHANGED <<announced, lost>>

\* Wrong on purpose: the posting that was not found is not refused.
LoadJobUnchecked(r, j, to) ==
  /\ jreq[r].pc = "idle"
  /\ jreq' = [jreq EXCEPT ![r] =
                [pc |-> "save", job |-> j, prev |-> job[j], to |-> to]]
  /\ UNCHANGED <<job, everVisible, announced, lost>>

\* Wrong on purpose: previousStatus is taken after the assignment.
LoadJobPreviousLate(r, j, to) ==
  /\ jreq[r].pc = "idle"
  /\ job[j] # "none"
  /\ jreq' = [jreq EXCEPT ![r] =
                [pc |-> "save", job |-> j, prev |-> to, to |-> to]]
  /\ UNCHANGED <<job, everVisible, announced, lost>>

\* The findOne of update, close and moderate, the ownership check (companyId
\* never changes, so it is decided here) and the assignments to the entity.
LoadJob(r, j, to) ==
  /\ jreq[r].pc = "idle"
  /\ job[j] # "none"
  /\ jreq' = [jreq EXCEPT ![r] =
                [pc |-> "save", job |-> j, prev |-> job[j], to |-> to]]
  /\ UNCHANGED <<job, everVisible, announced, lost>>

\* update: a body without a status leaves the loaded one in the entity.
UpdateJob(r, c, j) ==
  /\ JobOwner[j] = c
  /\ \E to \in {"draft", "published", "closed", job[j]} : LoadJob(r, j, to)

CloseJob(r, c, j) == JobOwner[j] = c /\ LoadJob(r, j, "closed")

ModerateJob(r, j) ==
  \E to \in {"published", "rejected", "closed"} : LoadJob(r, j, to)

\* Wrong on purpose: a save that finds the row published already lets its
\* handler answer, and one that does not forgets what it was about to announce.
SaveReadJobTakesPrevious(r) ==
  /\ jreq[r].pc = "save"
  /\ LET q == jreq[r] IN
     jreq' = [jreq EXCEPT ![r] = IF job[q.job] = q.to
                                   THEN JobIdle
                                   ELSE [q EXCEPT !.pc = "write", !.prev = q.to]]
  /\ UNCHANGED <<job, everVisible, announced, lost>>

\* First half of save: the select that the entity is compared with.
SaveReadJob(r) ==
  /\ jreq[r].pc = "save"
  /\ LET q == jreq[r] IN
     jreq' = [jreq EXCEPT ![r] = IF job[q.job] = q.to
                                   THEN AfterSave(q.job, q.prev, q.to)
                                   ELSE [q EXCEPT !.pc = "write"]]
  /\ UNCHANGED <<job, everVisible, announced, lost>>

\* Second half of save: the update of the changed column.
SaveWriteJob(r) ==
  /\ jreq[r].pc = "write"
  /\ LET q == jreq[r] IN
     /\ StoreJob(q.job, q.to)
     /\ jreq' = [jreq EXCEPT ![r] = AfterSave(q.job, q.prev, q.to)]
  /\ UNCHANGED <<announced, lost>>

\* notifyJobSeekers: its own errors are swallowed.
AnnounceJob(r) ==
  /\ jreq[r].pc = "announce"
  /\ announced' = announced \cup {jreq[r].job}
  /\ jreq' = [jreq EXCEPT ![r] = JobIdle]
  /\ UNCHANGED <<job, everVisible, lost>>

\* A repository call rejects, or the process dies: what was written stays.
AbortJob(r) ==
  /\ Faults
  /\ jreq[r].pc # "idle"
  /\ jreq' = [jreq EXCEPT ![r] = JobIdle]
  /\ lost' = IF jreq[r].pc = "announce" THEN lost \cup {jreq[r].job} ELSE lost
  /\ UNCHANGED <<job, everVisible, announced>>

JobArrives(r) ==
  \E j \in Jobs :
    \/ \E c \in Companies :
         \/ \E s \in {"draft", "published", "closed"} : CreateJob(r, c, j, s)
         \/ UpdateJob(r, c, j)
         \/ CloseJob(r, c, j)
    \/ ModerateJob(r, j)

JobContinues(r) == SaveReadJob(r) \/ SaveWriteJob(r) \/ AnnounceJob(r)

JobsNext ==
  \E r \in JobReq : JobArrives(r) \/ JobContinues(r) \/ AbortJob(r)

JobsSpec == JobsInit /\ [][JobsNext]_jobVars

\* A handler that has been started is resumed whenever its awaited call is
\* answered: the event loop starves nobody.
JobsFairSpec == JobsSpec /\ \A r \in JobReq : WF_jobVars(JobContinues(r))

-----------------------------------------------------------------------------
\* Job seekers are told only of a posting that was really visible at some
\* point: notifyJobSeekers is called after the save that made (or found) the
\* row published, whatever other requests wrote between load and save.
AnnouncedWasPublished == announced \subseteq everVisible

\* A posting that was ever visible has been announced, or the request that found
\* it invisible and saved it stands before the announcement, or died there.  Two
\* overlapping publishers never each leave the announcement to the other.
VisibleIsOrWillBeAnnounced ==
  \A j \in everVisible :
    \/ j \in announced \cup lost
    \/ \E r \in JobReq : jreq[r].pc = "announce" /\ jreq[r].job = j

\* Every posting that ever becomes visible is announced, unless an announcer of
\* it dies: whichever of create, update and moderate made it visible and
\* however they overlap (an overlap in which each request takes the other one for
\* the publisher would lose it).
PublishedIsAnnounced ==
  \A j \in Jobs : j \in everVisible ~> j \in announced \cup lost
=============================================================================
