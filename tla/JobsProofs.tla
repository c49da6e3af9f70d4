----------------------------- MODULE JobsProofs -----------------------------
\* Theorems about Jobs, for any postings, companies and requests.
EXTENDS Jobs, TLAPS

\* Why an announcement is always of a posting that was visible, and why no
\* visible posting is forgotten.  A handler that loaded the posting as published,
\* or that has stored it and is about to announce it, works on a posting that
\* was visible.
Witnessed(q) ==
  /\ q.pc \in {"save", "write", "announce"} /\ q.prev = "published"
       => q.job \in everVisible
  /\ q.pc = "announce" => q.job \in everVisible /\ q.to = "published"

JobsInv ==
  /\ JobsTypeOK
  /\ \A j \in Jobs : job[j] = "published" => j \in everVisible
  /\ AnnouncedWasPublished
  /\ \A r \in JobReq : Witnessed(jreq[r])

\* The announcement of j is on its way in frame q.
Owed(q, j) == q.pc = "announce" /\ q.job = j

\* A frame that is not idle has all its fields.
LEMMA BusyFrame ==
  ASSUME NEW q \in JobFrame, q.pc # "idle"
  PROVE  q \in [pc : {"save", "write", "announce"}, job : Jobs,
                prev : JobStatus \cup {"none"}, to : JobStatus]
  BY DEF JobFrame

\* What follows a save is a frame: an announcement on its way, or idle.
LEMMA AfterSaveIsFrame ==
  ASSUME NEW j \in Jobs, NEW prev \in JobStatus \cup {"none"}, NEW to \in JobStatus
  PROVE  /\ AfterSave(j, prev, to) \in JobFrame
         /\ prev # "published" /\ to = "published" =>
              AfterSave(j, prev, to) =
                [pc |-> "announce", job |-> j, prev |-> prev, to |-> to]
         /\ ~(prev # "published" /\ to = "published") =>
              AfterSave(j, prev, to) = JobIdle
  BY DEF AfterSave, JobFrame, JobIdle

\* Before the first request there is no posting.
LEMMA JobsInvInit == JobsInit => JobsInv
<1> SUFFICES ASSUME JobsInit PROVE JobsInv
  OBVIOUS
<1>1. JobIdle \in JobFrame /\ Witnessed(JobIdle)
  BY DEF JobIdle, JobFrame, Witnessed
<1>2. JobsTypeOK
  BY <1>1 DEF JobsInit, JobsTypeOK
<1> QED
  BY <1>1, <1>2 DEF JobsInit, JobsInv, AnnouncedWasPublished

\* A posting gets status to and request r the frame that follows its save.
LEMMA StoreKeepsInv ==
  ASSUME JobsInv, NEW r \in JobReq, NEW j \in Jobs,
         NEW prev \in JobStatus \cup {"none"}, NEW to \in JobStatus,
         StoreJob(j, to), jreq' = [jreq EXCEPT ![r] = AfterSave(j, prev, to)],
         UNCHANGED <<announced, lost>>
  PROVE  JobsInv'
<1>1. /\ job' \in [Jobs -> JobStatus \cup {"none"}]
      /\ \A k \in Jobs : job'[k] = IF k = j THEN to ELSE job[k]
      /\ everVisible' \in SUBSET Jobs
      /\ everVisible \subseteq everVisible'
      /\ to = "published" => j \in everVisible'
  BY DEF JobsInv, JobsTypeOK, StoreJob
<1>2. /\ jreq' \in [JobReq -> JobFrame]
      /\ \A s \in JobReq : jreq'[s] = IF s = r THEN AfterSave(j, prev, to) ELSE jreq[s]
  BY AfterSaveIsFrame DEF JobsInv, JobsTypeOK
<1>3. JobsTypeOK'
  BY <1>1, <1>2 DEF JobsInv, JobsTypeOK
<1>4. AnnouncedWasPublished'
  BY <1>1 DEF JobsInv, AnnouncedWasPublished
<1>5. ASSUME NEW s \in JobReq PROVE Witnessed(jreq[s])'
  <2>1. CASE s = r
    <3> DEFINE f == AfterSave(j, prev, to)
    <3>1. jreq'[s] = f
      BY <1>2, <2>1
    <3>2. CASE prev # "published" /\ to = "published"
      <4>1. f = [pc |-> "announce", job |-> j, prev |-> prev, to |-> to]
        BY <3>2, AfterSaveIsFrame
      <4> HIDE DEF f
      <4> QED
        BY <1>1, <3>1, <3>2, <4>1 DEF Witnessed
    <3>3. CASE ~(prev # "published" /\ to = "published")
      <4>1. f = JobIdle
        BY <3>3, AfterSaveIsFrame
      <4> HIDE DEF f
      <4> QED
        BY <3>1, <4>1 DEF Witnessed, JobIdle
    <3> QED
      BY <3>2, <3>3
  <2>2. CASE s # r
    BY <1>1, <1>2, <2>2 DEF JobsInv, Witnessed
  <2> QED
    BY <2>1, <2>2
<1> QED
  BY <1>1, <1>3, <1>4, <1>5 DEF JobsInv

\* Only request r's frame changes, and no posting.
LEMMA MoveKeepsInv ==
  ASSUME JobsInv, NEW r \in JobReq, NEW f \in JobFrame, Witnessed(f),
         jreq' = [jreq EXCEPT ![r] = f], UNCHANGED <<job, everVisible>>,
         announced' \in {announced, announced \cup {jreq[r].job}},
         lost' \in {lost, lost \cup {jreq[r].job}},
         announced' # announced \/ lost' # lost => jreq[r].pc = "announce"
  PROVE  JobsInv'
<1>1. /\ jreq' \in [JobReq -> JobFrame]
      /\ \A s \in JobReq : jreq'[s] = IF s = r THEN f ELSE jreq[s]
  BY DEF JobsInv, JobsTypeOK
<1>2. announced' \subseteq everVisible /\ lost' \in SUBSET Jobs
  BY DEF JobsInv, JobsTypeOK, AnnouncedWasPublished, Witnessed
<1>3. JobsTypeOK'
  BY <1>1, <1>2 DEF JobsInv, JobsTypeOK
<1>4. \A s \in JobReq : Witnessed(jreq[s])'
  BY <1>1 DEF JobsInv, Witnessed
<1> QED
  BY <1>2, <1>3, <1>4 DEF JobsInv, AnnouncedWasPublished

\* The frame with which update, close and moderate go on after their load.
LEMMA LoadKeepsInv ==
  ASSUME JobsInv, NEW r \in JobReq, NEW j \in Jobs, NEW to \in JobStatus,
         LoadJob(r, j, to)
  PROVE  JobsInv'
<1> DEFINE f == [pc |-> "save", job |-> j, prev |-> job[j], to |-> to]
<1>1. f \in JobFrame
  BY DEF JobsInv, JobsTypeOK, JobFrame
<1>2. Witnessed(f)
  BY DEF JobsInv, Witnessed
<1>3. jreq' = [jreq EXCEPT ![r] = f] /\ UNCHANGED <<job, everVisible, announced, lost>>
  BY DEF LoadJob
<1> HIDE DEF f
<1> QED
  BY <1>1, <1>2, <1>3, MoveKeepsInv

\* No handler breaks the invariant, dying ones included.
LEMMA JobsInvStep == JobsInv /\ [JobsNext]_jobVars => JobsInv'
<1> SUFFICES ASSUME JobsInv, [JobsNext]_jobVars PROVE JobsInv'
  OBVIOUS
<1>0. JobIdle \in JobFrame /\ Witnessed(JobIdle)
  BY DEF JobIdle, JobFrame, Witnessed
<1>1. ASSUME NEW r \in JobReq, JobArrives(r) PROVE JobsInv'
  <2> PICK j \in Jobs :
        \/ \E c \in Companies :
             \/ \E s \in {"draft", "published", "closed"} : CreateJob(r, c, j, s)
             \/ UpdateJob(r, c, j)
             \/ CloseJob(r, c, j)
        \/ ModerateJob(r, j)
    BY <1>1 DEF JobArrives
  <2>1. ASSUME NEW c \in Companies, NEW s \in {"draft", "published", "closed"},
               CreateJob(r, c, j, s)
        PROVE  JobsInv'
    <3>1. s \in JobStatus
      BY DEF JobStatus
    <3> QED
      BY <2>1, <3>1, StoreKeepsInv DEF CreateJob
  <2>2. ASSUME NEW c \in Companies, UpdateJob(r, c, j) PROVE JobsInv'
    <3>1. PICK to \in {"draft", "published", "closed", job[j]} : LoadJob(r, j, to)
      BY <2>2 DEF UpdateJob
    <3>2. to \in JobStatus
      BY <3>1 DEF JobsInv, JobsTypeOK, JobStatus, LoadJob
    <3> QED
      BY <3>1, <3>2, LoadKeepsInv
  <2>3. ASSUME NEW c \in Companies, CloseJob(r, c, j) PROVE JobsInv'
    <3>1. LoadJob(r, j, "closed") /\ "closed" \in JobStatus
      BY <2>3 DEF CloseJob, JobStatus
    <3> QED
      BY <3>1, LoadKeepsInv
  <2>4. CASE ModerateJob(r, j)
    <3>1. PICK to \in {"published", "rejected", "closed"} : LoadJob(r, j, to)
      BY <2>4 DEF ModerateJob
    <3>2. to \in JobStatus
      BY DEF JobStatus
    <3> QED
      BY <3>1, <3>2, LoadKeepsInv
  <2> QED
    BY <2>1, <2>2, <2>3, <2>4
<1>2. ASSUME NEW r \in JobReq, JobContinues(r) PROVE JobsInv'
  <2> DEFINE q == jreq[r]
  <2>0. /\ q \in [pc : {"save", "write", "announce"}, job : Jobs,
                  prev : JobStatus \cup {"none"}, to : JobStatus]
        /\ Witnessed(q)
    BY <1>2, BusyFrame
       DEF JobContinues, SaveReadJob, SaveWriteJob, AnnounceJob, JobsInv, JobsTypeOK
  <2>1. CASE SaveReadJob(r)
    <3> DEFINE f == IF job[q.job] = q.to THEN AfterSave(q.job, q.prev, q.to)
                                         ELSE [q EXCEPT !.pc = "write"]
    <3>1. f \in JobFrame
      BY <2>0, AfterSaveIsFrame DEF JobFrame
    <3>2. Witnessed(f)
      <4>1. CASE job[q.job] = q.to
        BY <2>0, <4>1, AfterSaveIsFrame DEF JobsInv, Witnessed, JobIdle
      <4>2. CASE job[q.job] # q.to
        BY <2>0, <2>1, <4>2 DEF Witnessed, SaveReadJob
      <4> QED
        BY <4>1, <4>2
    <3>3. jreq' = [jreq EXCEPT ![r] = f] /\ UNCHANGED <<job, everVisible, announced, lost>>
      BY <2>1 DEF SaveReadJob
    <3> HIDE DEF f
    <3> QED
      BY <3>1, <3>2, <3>3, MoveKeepsInv
  <2>2. CASE SaveWriteJob(r)
    BY <2>0, <2>2, StoreKeepsInv DEF SaveWriteJob
  <2>3. CASE AnnounceJob(r)
    BY <1>0, <2>3, MoveKeepsInv DEF AnnounceJob
  <2> QED
    BY <1>2, <2>1, <2>2, <2>3 DEF JobContinues
<1>3. ASSUME NEW r \in JobReq, AbortJob(r) PROVE JobsInv'
  BY <1>0, <1>3, MoveKeepsInv DEF AbortJob
<1>4. CASE UNCHANGED jobVars
  BY <1>4 DEF jobVars, JobsInv, JobsTypeOK, AnnouncedWasPublished, Witnessed
<1> QED
  BY <1>1, <1>2, <1>3, <1>4 DEF JobsNext

\* Statuses, frames and the two histories are well formed in every reachable
\* state of JobsService.
THEOREM JobsTypeCorrect == JobsSpec => []JobsTypeOK
<1>1. JobsInv => JobsTypeOK
  BY DEF JobsInv
<1> QED
  BY <1>1, JobsInvInit, JobsInvStep, PTL DEF JobsSpec

\* notifyJobSeekers is called only for postings that were visible, with any
\* number of overlapping requests and requests dying at any await.
THEOREM AnnouncementsAreOfVisible == JobsSpec => []AnnouncedWasPublished
<1>1. JobsInv => AnnouncedWasPublished
  BY DEF JobsInv
<1> QED
  BY <1>1, JobsInvInit, JobsInvStep, PTL DEF JobsSpec

-----------------------------------------------------------------------------
\* A step that leaves the other frames alone keeps the promise for every posting
\* but the one r stands before announcing.
LEMMA OthersKeepPromise ==
  ASSUME JobsInv, VisibleIsOrWillBeAnnounced, NEW r \in JobReq, NEW f \in JobFrame,
         jreq' = [jreq EXCEPT ![r] = f],
         announced \subseteq announced', lost \subseteq lost',
         NEW j \in Jobs, j \in everVisible,
         Owed(jreq[r], j) => j \in announced' \cup lost'
  PROVE  j \in announced' \cup lost' \/ \E s \in JobReq : Owed(jreq'[s], j)
<1>1. \A s \in JobReq : jreq'[s] = IF s = r THEN f ELSE jreq[s]
  BY DEF JobsInv, JobsTypeOK
<1>2. CASE j \in announced \cup lost
  BY <1>2
<1>3. CASE j \notin announced \cup lost
  <2>1. PICK s \in JobReq : Owed(jreq[s], j)
    BY <1>3 DEF VisibleIsOrWillBeAnnounced, Owed
  <2>2. CASE s = r
    BY <2>1, <2>2
  <2>3. CASE s # r
    BY <1>1, <2>1, <2>3 DEF Owed
  <2> QED
    BY <2>2, <2>3
<1> QED
  BY <1>2, <1>3

\* Every step keeps the promise to announce: who makes a posting visible has seen
\* it invisible, or knows that it was visible before (Witnessed).
LEMMA PromiseStep ==
  ASSUME JobsInv, VisibleIsOrWillBeAnnounced, [JobsNext]_jobVars
  PROVE  VisibleIsOrWillBeAnnounced'
<1> SUFFICES ASSUME NEW j \in Jobs, j \in everVisible'
             PROVE  j \in announced' \cup lost' \/ \E s \in JobReq : Owed(jreq'[s], j)
  <2>1. everVisible' \subseteq Jobs
    BY JobsInvStep DEF JobsInv, JobsTypeOK
  <2> QED
    BY <2>1 DEF VisibleIsOrWillBeAnnounced, Owed
<1>0. JobIdle \in JobFrame
  BY DEF JobIdle, JobFrame
<1>1. ASSUME NEW r \in JobReq, NEW k \in Jobs,
             NEW prev \in JobStatus \cup {"none"}, NEW to \in JobStatus,
             StoreJob(k, to), jreq' = [jreq EXCEPT ![r] = AfterSave(k, prev, to)],
             UNCHANGED <<announced, lost>>,
             prev = "published" => k \in everVisible, jreq[r].pc # "announce"
      PROVE  j \in announced' \cup lost' \/ \E s \in JobReq : Owed(jreq'[s], j)
  <2> PICK f \in JobFrame : f = AfterSave(k, prev, to)
    BY AfterSaveIsFrame
  <2>1. jreq' = [jreq EXCEPT ![r] = f] /\ jreq'[r] = f
    BY <1>1 DEF JobsInv, JobsTypeOK
  <2>2. j \in everVisible \/ (j = k /\ to = "published" /\ prev # "published")
    BY <1>1 DEF StoreJob
  <2>3. CASE j \in everVisible
    <3>1. ~Owed(jreq[r], j) /\ announced \subseteq announced' /\ lost \subseteq lost'
      BY <1>1 DEF Owed
    <3> QED
      BY <2>1, <2>3, <3>1, OthersKeepPromise
  <2>4. CASE j = k /\ to = "published" /\ prev # "published"
    BY <2>1, <2>4, AfterSaveIsFrame DEF Owed
  <2> QED
    BY <2>2, <2>3, <2>4
<1>2. ASSUME NEW r \in JobReq, NEW f \in JobFrame, jreq[r].pc # "announce",
             jreq' = [jreq EXCEPT ![r] = f],
             UNCHANGED <<job, everVisible, announced, lost>>
      PROVE  j \in announced' \cup lost' \/ \E s \in JobReq : Owed(jreq'[s], j)
  <2>1. ~Owed(jreq[r], j)
    BY <1>2 DEF Owed
  <2> QED
    BY <1>2, <2>1, OthersKeepPromise
<1>3. ASSUME NEW r \in JobReq, JobArrives(r)
      PROVE  j \in announced' \cup lost' \/ \E s \in JobReq : Owed(jreq'[s], j)
  <2> PICK k \in Jobs :
        \/ \E c \in Companies :
             \/ \E s \in {"draft", "published", "closed"} : CreateJob(r, c, k, s)
             \/ UpdateJob(r, c, k)
             \/ CloseJob(r, c, k)
        \/ ModerateJob(r, k)
    BY <1>3 DEF JobArrives
  <2>1. ASSUME NEW c \in Companies, NEW s \in {"draft", "published", "closed"},
               CreateJob(r, c, k, s)
        PROVE  j \in announced' \cup lost' \/ \E t \in JobReq : Owed(jreq'[t], j)
    <3>1. s \in JobStatus
      BY DEF JobStatus
    <3> QED
      BY <1>1, <2>1, <3>1 DEF CreateJob
  <2>2. ASSUME NEW to \in {"draft", "published", "closed", "rejected", job[k]},
               LoadJob(r, k, to)
        PROVE  j \in announced' \cup lost' \/ \E t \in JobReq : Owed(jreq'[t], j)
    <3>1. [pc |-> "save", job |-> k, prev |-> job[k], to |-> to] \in JobFrame
      BY <2>2 DEF JobsInv, JobsTypeOK, JobStatus, JobFrame, LoadJob
    <3> QED
      BY <1>2, <2>2, <3>1 DEF LoadJob
  <2> QED
    BY <2>1, <2>2 DEF UpdateJob, CloseJob, ModerateJob
<1>4. ASSUME NEW r \in JobReq, JobContinues(r)
      PROVE  j \in announced' \cup lost' \/ \E s \in JobReq : Owed(jreq'[s], j)
  <2> DEFINE q == jreq[r]
  <2>0. /\ q \in [pc : {"save", "write", "announce"}, job : Jobs,
                  prev : JobStatus \cup {"none"}, to : JobStatus]
        /\ Witnessed(q)
    BY <1>4, BusyFrame
       DEF JobContinues, SaveReadJob, SaveWriteJob, AnnounceJob, JobsInv, JobsTypeOK
  <2>1. CASE SaveReadJob(r)
    <3> DEFINE f == IF job[q.job] = q.to THEN AfterSave(q.job, q.prev, q.to)
                                         ELSE [q EXCEPT !.pc = "write"]
    <3>1. f \in JobFrame
      BY <2>0, AfterSaveIsFrame DEF JobFrame
    <3>2. /\ jreq' = [jreq EXCEPT ![r] = f] /\ q.pc # "announce"
          /\ UNCHANGED <<job, everVisible, announced, lost>>
      BY <2>1 DEF SaveReadJob
    <3> HIDE DEF f
    <3> QED
      BY <1>2, <3>1, <3>2
  <2>2. CASE SaveWriteJob(r)
    <3> DEFINE k == jreq[r].job
               prev == jreq[r].prev
               to == jreq[r].to
    <3>1. prev = "published" => k \in everVisible
      BY <2>0 DEF Witnessed
    <3>2. k \in Jobs /\ prev \in JobStatus \cup {"none"} /\ to \in JobStatus
      BY <2>0
    <3>3. /\ StoreJob(k, to)
          /\ jreq' = [jreq EXCEPT ![r] = AfterSave(k, prev, to)]
          /\ UNCHANGED <<announced, lost>> /\ jreq[r].pc # "announce"
      BY <2>2 DEF SaveWriteJob
    <3> HIDE DEF k, prev, to
    <3> QED
      BY <1>1, <3>1, <3>2, <3>3
  <2>3. CASE AnnounceJob(r)
    <3>1. /\ Owed(q, j) => j \in announced' \cup lost'
          /\ announced \subseteq announced' /\ lost \subseteq lost'
          /\ jreq' = [jreq EXCEPT ![r] = JobIdle] /\ j \in everVisible
      BY <2>3 DEF AnnounceJob, Owed
    <3> QED
      BY <1>0, <3>1, OthersKeepPromise
  <2> QED
    BY <1>4, <2>1, <2>2, <2>3 DEF JobContinues
<1>5. ASSUME NEW r \in JobReq, AbortJob(r)
      PROVE  j \in announced' \cup lost' \/ \E s \in JobReq : Owed(jreq'[s], j)
  <2>1. /\ Owed(jreq[r], j) => j \in announced' \cup lost'
        /\ announced \subseteq announced' /\ lost \subseteq lost'
        /\ jreq' = [jreq EXCEPT ![r] = JobIdle] /\ j \in everVisible
    BY <1>5 DEF AbortJob, Owed
  <2> QED
    BY <1>0, <2>1, OthersKeepPromise
<1>6. CASE UNCHANGED jobVars
  BY <1>6 DEF jobVars, VisibleIsOrWillBeAnnounced, Owed
<1> QED
  BY <1>3, <1>4, <1>5, <1>6 DEF JobsNext

\* A posting that was ever visible is announced, or a request stands before its
\* announcement or died there, however many publishers overlap.
THEOREM NoAnnouncementForgotten == JobsSpec => []VisibleIsOrWillBeAnnounced
<1> DEFINE Inv == JobsInv /\ VisibleIsOrWillBeAnnounced
<1>1. JobsInit => Inv
  BY JobsInvInit DEF JobsInit, VisibleIsOrWillBeAnnounced
<1>2. Inv /\ [JobsNext]_jobVars => Inv'
  BY JobsInvStep, PromiseStep
<1>3. Inv => VisibleIsOrWillBeAnnounced
  OBVIOUS
<1> QED
  BY <1>1, <1>2, <1>3, PTL DEF JobsSpec
=============================================================================
