----------------------------- MODULE SitesProofs -----------------------------
(***************************************************************************)
(* Theorems about the sites, their records and the figures computed from   *)
(* them, for any number of projects, sites, users, rows and requests.      *)
(***************************************************************************)
EXTENDS CostReports, Sums

-----------------------------------------------------------------------------
\* Sites and their records.  A granted assignment has an active row; whoever
\* books has a row of his own, active or not.

\* A frame of a manager, by its place in the code.
LEMMA ManageFrameKinds ==
  ASSUME NEW f \in ManageFrame
  PROVE  /\ f.pc = "insertEngineer" => f.engineer \in Engineers
         /\ f.pc \in {"findActive", "insert"} =>
              f \in [pc : {"findActive", "insert"}, site : SiteIds, engineer : Engineers]
         /\ f.pc \in {"remove", "removeWrite"} =>
              f \in [pc : {"remove", "removeWrite"}, id : Nat \ {0}]
         /\ f.pc \in {"project", "projectWrite"} =>
              f \in [pc : {"project", "projectWrite"}, project : Projects,
                     status : {"draft"} \cup Edits, children : SUBSET SiteIds]
         /\ f.pc \in {"site", "siteWrite"} =>
              f \in [pc : {"site", "siteWrite"}, site : SiteIds,
                     status : {"active"} \cup Edits, children : SUBSET Nat]
  BY DEF ManageFrame

LEMMA ManageFrames ==
  /\ ManageIdle \in ManageFrame /\ ManageIdle.pc = "idle"
  /\ \A e \in Engineers : [pc |-> "insertEngineer", engineer |-> e] \in ManageFrame
  /\ \A f \in [pc : {"findActive", "insert"}, site : SiteIds, engineer : Engineers] :
       f \in ManageFrame
  /\ \A f \in [pc : {"remove", "removeWrite"}, id : Nat \ {0}] : f \in ManageFrame
  /\ \A f \in [pc : {"project", "projectWrite"}, project : Projects,
               status : {"draft"} \cup Edits, children : SUBSET SiteIds] : f \in ManageFrame
  /\ \A f \in [pc : {"site", "siteWrite"}, site : SiteIds,
               status : {"active"} \cup Edits, children : SUBSET Nat] : f \in ManageFrame
  BY DEF ManageFrame, ManageIdle

SitesInv == SitesTypeOK /\ AssignedHaveAccess

LEMMA SitesInvInit == SitesInit => SitesInv
  BY ManageFrames DEF SitesInit, SitesInv, SitesTypeOK, AssignedHaveAccess

\* A step of a manager that leaves the assignments alone.
LEMMA ManageStep ==
  ASSUME SitesInv, NEW r \in ManageReq, NEW f \in ManageFrame, ManageGoto(r, f),
         f.pc \in {"remove", "removeWrite"} => f.id \in DOMAIN assignment,
         UNCHANGED <<assignment, granted>>,
         project' \in [Projects -> {"none", "draft"} \cup Edits],
         site' \in [SiteIds -> {"none", "active"} \cup Edits],
         engineers' \in SUBSET Engineers
  PROVE  SitesInv'
<1>1. mreq \in [ManageReq -> ManageFrame] /\ mreq' = [mreq EXCEPT ![r] = f]
  BY DEF SitesInv, SitesTypeOK, ManageGoto
<1>2. mreq' \in [ManageReq -> ManageFrame]
  BY <1>1
<1>3. ASSUME NEW s \in ManageReq
      PROVE  mreq'[s].pc \in {"remove", "removeWrite"} => mreq'[s].id \in DOMAIN assignment
  BY <1>1 DEF SitesInv, SitesTypeOK
<1>4. SitesTypeOK'
  BY <1>2, <1>3 DEF SitesInv, SitesTypeOK
<1>5. AssignedHaveAccess'
  BY DEF SitesInv, AssignedHaveAccess, Assigned
<1> QED BY <1>4, <1>5 DEF SitesInv

LEMMA InsertAssignmentStep ==
  ASSUME SitesInv, NEW r \in ManageReq, InsertAssignment(r)
  PROVE  SitesInv'
<1> DEFINE q == mreq[r]
           row == [site |-> q.site, engineer |-> q.engineer, active |-> TRUE]
<1>1. q.site \in SiteIds /\ q.engineer \in Engineers
  BY ManageFrameKinds DEF InsertAssignment, SitesInv, SitesTypeOK
<1>2. /\ assignment' = Append(assignment, row) /\ granted' = granted \cup {<<q.site, q.engineer>>}
      /\ mreq' = [mreq EXCEPT ![r] = ManageIdle] /\ UNCHANGED <<project, site, engineers>>
  BY DEF InsertAssignment, ManageGoto
<1>3. row \in AssignmentRow /\ assignment \in Seq(AssignmentRow)
  BY <1>1 DEF AssignmentRow, SitesInv, SitesTypeOK
<1> HIDE DEF row
<1>4. /\ assignment' \in Seq(AssignmentRow)
      /\ Len(assignment') = Len(assignment) + 1
      /\ DOMAIN assignment = 1 .. Len(assignment)
      /\ DOMAIN assignment' = 1 .. Len(assignment')
      /\ Len(assignment) \in Nat
      /\ \A i \in 1 .. Len(assignment) : assignment'[i] = assignment[i]
      /\ assignment'[Len(assignment) + 1] = row
  BY <1>2, <1>3
<1>5. mreq' \in [ManageReq -> ManageFrame]
  BY <1>2, ManageFrames DEF SitesInv, SitesTypeOK
<1>6. ASSUME NEW s \in ManageReq
      PROVE  mreq'[s].pc \in {"remove", "removeWrite"} => mreq'[s].id \in DOMAIN assignment'
  <2>1. s # r => mreq'[s] = mreq[s]
    BY <1>2 DEF SitesInv, SitesTypeOK
  <2>2. s = r => mreq'[s].pc = "idle"
    BY <1>2, ManageFrames DEF SitesInv, SitesTypeOK
  <2>3. mreq[s].pc \in {"remove", "removeWrite"} => mreq[s].id \in DOMAIN assignment
    BY DEF SitesInv, SitesTypeOK
  <2>4. DOMAIN assignment \subseteq DOMAIN assignment'
    BY <1>4
  <2> QED BY <2>1, <2>2, <2>3, <2>4
<1>7. SitesTypeOK'
  <2>1. granted' \in SUBSET (SiteIds \X Engineers)
    BY <1>1, <1>2 DEF SitesInv, SitesTypeOK
  <2> QED BY <1>2, <1>4, <1>5, <1>6, <2>1 DEF SitesInv, SitesTypeOK
<1>8. ASSUME NEW s \in SiteIds, NEW e \in Engineers, <<s, e>> \in granted'
      PROVE  \E i \in DOMAIN assignment' :
               assignment'[i] = [site |-> s, engineer |-> e, active |-> TRUE]
  <2>1. CASE <<s, e>> \in granted
    <3>1. PICK i \in DOMAIN assignment :
            assignment[i] = [site |-> s, engineer |-> e, active |-> TRUE]
      BY <2>1 DEF SitesInv, AssignedHaveAccess, Assigned
    <3>2. i \in DOMAIN assignment' /\ assignment'[i] = assignment[i]
      BY <1>4
    <3> QED BY <3>1, <3>2
  <2>2. CASE <<s, e>> = <<q.site, q.engineer>>
    <3>1. row = [site |-> s, engineer |-> e, active |-> TRUE]
      BY <2>2 DEF row
    <3> QED BY <1>4, <3>1
  <2> QED BY <1>2, <1>8, <2>1, <2>2
<1>9. AssignedHaveAccess'
  BY <1>8 DEF AssignedHaveAccess, Assigned
<1> QED BY <1>7, <1>9 DEF SitesInv

LEMMA SaveWriteRemoveStep ==
  ASSUME SitesInv, NEW r \in ManageReq, SaveWriteRemove(r)
  PROVE  SitesInv'
<1> DEFINE i == mreq[r].id
<1>1. i \in DOMAIN assignment /\ assignment \in Seq(AssignmentRow)
  BY DEF SaveWriteRemove, SitesInv, SitesTypeOK
<1>2. /\ assignment' = [assignment EXCEPT ![i].active = FALSE]
      /\ granted' = granted \ {<<assignment[i].site, assignment[i].engineer>>}
      /\ mreq' = [mreq EXCEPT ![r] = ManageIdle] /\ UNCHANGED <<project, site, engineers>>
  BY DEF SaveWriteRemove, ManageGoto
<1> DEFINE row == [assignment[i] EXCEPT !.active = FALSE]
<1>3. assignment[i] \in AssignmentRow
  BY <1>1
<1>4. row \in AssignmentRow
  BY <1>3 DEF AssignmentRow
<1>5. assignment' = [assignment EXCEPT ![i] = row]
  BY <1>2
<1> HIDE DEF i, row
<1>6. /\ assignment' \in Seq(AssignmentRow) /\ DOMAIN assignment' = DOMAIN assignment
      /\ \A j \in DOMAIN assignment : j # i => assignment'[j] = assignment[j]
  BY <1>1, <1>4, <1>5
<1>7. mreq' \in [ManageReq -> ManageFrame]
  BY <1>2, ManageFrames DEF SitesInv, SitesTypeOK
<1>8. ASSUME NEW s \in ManageReq
      PROVE  mreq'[s].pc \in {"remove", "removeWrite"} => mreq'[s].id \in DOMAIN assignment'
  <2>1. s # r => mreq'[s] = mreq[s]
    BY <1>2 DEF SitesInv, SitesTypeOK
  <2>2. s = r => mreq'[s].pc = "idle"
    BY <1>2, ManageFrames DEF SitesInv, SitesTypeOK
  <2> QED BY <1>6, <2>1, <2>2 DEF SitesInv, SitesTypeOK
<1>9. SitesTypeOK'
  <2>1. granted' \in SUBSET (SiteIds \X Engineers)
    BY <1>2 DEF SitesInv, SitesTypeOK
  <2> QED BY <1>2, <1>6, <1>7, <1>8, <2>1 DEF SitesInv, SitesTypeOK
<1>10. ASSUME NEW s \in SiteIds, NEW e \in Engineers, <<s, e>> \in granted'
       PROVE  \E j \in DOMAIN assignment' :
                assignment'[j] = [site |-> s, engineer |-> e, active |-> TRUE]
  <2>1. <<s, e>> \in granted /\ <<s, e>> # <<assignment[i].site, assignment[i].engineer>>
    BY <1>2, <1>10
  <2>2. PICK j \in DOMAIN assignment :
          assignment[j] = [site |-> s, engineer |-> e, active |-> TRUE]
    BY <2>1 DEF SitesInv, AssignedHaveAccess, Assigned
  <2>3. j # i
    BY <2>1, <2>2
  <2> QED BY <1>6, <2>2, <2>3
<1>11. AssignedHaveAccess'
  BY <1>10 DEF AssignedHaveAccess, Assigned
<1> QED BY <1>9, <1>11 DEF SitesInv

LEMMA SitesInvStep == SitesInv /\ [SitesNext]_siteVars => SitesInv'
<1> SUFFICES ASSUME SitesInv, [SitesNext]_siteVars PROVE SitesInv'
  OBVIOUS
<1>1. CASE UNCHANGED siteVars
  BY <1>1 DEF siteVars, SitesInv, SitesTypeOK, AssignedHaveAccess, Assigned
<1>2. ASSUME NEW p \in Projects, CreateProject(p) PROVE SitesInv'
  BY <1>2 DEF CreateProject, SitesInv, SitesTypeOK, AssignedHaveAccess, Assigned
<1>3. ASSUME NEW s \in SiteIds, CreateSite(s) PROVE SitesInv'
  BY <1>3 DEF CreateSite, SitesInv, SitesTypeOK, AssignedHaveAccess, Assigned
<1>4. ASSUME NEW r \in ManageReq, ManageArrives(r) PROVE SitesInv'
  <2>1. ASSUME NEW e \in Engineers, BeginEngineer(r, e) PROVE SitesInv'
    <3>1. [pc |-> "insertEngineer", engineer |-> e] \in ManageFrame
      BY ManageFrames
    <3> QED BY <2>1, <3>1, ManageStep DEF BeginEngineer, SitesInv, SitesTypeOK
  <2>2. ASSUME NEW e \in Engineers, NEW s \in SiteIds, BeginAssign(r, s, e) PROVE SitesInv'
    <3>1. [pc |-> "findActive", site |-> s, engineer |-> e] \in ManageFrame
      BY ManageFrames
    <3> QED BY <2>2, <3>1, ManageStep DEF BeginAssign, SitesInv, SitesTypeOK
  <2>3. ASSUME NEW i \in DOMAIN assignment, BeginRemove(r, i) PROVE SitesInv'
    <3>1. i \in Nat \ {0}
      BY DEF SitesInv, SitesTypeOK
    <3>2. [pc |-> "remove", id |-> i] \in ManageFrame
      BY <3>1, ManageFrames
    <3> QED BY <2>3, <3>2, ManageStep DEF BeginRemove, SitesInv, SitesTypeOK
  <2>4. ASSUME NEW status, NEW p \in Projects, BeginEditProject(r, p, status) PROVE SitesInv'
    <3> DEFINE f == [pc |-> "project", project |-> p, status |-> status, children |-> SitesOf(p)]
    <3>1. status \in {"draft"} \cup Edits /\ SitesOf(p) \in SUBSET SiteIds
      BY <2>4 DEF BeginEditProject, SitesInv, SitesTypeOK, SitesOf
    <3>2. f \in ManageFrame
      BY <3>1, ManageFrames
    <3> QED BY <2>4, <3>2, ManageStep DEF BeginEditProject, SitesInv, SitesTypeOK
  <2>5. ASSUME NEW status, NEW s \in SiteIds, BeginEditSite(r, s, status) PROVE SitesInv'
    <3> DEFINE f == [pc |-> "site", site |-> s, status |-> status, children |-> AssignmentsOf(s)]
    <3>1. DOMAIN assignment \subseteq Nat
      BY DEF SitesInv, SitesTypeOK
    <3>2. status \in {"active"} \cup Edits /\ AssignmentsOf(s) \in SUBSET Nat
      BY <2>5, <3>1 DEF BeginEditSite, SitesInv, SitesTypeOK, AssignmentsOf
    <3>3. f \in ManageFrame
      BY <3>2, ManageFrames
    <3> QED BY <2>5, <3>3, ManageStep DEF BeginEditSite, SitesInv, SitesTypeOK
  <2> QED BY <1>4, <2>1, <2>2, <2>3, <2>4, <2>5 DEF ManageArrives
<1>5. ASSUME NEW r \in ManageReq, ManageContinues(r) PROVE SitesInv'
  <2> DEFINE q == mreq[r]
  <2>1. q \in ManageFrame
    BY DEF SitesInv, SitesTypeOK
  <2>2. CASE InsertEngineer(r)
    BY <2>1, <2>2, ManageFrameKinds, ManageFrames, ManageStep
      DEF InsertEngineer, SitesInv, SitesTypeOK
  <2>3. CASE FindActive(r)
    <3> DEFINE f == IF Assigned(q.engineer, q.site) THEN ManageIdle ELSE [q EXCEPT !.pc = "insert"]
    <3>1. q \in [pc : {"findActive", "insert"}, site : SiteIds, engineer : Engineers]
      BY <2>1, <2>3, ManageFrameKinds DEF FindActive
    <3>2. [q EXCEPT !.pc = "insert"]
            \in [pc : {"findActive", "insert"}, site : SiteIds, engineer : Engineers]
      BY <3>1
    <3>3. f \in ManageFrame /\ f.pc \in {"idle", "insert"}
      BY <3>1, <3>2, ManageFrames
    <3> QED BY <2>3, <3>3, ManageStep DEF FindActive, SitesInv, SitesTypeOK
  <2>4. CASE SaveReadRemove(r)
    <3> DEFINE f == IF assignment[q.id].active THEN [q EXCEPT !.pc = "removeWrite"]
                    ELSE ManageIdle
    <3>1. q \in [pc : {"remove", "removeWrite"}, id : Nat \ {0}] /\ q.id \in DOMAIN assignment
      BY <2>1, <2>4, ManageFrameKinds DEF SaveReadRemove, SitesInv, SitesTypeOK
    <3>2. /\ [q EXCEPT !.pc = "removeWrite"] \in [pc : {"remove", "removeWrite"}, id : Nat \ {0}]
          /\ [q EXCEPT !.pc = "removeWrite"].id = q.id
      BY <3>1
    <3>3. f \in ManageFrame /\ (f.pc \in {"remove", "removeWrite"} => f.id \in DOMAIN assignment)
      BY <3>1, <3>2, ManageFrames
    <3> QED BY <2>4, <3>3, ManageStep DEF SaveReadRemove, SitesInv, SitesTypeOK
  <2>5. CASE SaveReadProject(r)
    <3>1. q \in [pc : {"project", "projectWrite"}, project : Projects,
                 status : {"draft"} \cup Edits, children : SUBSET SiteIds]
      BY <2>1, <2>5, ManageFrameKinds DEF SaveReadProject
    <3>2. [q EXCEPT !.pc = "projectWrite"]
            \in [pc : {"project", "projectWrite"}, project : Projects,
                 status : {"draft"} \cup Edits, children : SUBSET SiteIds]
            /\ [q EXCEPT !.pc = "projectWrite"].pc = "projectWrite"
      BY <3>1
    <3>3. PICK f \in ManageFrame : ManageGoto(r, f) /\ f.pc \in {"idle", "projectWrite"}
      BY <2>5, <3>2, ManageFrames DEF SaveReadProject
    <3> QED BY <2>5, <3>3, ManageStep DEF SaveReadProject, SitesInv, SitesTypeOK
  <2>6. CASE SaveWriteProject(r)
    <3>1. q.status \in {"draft"} \cup Edits
      BY <2>1, <2>6, ManageFrameKinds DEF SaveWriteProject
    <3>2. project' \in [Projects -> {"none", "draft"} \cup Edits]
      BY <2>6, <3>1 DEF SaveWriteProject, SitesInv, SitesTypeOK
    <3> QED BY <2>6, <3>2, ManageFrames, ManageStep DEF SaveWriteProject, SitesInv, SitesTypeOK
  <2>7. CASE SaveReadSite(r)
    <3>1. q \in [pc : {"site", "siteWrite"}, site : SiteIds,
                 status : {"active"} \cup Edits, children : SUBSET Nat]
      BY <2>1, <2>7, ManageFrameKinds DEF SaveReadSite
    <3>2. [q EXCEPT !.pc = "siteWrite"]
            \in [pc : {"site", "siteWrite"}, site : SiteIds,
                 status : {"active"} \cup Edits, children : SUBSET Nat]
            /\ [q EXCEPT !.pc = "siteWrite"].pc = "siteWrite"
      BY <3>1
    <3>3. PICK f \in ManageFrame : ManageGoto(r, f) /\ f.pc \in {"idle", "siteWrite"}
      BY <2>7, <3>2, ManageFrames DEF SaveReadSite
    <3> QED BY <2>7, <3>3, ManageStep DEF SaveReadSite, SitesInv, SitesTypeOK
  <2>8. CASE SaveWriteSite(r)
    <3>1. q.status \in {"active"} \cup Edits
      BY <2>1, <2>8, ManageFrameKinds DEF SaveWriteSite
    <3>2. site' \in [SiteIds -> {"none", "active"} \cup Edits]
      BY <2>8, <3>1 DEF SaveWriteSite, SitesInv, SitesTypeOK
    <3> QED BY <2>8, <3>2, ManageFrames, ManageStep DEF SaveWriteSite, SitesInv, SitesTypeOK
  <2> QED
    BY <1>5, <2>2, <2>3, <2>4, <2>5, <2>6, <2>7, <2>8, InsertAssignmentStep, SaveWriteRemoveStep
      DEF ManageContinues
<1>6. ASSUME NEW r \in ManageReq, AbortManage(r) PROVE SitesInv'
  BY <1>6, ManageFrames, ManageStep DEF AbortManage, SitesInv, SitesTypeOK
<1> QED
  BY <1>1, <1>2, <1>3, <1>4, <1>5, <1>6 DEF SitesNext

\* Rows, statuses and frames of the managers' services are of their types.
THEOREM SitesTypeCorrect == SitesSpec => []SitesTypeOK
<1>1. SitesInv => SitesTypeOK BY DEF SitesInv
<1> QED BY <1>1, SitesInvInit, SitesInvStep, PTL DEF SitesSpec

\* Whoever was assigned and not removed since may work on the site, whatever
\* edits of the site and other removals do meanwhile.
THEOREM AssignedKeepAccess == SitesSpec => []AssignedHaveAccess
<1>1. SitesInv => AssignedHaveAccess BY DEF SitesInv
<1> QED BY <1>1, SitesInvInit, SitesInvStep, PTL DEF SitesSpec

-----------------------------------------------------------------------------
\* How many removals access can outlive.  assignEngineer looks for an active
\* assignment and inserts one some awaits later; a second active row is made by a
\* request that has looked before the first one inserts, and by nothing else.

\* The active rows of a pair and the requests about to make one are finite sets.
LEMMA ActiveRowsAreFinite ==
  ASSUME SitesTypeOK, IsFiniteSet(ManageReq), NEW e, NEW s
  PROVE  /\ IsFiniteSet(ActiveRowsOf(e, s)) /\ Cardinality(ActiveRowsOf(e, s)) \in Nat
         /\ IsFiniteSet(AboutToAssign(e, s)) /\ Cardinality(AboutToAssign(e, s)) \in Nat
         /\ Cardinality(ManageReq) \in Nat
<1>1. Len(assignment) \in Nat /\ DOMAIN assignment = 1 .. Len(assignment)
  BY DEF SitesTypeOK
<1>2. IsFiniteSet(DOMAIN assignment)
  BY <1>1, FS_Interval
<1>3. ActiveRowsOf(e, s) \subseteq DOMAIN assignment /\ AboutToAssign(e, s) \subseteq ManageReq
  BY DEF ActiveRowsOf, AboutToAssign
<1>4. IsFiniteSet(ActiveRowsOf(e, s)) /\ IsFiniteSet(AboutToAssign(e, s))
  BY <1>2, <1>3, FS_Subset
<1> QED BY <1>4, FS_CardinalityType

\* A step that makes no row active and lets no request believe that there is none.
LEMMA WaitsKeepRows ==
  ASSUME SitesTypeOK, IsFiniteSet(ManageReq), RemovalsAreBounded,
         DOMAIN assignment' = DOMAIN assignment,
         \A i \in DOMAIN assignment : assignment'[i] = assignment[i] \/ ~assignment'[i].active,
         \A r \in ManageReq :
           \/ mreq'[r] = mreq[r]
           \/ mreq'[r].pc # "insert"
           \/ /\ ~Assigned(mreq'[r].engineer, mreq'[r].site)
              /\ assignment' = assignment
  PROVE  RemovalsAreBounded'
<1>1. SUFFICES ASSUME NEW e \in Engineers, NEW s \in SiteIds
               PROVE  Cardinality(ActiveRowsOf(e, s)') + Cardinality(AboutToAssign(e, s)')
                        <= Cardinality(ManageReq)
  BY DEF RemovalsAreBounded
<1>2. /\ IsFiniteSet(ActiveRowsOf(e, s)) /\ Cardinality(ActiveRowsOf(e, s)) \in Nat
      /\ IsFiniteSet(AboutToAssign(e, s)) /\ Cardinality(AboutToAssign(e, s)) \in Nat
      /\ Cardinality(ManageReq) \in Nat
  BY ActiveRowsAreFinite
<1>3. ActiveRowsOf(e, s)' \subseteq ActiveRowsOf(e, s)
  <2>1. ASSUME NEW i \in ActiveRowsOf(e, s)' PROVE i \in ActiveRowsOf(e, s)
    <3>1. /\ i \in DOMAIN assignment
          /\ assignment'[i] = [site |-> s, engineer |-> e, active |-> TRUE]
      BY <2>1 DEF ActiveRowsOf
    <3>2. assignment'[i].active
      BY <3>1
    <3> QED BY <3>1, <3>2 DEF ActiveRowsOf
  <2> QED BY <2>1
<1>4. /\ Cardinality(ActiveRowsOf(e, s)') \in Nat
      /\ Cardinality(ActiveRowsOf(e, s)') <= Cardinality(ActiveRowsOf(e, s))
  <2>1. IsFiniteSet(ActiveRowsOf(e, s)')
    BY <1>2, <1>3, FS_Subset
  <2> QED BY <1>2, <1>3, <2>1, FS_Subset, FS_CardinalityType
<1>5. CASE AboutToAssign(e, s)' \subseteq AboutToAssign(e, s)
  <2>1. /\ Cardinality(AboutToAssign(e, s)') \in Nat
        /\ Cardinality(AboutToAssign(e, s)') <= Cardinality(AboutToAssign(e, s))
    <3>1. IsFiniteSet(AboutToAssign(e, s)')
      BY <1>2, <1>5, FS_Subset
    <3> QED BY <1>2, <1>5, <3>1, FS_Subset, FS_CardinalityType
  <2>2. Cardinality(ActiveRowsOf(e, s)) + Cardinality(AboutToAssign(e, s))
          <= Cardinality(ManageReq)
    BY DEF RemovalsAreBounded
  <2> QED BY <1>2, <1>4, <2>1, <2>2
<1>6. CASE ~(AboutToAssign(e, s)' \subseteq AboutToAssign(e, s))
  <2>1. PICK r \in AboutToAssign(e, s)' : r \notin AboutToAssign(e, s)
    BY <1>6
  <2>2. /\ r \in ManageReq /\ mreq'[r] # mreq[r] /\ mreq'[r].pc = "insert"
        /\ mreq'[r].engineer = e /\ mreq'[r].site = s
    BY <2>1 DEF AboutToAssign
  <2>3. ~Assigned(e, s) /\ assignment' = assignment
    BY <2>2
  <2>4. ActiveRowsOf(e, s)' = {}
    BY <2>3 DEF Assigned, ActiveRowsOf
  <2>5. AboutToAssign(e, s)' \subseteq ManageReq
    BY DEF AboutToAssign
  <2>6. /\ Cardinality(AboutToAssign(e, s)') \in Nat
        /\ Cardinality(AboutToAssign(e, s)') <= Cardinality(ManageReq)
    <3>1. IsFiniteSet(AboutToAssign(e, s)')
      BY <2>5, FS_Subset
    <3> QED BY <2>5, <3>1, FS_Subset, FS_CardinalityType
  <2>7. Cardinality(ActiveRowsOf(e, s)') = 0
    BY <2>4, FS_EmptySet
  <2> QED BY <1>2, <2>6, <2>7
<1> QED BY <1>5, <1>6

\* An insert makes one row active and is one request less that is about to.
LEMMA InsertKeepsRows ==
  ASSUME SitesTypeOK, IsFiniteSet(ManageReq), RemovalsAreBounded,
         NEW r \in ManageReq, InsertAssignment(r)
  PROVE  RemovalsAreBounded'
<1> DEFINE q == mreq[r]
           row == [site |-> q.site, engineer |-> q.engineer, active |-> TRUE]
           n == Len(assignment) + 1
<1>1. q.pc = "insert" /\ q.site \in SiteIds /\ q.engineer \in Engineers
  BY ManageFrameKinds DEF InsertAssignment, SitesTypeOK
<1>2. assignment' = Append(assignment, row) /\ mreq' = [mreq EXCEPT ![r] = ManageIdle]
  BY DEF InsertAssignment, ManageGoto
<1>3. row \in AssignmentRow /\ assignment \in Seq(AssignmentRow)
  BY <1>1 DEF AssignmentRow, SitesTypeOK
<1>4. \A s, e : row = [site |-> s, engineer |-> e, active |-> TRUE]
                  => s = q.site /\ e = q.engineer
  OBVIOUS
<1> HIDE DEF row
<1>5. /\ DOMAIN assignment' = DOMAIN assignment \cup {n}
      /\ n \notin DOMAIN assignment
      /\ \A i \in DOMAIN assignment : assignment'[i] = assignment[i]
      /\ assignment'[n] = row
  BY <1>2, <1>3
<1> HIDE DEF n
<1>6. /\ \A t \in ManageReq : mreq'[t] = IF t = r THEN ManageIdle ELSE mreq[t]
      /\ ManageIdle.pc # "insert"
  BY <1>2 DEF SitesTypeOK, ManageIdle
<1>7. SUFFICES ASSUME NEW e \in Engineers, NEW s \in SiteIds
               PROVE  Cardinality(ActiveRowsOf(e, s)') + Cardinality(AboutToAssign(e, s)')
                        <= Cardinality(ManageReq)
  BY DEF RemovalsAreBounded
<1>8. /\ IsFiniteSet(ActiveRowsOf(e, s)) /\ Cardinality(ActiveRowsOf(e, s)) \in Nat
      /\ IsFiniteSet(AboutToAssign(e, s)) /\ Cardinality(AboutToAssign(e, s)) \in Nat
      /\ Cardinality(ManageReq) \in Nat
  BY ActiveRowsAreFinite
<1>9. Cardinality(ActiveRowsOf(e, s)) + Cardinality(AboutToAssign(e, s))
        <= Cardinality(ManageReq)
  BY DEF RemovalsAreBounded
<1>10. AboutToAssign(e, s)' \subseteq AboutToAssign(e, s) \ {r}
  BY <1>6 DEF AboutToAssign
<1>11. CASE q.site = s /\ q.engineer = e
  <2>1. ActiveRowsOf(e, s)' \subseteq ActiveRowsOf(e, s) \cup {n} /\ n \notin ActiveRowsOf(e, s)
    BY <1>5 DEF ActiveRowsOf
  <2>2. r \in AboutToAssign(e, s)
    BY <1>1, <1>11 DEF AboutToAssign
  <2>3. /\ IsFiniteSet(AboutToAssign(e, s) \ {r})
        /\ Cardinality(AboutToAssign(e, s) \ {r}) = Cardinality(AboutToAssign(e, s)) - 1
    BY <1>8, <2>2, FS_RemoveElement
  <2>4. /\ Cardinality(AboutToAssign(e, s)') \in Nat
        /\ Cardinality(AboutToAssign(e, s)') <= Cardinality(AboutToAssign(e, s)) - 1
    <3>1. IsFiniteSet(AboutToAssign(e, s)')
      BY <1>10, <2>3, FS_Subset
    <3> QED BY <1>10, <2>3, <3>1, FS_Subset, FS_CardinalityType
  <2>5. /\ IsFiniteSet(ActiveRowsOf(e, s) \cup {n})
        /\ Cardinality(ActiveRowsOf(e, s) \cup {n}) = Cardinality(ActiveRowsOf(e, s)) + 1
    BY <1>8, <2>1, FS_AddElement
  <2>6. /\ Cardinality(ActiveRowsOf(e, s)') \in Nat
        /\ Cardinality(ActiveRowsOf(e, s)') <= Cardinality(ActiveRowsOf(e, s)) + 1
    <3>1. IsFiniteSet(ActiveRowsOf(e, s)')
      BY <2>1, <2>5, FS_Subset
    <3> QED BY <2>1, <2>5, <3>1, FS_Subset, FS_CardinalityType
  <2> QED BY <1>8, <1>9, <2>4, <2>6
<1>12. CASE ~(q.site = s /\ q.engineer = e)
  <2>1. ActiveRowsOf(e, s)' = ActiveRowsOf(e, s)
    <3>1. row # [site |-> s, engineer |-> e, active |-> TRUE]
      BY <1>4, <1>12
    <3> QED BY <1>5, <3>1 DEF ActiveRowsOf
  <2>2. AboutToAssign(e, s)' \subseteq AboutToAssign(e, s)
    BY <1>10
  <2>3. /\ Cardinality(AboutToAssign(e, s)') \in Nat
        /\ Cardinality(AboutToAssign(e, s)') <= Cardinality(AboutToAssign(e, s))
    <3>1. IsFiniteSet(AboutToAssign(e, s)')
      BY <1>8, <2>2, FS_Subset
    <3> QED BY <1>8, <2>2, <3>1, FS_Subset, FS_CardinalityType
  <2> QED BY <1>8, <1>9, <2>1, <2>3
<1> QED BY <1>11, <1>12

LEMMA RowsStep ==
  ASSUME IsFiniteSet(ManageReq), SitesTypeOK, RemovalsAreBounded, [SitesNext]_siteVars
  PROVE  RemovalsAreBounded'
<1>1. CASE UNCHANGED <<assignment, mreq>>
  BY <1>1, WaitsKeepRows
<1>2. ASSUME NEW r \in ManageReq, NEW f, mreq' = [mreq EXCEPT ![r] = f],
             DOMAIN assignment' = DOMAIN assignment,
             \A i \in DOMAIN assignment :
               assignment'[i] = assignment[i] \/ ~assignment'[i].active,
             \/ f.pc # "insert"
             \/ ~Assigned(f.engineer, f.site) /\ assignment' = assignment
      PROVE  RemovalsAreBounded'
  <2>1. \A t \in ManageReq : mreq'[t] = IF t = r THEN f ELSE mreq[t]
    BY <1>2 DEF SitesTypeOK
  <2> QED BY <1>2, <2>1, WaitsKeepRows
<1>3. ASSUME NEW r \in ManageReq, NEW f, mreq' = [mreq EXCEPT ![r] = f],
             UNCHANGED assignment, f.pc # "insert"
      PROVE  RemovalsAreBounded'
  BY <1>2, <1>3
<1>4. ASSUME NEW p \in Projects, CreateProject(p) PROVE RemovalsAreBounded'
  BY <1>1, <1>4 DEF CreateProject
<1>5. ASSUME NEW s \in SiteIds, CreateSite(s) PROVE RemovalsAreBounded'
  BY <1>1, <1>5 DEF CreateSite
<1>6. ASSUME NEW r \in ManageReq, ManageArrives(r) PROVE RemovalsAreBounded'
  <2>1. ASSUME NEW e \in Engineers, BeginEngineer(r, e) PROVE RemovalsAreBounded'
    <3> DEFINE f == [pc |-> "insertEngineer", engineer |-> e]
    <3>1. mreq' = [mreq EXCEPT ![r] = f] /\ UNCHANGED assignment /\ f.pc # "insert"
      BY <2>1 DEF BeginEngineer, ManageGoto
    <3> HIDE DEF f
    <3> QED BY <1>3, <3>1
  <2>2. ASSUME NEW e \in Engineers, NEW s \in SiteIds, BeginAssign(r, s, e)
        PROVE  RemovalsAreBounded'
    <3> DEFINE f == [pc |-> "findActive", site |-> s, engineer |-> e]
    <3>1. mreq' = [mreq EXCEPT ![r] = f] /\ UNCHANGED assignment /\ f.pc # "insert"
      BY <2>2 DEF BeginAssign, ManageGoto
    <3> HIDE DEF f
    <3> QED BY <1>3, <3>1
  <2>3. ASSUME NEW i \in DOMAIN assignment, BeginRemove(r, i) PROVE RemovalsAreBounded'
    <3> DEFINE f == [pc |-> "remove", id |-> i]
    <3>1. mreq' = [mreq EXCEPT ![r] = f] /\ UNCHANGED assignment /\ f.pc # "insert"
      BY <2>3 DEF BeginRemove, ManageGoto
    <3> HIDE DEF f
    <3> QED BY <1>3, <3>1
  <2>4. ASSUME NEW status, NEW p \in Projects, BeginEditProject(r, p, status)
        PROVE  RemovalsAreBounded'
    <3> DEFINE f == [pc |-> "project", project |-> p, status |-> status, children |-> SitesOf(p)]
    <3>1. mreq' = [mreq EXCEPT ![r] = f] /\ UNCHANGED assignment /\ f.pc # "insert"
      BY <2>4 DEF BeginEditProject, ManageGoto
    <3> HIDE DEF f
    <3> QED BY <1>3, <3>1
  <2>5. ASSUME NEW status, NEW s \in SiteIds, BeginEditSite(r, s, status)
        PROVE  RemovalsAreBounded'
    <3> DEFINE f == [pc |-> "site", site |-> s, status |-> status, children |-> AssignmentsOf(s)]
    <3>1. mreq' = [mreq EXCEPT ![r] = f] /\ UNCHANGED assignment /\ f.pc # "insert"
      BY <2>5 DEF BeginEditSite, ManageGoto
    <3> HIDE DEF f
    <3> QED BY <1>3, <3>1
  <2> QED BY <1>6, <2>1, <2>2, <2>3, <2>4, <2>5 DEF ManageArrives
<1>7. ManageIdle.pc # "insert"
  BY DEF ManageIdle
<1>8. ASSUME NEW r \in ManageReq, ManageContinues(r) PROVE RemovalsAreBounded'
  <2> DEFINE q == mreq[r]
  <2>1. q \in ManageFrame
    BY DEF SitesTypeOK
  <2>2. CASE InsertEngineer(r) \/ SaveWriteProject(r) \/ SaveWriteSite(r)
    BY <1>3, <1>7, <2>2 DEF InsertEngineer, SaveWriteProject, SaveWriteSite, ManageGoto
  <2>3. CASE FindActive(r)
    <3> DEFINE f == [q EXCEPT !.pc = "insert"]
    <3>1. q \in [pc : {"findActive", "insert"}, site : SiteIds, engineer : Engineers]
      BY <2>1, <2>3, ManageFrameKinds DEF FindActive
    <3>2. f.pc = "insert" /\ f.site = q.site /\ f.engineer = q.engineer
      BY <3>1
    <3>3. CASE Assigned(q.engineer, q.site)
      BY <1>3, <1>7, <2>3, <3>3 DEF FindActive, ManageGoto
    <3>4. CASE ~Assigned(q.engineer, q.site)
      <4>1. mreq' = [mreq EXCEPT ![r] = f] /\ UNCHANGED assignment
        BY <2>3, <3>4 DEF FindActive, ManageGoto
      <4> HIDE DEF f
      <4> QED BY <1>2, <3>2, <3>4, <4>1
    <3> QED BY <3>3, <3>4
  <2>4. CASE SaveReadRemove(r)
    <3> DEFINE f == [q EXCEPT !.pc = "removeWrite"]
    <3>1. q \in [pc : {"remove", "removeWrite"}, id : Nat \ {0}]
      BY <2>1, <2>4, ManageFrameKinds DEF SaveReadRemove
    <3>2. f.pc = "removeWrite"
      BY <3>1
    <3>3. /\ UNCHANGED assignment
          /\ mreq' = [mreq EXCEPT ![r] = f] \/ mreq' = [mreq EXCEPT ![r] = ManageIdle]
      BY <2>4 DEF SaveReadRemove, ManageGoto
    <3> HIDE DEF f
    <3> QED BY <1>3, <1>7, <3>2, <3>3
  <2>5. CASE SaveReadProject(r) \/ SaveReadSite(r)
    <3> DEFINE f == [q EXCEPT !.pc = "projectWrite"]
               g == [q EXCEPT !.pc = "siteWrite"]
    <3>1. (q.pc = "project" => f.pc = "projectWrite") /\ (q.pc = "site" => g.pc = "siteWrite")
      BY <2>1, ManageFrameKinds
    <3>2. /\ UNCHANGED assignment
          /\ \/ mreq' = [mreq EXCEPT ![r] = ManageIdle]
             \/ q.pc = "project" /\ mreq' = [mreq EXCEPT ![r] = f]
             \/ q.pc = "site" /\ mreq' = [mreq EXCEPT ![r] = g]
      BY <2>5 DEF SaveReadProject, SaveReadSite, ManageGoto
    <3> HIDE DEF f, g
    <3> QED BY <1>3, <1>7, <3>1, <3>2
  <2>6. CASE SaveWriteRemove(r)
    <3> DEFINE i == q.id
               old == assignment[i]
               row == [old EXCEPT !.active = FALSE]
    <3>1. i \in DOMAIN assignment
      BY <2>6 DEF SaveWriteRemove, SitesTypeOK
    <3>2. /\ assignment' = [assignment EXCEPT ![i] = row]
          /\ mreq' = [mreq EXCEPT ![r] = ManageIdle]
      BY <2>6 DEF SaveWriteRemove, ManageGoto
    <3>3. old \in AssignmentRow
      BY <3>1 DEF SitesTypeOK
    <3> HIDE DEF i, old
    <3>4. ~row.active
      BY <3>3 DEF AssignmentRow
    <3> HIDE DEF row
    <3>5. /\ DOMAIN assignment' = DOMAIN assignment
          /\ \A j \in DOMAIN assignment : j # i => assignment'[j] = assignment[j]
          /\ ~assignment'[i].active
      BY <3>1, <3>2, <3>4
    <3>6. \A j \in DOMAIN assignment :
            assignment'[j] = assignment[j] \/ ~assignment'[j].active
      BY <3>5
    <3> QED BY <1>2, <1>7, <3>2, <3>5, <3>6
  <2> QED
    BY <1>8, <2>2, <2>3, <2>4, <2>5, <2>6, InsertKeepsRows DEF ManageContinues
<1>9. ASSUME NEW r \in ManageReq, AbortManage(r) PROVE RemovalsAreBounded'
  BY <1>3, <1>7, <1>9 DEF AbortManage, ManageGoto
<1> QED
  BY <1>1, <1>4, <1>5, <1>6, <1>8, <1>9 DEF SitesNext, siteVars

\* However assignments of an engineer to a site overlap and die between the lookup
\* and the insert, access never outlives more removals than there are managers'
\* requests that could be in flight together.
THEOREM AccessEndsWithRemovals ==
  ASSUME IsFiniteSet(ManageReq)
  PROVE  SitesSpec => []RemovalsAreBounded
<1>1. SitesInit => RemovalsAreBounded
  <2> SUFFICES ASSUME SitesInit, NEW e \in Engineers, NEW s \in SiteIds
               PROVE  Cardinality(ActiveRowsOf(e, s)) + Cardinality(AboutToAssign(e, s))
                        <= Cardinality(ManageReq)
    BY DEF RemovalsAreBounded
  <2>1. ActiveRowsOf(e, s) = {} /\ AboutToAssign(e, s) = {}
    BY DEF SitesInit, ManageIdle, ActiveRowsOf, AboutToAssign
  <2> QED BY <2>1, FS_EmptySet, FS_CardinalityType
<1>2. SitesTypeOK /\ RemovalsAreBounded /\ [SitesNext]_siteVars => RemovalsAreBounded'
  BY RowsStep
<1> QED BY <1>1, <1>2, SitesTypeCorrect, PTL DEF SitesSpec

-----------------------------------------------------------------------------
Covered(row, a) ==
  row.by \in Engineers => \E i \in DOMAIN a : a[i].site = row.site /\ a[i].engineer = row.by

\* No assignment disappears or changes hands.
LEMMA AssignmentsStay ==
  ASSUME SitesInv, [SitesNext]_siteVars
  PROVE  /\ DOMAIN assignment \subseteq DOMAIN assignment'
         /\ \A i \in DOMAIN assignment :
              /\ assignment'[i].site = assignment[i].site
              /\ assignment'[i].engineer = assignment[i].engineer
<1>1. assignment \in Seq(AssignmentRow)
  BY DEF SitesInv, SitesTypeOK
<1>2. ASSUME NEW r \in ManageReq, InsertAssignment(r)
      PROVE  /\ DOMAIN assignment \subseteq DOMAIN assignment'
             /\ \A i \in DOMAIN assignment : assignment'[i] = assignment[i]
  <2> DEFINE row == [site |-> mreq[r].site, engineer |-> mreq[r].engineer, active |-> TRUE]
  <2>1. assignment' = Append(assignment, row)
    BY <1>2 DEF InsertAssignment
  <2>2. row \in AssignmentRow
    BY <1>2, ManageFrameKinds DEF InsertAssignment, SitesInv, SitesTypeOK, AssignmentRow
  <2> HIDE DEF row
  <2> QED BY <1>1, <2>1, <2>2
<1>3. ASSUME NEW r \in ManageReq, SaveWriteRemove(r)
      PROVE  /\ DOMAIN assignment' = DOMAIN assignment
             /\ \A i \in DOMAIN assignment :
                  /\ assignment'[i].site = assignment[i].site
                  /\ assignment'[i].engineer = assignment[i].engineer
  <2> DEFINE k == mreq[r].id
  <2>1. k \in DOMAIN assignment /\ assignment' = [assignment EXCEPT ![k].active = FALSE]
    BY <1>3 DEF SaveWriteRemove, SitesInv, SitesTypeOK
  <2>2. assignment[k] \in AssignmentRow
    BY <1>1, <2>1
  <2> HIDE DEF k
  <2> QED BY <1>1, <2>1, <2>2 DEF AssignmentRow
<1>4. CASE UNCHANGED assignment
  BY <1>4
<1>5. UNCHANGED assignment
        \/ \E r \in ManageReq : InsertAssignment(r) \/ SaveWriteRemove(r)
  BY DEF SitesNext, siteVars, CreateProject, CreateSite, ManageArrives, ManageContinues,
     AbortManage, BeginEngineer, BeginAssign, BeginRemove, BeginEditProject, BeginEditSite,
     InsertEngineer, FindActive, SaveReadRemove, SaveReadProject, SaveWriteProject,
     SaveReadSite, SaveWriteSite
<1> QED BY <1>2, <1>3, <1>4, <1>5

LEMMA CoverStays ==
  ASSUME SitesInv, [SitesNext]_siteVars, NEW row, Covered(row, assignment)
  PROVE  Covered(row, assignment')
  BY AssignmentsStay DEF Covered

BookingPcs == {"findMaterial", "insertMovement", "insertExpense"}

RecordFrameKinds(f, E, M) ==
  /\ f.pc \in {"idle", "insertLabour", "findMaterial", "insertMovement", "insertExpense",
               "mayEdit", "expense", "expenseWrite", "status", "statusWrite"}
  /\ f.pc = "insertLabour" => f.row \in LabourRow
  /\ f.pc \in {"findMaterial", "insertMovement"} =>
       f \in [pc : {"findMaterial", "insertMovement"}, row : MovementRow]
  /\ f.pc = "insertExpense" => f.row \in ExpenseRow
  /\ f.pc = "mayEdit" => f \in [pc : {"mayEdit"}, id : E, row : ExpenseRow, user : Users]
  /\ f.pc \in {"expense", "expenseWrite"} =>
       f \in [pc : {"expense", "expenseWrite"}, id : E, row : ExpenseRow,
              diff : SUBSET ExpenseColumns]
  /\ f.pc \in {"status", "statusWrite"} =>
       f \in [pc : {"status", "statusWrite"}, id : M, status : RequestStatuses]

LEMMA RecordFrameHas ==
  ASSUME NEW f \in RecordFrame
  PROVE  RecordFrameKinds(f, DOMAIN expense, DOMAIN movement)
  BY DEF RecordFrame, RecordFrameKinds

LEMMA RecordFrames ==
  /\ RecordIdle \in RecordFrame /\ RecordIdle.pc = "idle"
  /\ \A row \in LabourRow : [pc |-> "insertLabour", row |-> row] \in RecordFrame
  /\ \A f \in [pc : {"findMaterial", "insertMovement"}, row : MovementRow] : f \in RecordFrame
  /\ \A row \in ExpenseRow : [pc |-> "insertExpense", row |-> row] \in RecordFrame
  /\ \A f \in [pc : {"mayEdit"}, id : DOMAIN expense, row : ExpenseRow, user : Users] :
       f \in RecordFrame
  /\ \A f \in [pc : {"expense", "expenseWrite"}, id : DOMAIN expense, row : ExpenseRow,
               diff : SUBSET ExpenseColumns] : f \in RecordFrame
  /\ \A f \in [pc : {"status", "statusWrite"}, id : DOMAIN movement,
               status : RequestStatuses] : f \in RecordFrame
  BY DEF RecordFrame, RecordIdle

\* Frames stay typed while rows are only added.
LEMMA RecordFrameGrows ==
  ASSUME DOMAIN expense \subseteq DOMAIN expense', DOMAIN movement \subseteq DOMAIN movement'
  PROVE  RecordFrame \subseteq RecordFrame'
<1> SUFFICES ASSUME NEW f \in RecordFrame PROVE f \in RecordFrame'
  OBVIOUS
<1>1. CASE f.pc \in {"mayEdit"}
  BY <1>1 DEF RecordFrame
<1>2. CASE f.pc \in {"expense", "expenseWrite"}
  BY <1>2 DEF RecordFrame
<1>3. CASE f.pc \in {"status", "statusWrite"}
  BY <1>3 DEF RecordFrame
<1>4. CASE f.pc \in {"idle", "insertLabour", "findMaterial", "insertMovement", "insertExpense"}
  BY <1>4 DEF RecordFrame
<1> QED BY <1>1, <1>2, <1>3, <1>4, RecordFrameHas DEF RecordFrameKinds

RecordsInv ==
  /\ RecordsTypeOK
  /\ \A i \in DOMAIN movement : Covered(movement[i], assignment)
  /\ \A i \in DOMAIN expense : Covered(expense[i], assignment)
  /\ \A r \in RecordReq : rreq[r].pc \in BookingPcs => Covered(rreq[r].row, assignment)

\* A step of one handler that adds rows or changes some, covered ones.
LEMMA RecordStep ==
  ASSUME RecordsInv, NEW r \in RecordReq, NEW f \in RecordFrame, RecordGoto(r, f),
         f.pc \in BookingPcs => Covered(f.row, assignment),
         UNCHANGED assignment,
         materials' \in SUBSET Materials, labour' \in Seq(LabourRow),
         movement' \in Seq(MovementRow), expense' \in Seq(ExpenseRow),
         DOMAIN expense \subseteq DOMAIN expense', DOMAIN movement \subseteq DOMAIN movement',
         \A i \in DOMAIN movement' : Covered(movement'[i], assignment),
         \A i \in DOMAIN expense' : Covered(expense'[i], assignment)
  PROVE  RecordsInv'
<1>1. rreq \in [RecordReq -> RecordFrame] /\ rreq' = [rreq EXCEPT ![r] = f]
  BY DEF RecordsInv, RecordsTypeOK, RecordGoto
<1>2. rreq' \in [RecordReq -> RecordFrame']
  <2>1. rreq' \in [RecordReq -> RecordFrame]
    BY <1>1
  <2> QED BY <2>1, RecordFrameGrows
<1>3. RecordsTypeOK'
  BY <1>2 DEF RecordsTypeOK
<1>4. ASSUME NEW s \in RecordReq, rreq'[s].pc \in BookingPcs
      PROVE  Covered(rreq'[s].row, assignment)
  BY <1>1, <1>4 DEF RecordsInv
<1> QED BY <1>3, <1>4 DEF RecordsInv

LEMMA RecordQuietStep ==
  ASSUME RecordsInv, NEW r \in RecordReq, NEW f \in RecordFrame, RecordGoto(r, f),
         f.pc \in BookingPcs => Covered(f.row, assignment),
         UNCHANGED <<materials, labour, movement, expense, assignment>>
  PROVE  RecordsInv'
<1>1. /\ materials \in SUBSET Materials /\ labour \in Seq(LabourRow)
      /\ movement \in Seq(MovementRow) /\ expense \in Seq(ExpenseRow)
      /\ \A i \in DOMAIN movement : Covered(movement[i], assignment)
      /\ \A i \in DOMAIN expense : Covered(expense[i], assignment)
  BY DEF RecordsInv, RecordsTypeOK
<1>2. UNCHANGED materials /\ UNCHANGED labour /\ UNCHANGED movement /\ UNCHANGED expense
        /\ UNCHANGED assignment
  OBVIOUS
<1> QED BY <1>1, <1>2, RecordStep

\* Who passes the check has an assignment, if he is an engineer.
LEMMA MayWorkIsCovered ==
  ASSUME NEW row, MayWork(row.by, row.site)
  PROVE  Covered(row, assignment)
  BY DEF MayWork, Assigned, Covered

\* An appended row and the ones before.
LEMMA AppendRow ==
  ASSUME NEW S, NEW s \in Seq(S), NEW row \in S
  PROVE  /\ Append(s, row) \in Seq(S) /\ DOMAIN s \subseteq DOMAIN Append(s, row)
         /\ \A i \in DOMAIN Append(s, row) :
              Append(s, row)[i] = row \/ (i \in DOMAIN s /\ Append(s, row)[i] = s[i])
  OBVIOUS

LEMMA BookStep ==
  ASSUME RecordsInv, NEW r \in RecordReq, UNCHANGED assignment,
         InsertLabour(r) \/ InsertMovement(r) \/ InsertExpense(r)
  PROVE  RecordsInv'
<1> DEFINE q == rreq[r]
<1>1. /\ RecordIdle \in RecordFrame /\ RecordIdle.pc \notin BookingPcs
      /\ q \in RecordFrame
      /\ materials \in SUBSET Materials /\ labour \in Seq(LabourRow)
      /\ movement \in Seq(MovementRow) /\ expense \in Seq(ExpenseRow)
      /\ \A i \in DOMAIN movement : Covered(movement[i], assignment)
      /\ \A i \in DOMAIN expense : Covered(expense[i], assignment)
  BY RecordFrames DEF RecordsInv, RecordsTypeOK, BookingPcs
<1>2. CASE InsertLabour(r)
  <2>1. q.row \in LabourRow /\ labour' = Append(labour, q.row) /\ RecordGoto(r, RecordIdle)
          /\ materials' = materials /\ movement' = movement /\ expense' = expense
    BY <1>1, <1>2, RecordFrameHas DEF InsertLabour, RecordFrameKinds
  <2>2. labour' \in Seq(LabourRow)
    BY <1>1, <2>1, AppendRow
  <2> QED BY <1>1, <2>1, <2>2, RecordStep
<1>3. CASE InsertMovement(r)
  <2>1. q.row \in MovementRow /\ movement' = Append(movement, q.row) /\ RecordGoto(r, RecordIdle)
          /\ materials' = materials /\ labour' = labour /\ expense' = expense
    BY <1>1, <1>3, RecordFrameHas DEF InsertMovement, RecordFrameKinds
  <2>2. Covered(q.row, assignment)
    BY <1>3 DEF InsertMovement, RecordsInv, BookingPcs
  <2>3. /\ movement' \in Seq(MovementRow) /\ DOMAIN movement \subseteq DOMAIN movement'
        /\ \A i \in DOMAIN movement' :
             movement'[i] = q.row \/ (i \in DOMAIN movement /\ movement'[i] = movement[i])
    BY <1>1, <2>1, AppendRow
  <2>4. \A i \in DOMAIN movement' : Covered(movement'[i], assignment)
    BY <1>1, <2>2, <2>3
  <2> QED BY <1>1, <2>1, <2>3, <2>4, RecordStep
<1>4. CASE InsertExpense(r)
  <2>1. q.row \in ExpenseRow /\ expense' = Append(expense, q.row) /\ RecordGoto(r, RecordIdle)
          /\ materials' = materials /\ labour' = labour /\ movement' = movement
    BY <1>1, <1>4, RecordFrameHas DEF InsertExpense, RecordFrameKinds
  <2>2. Covered(q.row, assignment)
    BY <1>4 DEF InsertExpense, RecordsInv, BookingPcs
  <2>3. /\ expense' \in Seq(ExpenseRow) /\ DOMAIN expense \subseteq DOMAIN expense'
        /\ \A i \in DOMAIN expense' :
             expense'[i] = q.row \/ (i \in DOMAIN expense /\ expense'[i] = expense[i])
    BY <1>1, <2>1, AppendRow
  <2>4. \A i \in DOMAIN expense' : Covered(expense'[i], assignment)
    BY <1>1, <2>2, <2>3
  <2> QED BY <1>1, <2>1, <2>3, <2>4, RecordStep
<1> QED BY <1>2, <1>3, <1>4

\* A function on the columns of an expense is a record.
LEMMA ColumnsAreRecord ==
  ASSUME NEW m, m = [c \in {"site", "by", "day", "category", "amount"} |-> m[c]]
  PROVE  m = [site |-> m.site, by |-> m.by, day |-> m.day, category |-> m.category,
              amount |-> m.amount]
  OBVIOUS

\* An expense with some columns of another is one, of the same user and site.
LEMMA EditedIsRow ==
  ASSUME NEW old \in ExpenseRow, NEW m,
         m = [site |-> m.site, by |-> m.by, day |-> m.day, category |-> m.category,
              amount |-> m.amount],
         m["site"] = old.site, m["by"] = old.by, m["day"] \in Days,
         m["category"] \in {b.category : b \in Expenses},
         m["amount"] \in {b.amount : b \in Expenses}
  PROVE  m \in ExpenseRow /\ m.site = old.site /\ m.by = old.by
  BY DEF ExpenseRow

\* The bodies of a request to edit an expense.
Body(new) == new \in [day : Days] \/ new \in Expenses

LEMMA EditExpenseStep ==
  ASSUME RecordsInv, NEW r \in RecordReq, NEW u \in Users, NEW i \in DOMAIN expense, NEW new,
         Body(new), BeginEditExpense(r, u, i, new), UNCHANGED assignment
  PROVE  RecordsInv'
<1> DEFINE old == expense[i]
           m == [c \in DOMAIN old |-> IF c \in DOMAIN new THEN new[c] ELSE old[c]]
           f == [pc |-> "mayEdit", id |-> i, user |-> u, row |-> m]
<1>1. old \in ExpenseRow
  BY DEF RecordsInv, RecordsTypeOK
<1>2. DOMAIN old = {"site", "by", "day", "category", "amount"}
  BY <1>1 DEF ExpenseRow
<1>3. /\ old.day \in Days /\ old.category \in {b.category : b \in Expenses}
      /\ old.amount \in {b.amount : b \in Expenses}
  BY <1>1 DEF ExpenseRow
<1>4. m \in ExpenseRow
  <2>1. CASE new \in [day : Days]
    <3>1. DOMAIN new = {"day"} /\ new.day \in Days
      BY <2>1
    <3>2. /\ m = [c \in {"site", "by", "day", "category", "amount"} |-> m[c]]
          /\ m["site"] = old.site /\ m["by"] = old.by /\ m["day"] = new.day
          /\ m["category"] = old.category /\ m["amount"] = old.amount
      BY <1>2, <3>1
    <3> QED BY <1>1, <1>3, <3>1, <3>2, ColumnsAreRecord, EditedIsRow
  <2>2. CASE new \in Expenses
    <3>1. new \in [category : STRING, amount : Nat]
      BY <2>2, RecordsAssumption
    <3>2. DOMAIN new = {"category", "amount"}
      BY <3>1
    <3>3. /\ m = [c \in {"site", "by", "day", "category", "amount"} |-> m[c]]
          /\ m["site"] = old.site /\ m["by"] = old.by /\ m["day"] = old.day
          /\ m["category"] = new.category /\ m["amount"] = new.amount
      BY <1>2, <3>2
    <3> QED BY <1>1, <1>3, <2>2, <3>3, ColumnsAreRecord, EditedIsRow
  <2> QED BY <2>1, <2>2 DEF Body
<1>5. RecordGoto(r, f) /\ UNCHANGED <<materials, labour, movement, expense>>
  BY DEF BeginEditExpense
<1> HIDE DEF m
<1>6. f \in RecordFrame /\ f.pc \notin BookingPcs
  BY <1>4, RecordFrames DEF BookingPcs
<1> QED BY <1>5, <1>6, RecordQuietStep

LEMMA SaveWriteExpenseStep ==
  ASSUME RecordsInv, NEW r \in RecordReq, SaveWriteExpense(r), UNCHANGED assignment
  PROVE  RecordsInv'
<1> DEFINE q == rreq[r]
           old == expense[q.id]
           m == [c \in DOMAIN old |-> IF c \in q.diff THEN q.row[c] ELSE old[c]]
<1>1. /\ q.id \in DOMAIN expense /\ q.row \in ExpenseRow /\ q.diff \in SUBSET ExpenseColumns
      /\ expense \in Seq(ExpenseRow)
  <2>1. q \in RecordFrame /\ q.pc = "expenseWrite"
    BY DEF RecordsInv, RecordsTypeOK, SaveWriteExpense
  <2> QED BY <2>1, RecordFrameHas DEF RecordFrameKinds, RecordsInv, RecordsTypeOK
<1>2. old \in ExpenseRow
  BY <1>1
<1>3. DOMAIN old = {"site", "by", "day", "category", "amount"}
  BY <1>2 DEF ExpenseRow
<1>4. m \in ExpenseRow /\ m.site = old.site /\ m.by = old.by
  <2>1. /\ m = [c \in {"site", "by", "day", "category", "amount"} |-> m[c]]
        /\ m["site"] = old.site /\ m["by"] = old.by /\ m["day"] \in {old.day, q.row.day}
        /\ m["category"] \in {old.category, q.row.category}
        /\ m["amount"] \in {old.amount, q.row.amount}
    BY <1>1, <1>3 DEF ExpenseColumns
  <2>2. /\ m["day"] \in Days /\ m["category"] \in {b.category : b \in Expenses}
        /\ m["amount"] \in {b.amount : b \in Expenses}
    BY <1>1, <1>2, <2>1 DEF ExpenseRow
  <2> HIDE DEF m
  <2> QED BY <1>2, <2>1, <2>2, EditedIsRow
<1>5. expense' = [expense EXCEPT ![q.id] = m]
  BY DEF SaveWriteExpense
<1> HIDE DEF m
<1>6. /\ expense' \in Seq(ExpenseRow) /\ DOMAIN expense' = DOMAIN expense
      /\ \A i \in DOMAIN expense : expense'[i] = IF i = q.id THEN m ELSE expense[i]
  BY <1>1, <1>4, <1>5
<1>7. /\ materials \in SUBSET Materials /\ labour \in Seq(LabourRow)
      /\ movement \in Seq(MovementRow)
      /\ \A i \in DOMAIN movement : Covered(movement[i], assignment)
      /\ \A i \in DOMAIN expense : Covered(expense[i], assignment)
      /\ RecordIdle \in RecordFrame /\ RecordIdle.pc \notin BookingPcs
  BY RecordFrames DEF RecordsInv, RecordsTypeOK, BookingPcs
<1>8. \A i \in DOMAIN expense' : Covered(expense'[i], assignment)
  BY <1>1, <1>4, <1>6, <1>7 DEF Covered
<1>9. /\ RecordGoto(r, RecordIdle) /\ materials' = materials /\ labour' = labour
      /\ movement' = movement
  BY DEF SaveWriteExpense
<1> QED BY <1>6, <1>7, <1>8, <1>9, RecordStep

LEMMA SaveWriteStatusStep ==
  ASSUME RecordsInv, NEW r \in RecordReq, SaveWriteStatus(r), UNCHANGED assignment
  PROVE  RecordsInv'
<1> DEFINE q == rreq[r]
           old == movement[q.id]
           m == [old EXCEPT !.status = q.status]
<1>1. q.id \in DOMAIN movement /\ q.status \in RequestStatuses /\ movement \in Seq(MovementRow)
  <2>1. q \in RecordFrame /\ q.pc = "statusWrite"
    BY DEF RecordsInv, RecordsTypeOK, SaveWriteStatus
  <2> QED BY <2>1, RecordFrameHas DEF RecordFrameKinds, RecordsInv, RecordsTypeOK
<1>2. old \in MovementRow
  BY <1>1
<1>3. m \in MovementRow /\ m.site = old.site /\ m.by = old.by
  BY <1>1, <1>2 DEF MovementRow
<1>4. movement' = [movement EXCEPT ![q.id] = m]
  BY DEF SaveWriteStatus
<1> HIDE DEF m
<1>5. /\ movement' \in Seq(MovementRow) /\ DOMAIN movement' = DOMAIN movement
      /\ \A i \in DOMAIN movement : movement'[i] = IF i = q.id THEN m ELSE movement[i]
  BY <1>1, <1>3, <1>4
<1>6. /\ materials \in SUBSET Materials /\ labour \in Seq(LabourRow)
      /\ expense \in Seq(ExpenseRow)
      /\ \A i \in DOMAIN movement : Covered(movement[i], assignment)
      /\ \A i \in DOMAIN expense : Covered(expense[i], assignment)
      /\ RecordIdle \in RecordFrame /\ RecordIdle.pc \notin BookingPcs
  BY RecordFrames DEF RecordsInv, RecordsTypeOK, BookingPcs
<1>7. \A i \in DOMAIN movement' : Covered(movement'[i], assignment)
  BY <1>1, <1>3, <1>5, <1>6 DEF Covered
<1>8. /\ RecordGoto(r, RecordIdle) /\ materials' = materials /\ labour' = labour
      /\ expense' = expense
  BY DEF SaveWriteStatus
<1> QED BY <1>5, <1>6, <1>7, <1>8, RecordStep

LEMMA RecordArrivesStep ==
  ASSUME RecordsInv, NEW r \in RecordReq, RecordArrives(r), UNCHANGED assignment
  PROVE  RecordsInv'
<1>1. ASSUME NEW u \in Users, NEW s \in SiteIds, NEW d \in Days, NEW b \in Labours,
             BeginLabour(r, u, s, d, b)
      PROVE  RecordsInv'
  <2> DEFINE row == [site |-> s, day |-> d, body |-> b, cost |-> LabourCost(b)]
             f == [pc |-> "insertLabour", row |-> row]
  <2>1. LabourCost(b) \in Nat
    <3>1. /\ b.headcount \in Nat /\ b.dailyWage \in Nat
          /\ b.overtimeHours \in Nat /\ b.overtimeRate \in Nat
      BY RecordsAssumption
    <3>2. \A x, y \in Nat : x * y \in Nat
      OBVIOUS
    <3>3. b.headcount * b.dailyWage \in Nat /\ b.overtimeHours * b.overtimeRate \in Nat
      BY <3>1, <3>2
    <3> QED BY <3>3 DEF LabourCost
  <2>2. row \in LabourRow
    BY <2>1 DEF LabourRow
  <2>3. f \in RecordFrame /\ f.pc \notin BookingPcs
    BY <2>2, RecordFrames DEF BookingPcs
  <2>4. RecordGoto(r, f) /\ UNCHANGED <<materials, labour, movement, expense>>
    BY <1>1 DEF BeginLabour, Begin
  <2> HIDE DEF f
  <2> QED BY <2>3, <2>4, RecordQuietStep
<1>2. ASSUME NEW u \in Users, NEW s \in SiteIds, NEW d \in Days, NEW b \in Movements,
             BeginMovement(r, u, s, d, b)
      PROVE  RecordsInv'
  <2> DEFINE row == [site |-> s, day |-> d, by |-> u, body |-> b, cost |-> b.quantity * b.rate,
                     status |-> IF b.type = "request" THEN "pending" ELSE "none"]
             f == [pc |-> "findMaterial", row |-> row]
  <2>1. b.quantity * b.rate \in Nat
    <3>1. b.quantity \in Nat /\ b.rate \in Nat
      BY RecordsAssumption
    <3>2. \A x, y \in Nat : x * y \in Nat
      OBVIOUS
    <3> QED BY <3>1, <3>2
  <2>2. row \in MovementRow /\ row.by = u /\ row.site = s
    BY <2>1 DEF MovementRow
  <2>3. MayWork(u, s) /\ RecordGoto(r, f) /\ UNCHANGED <<materials, labour, movement, expense>>
    BY <1>2 DEF BeginMovement, Begin
  <2> HIDE DEF row
  <2>4. f \in RecordFrame /\ f.row = row
    BY <2>2, RecordFrames
  <2>5. Covered(row, assignment)
    BY <2>2, <2>3, MayWorkIsCovered
  <2> HIDE DEF f
  <2> QED BY <2>3, <2>4, <2>5, RecordQuietStep
<1>3. ASSUME NEW u \in Users, NEW s \in SiteIds, NEW d \in Days, NEW b \in Expenses,
             BeginExpense(r, u, s, d, b)
      PROVE  RecordsInv'
  <2> DEFINE row == [site |-> s, by |-> u, day |-> d, category |-> b.category,
                     amount |-> b.amount]
             f == [pc |-> "insertExpense", row |-> row]
  <2>1. row \in ExpenseRow /\ row.by = u /\ row.site = s
    BY DEF ExpenseRow
  <2>2. MayWork(u, s) /\ RecordGoto(r, f) /\ UNCHANGED <<materials, labour, movement, expense>>
    BY <1>3 DEF BeginExpense, Begin
  <2> HIDE DEF row
  <2>3. f \in RecordFrame /\ f.row = row
    BY <2>1, RecordFrames
  <2>4. Covered(row, assignment)
    BY <2>1, <2>2, MayWorkIsCovered
  <2> HIDE DEF f
  <2> QED BY <2>2, <2>3, <2>4, RecordQuietStep
<1>4. ASSUME NEW u \in Users, NEW i \in DOMAIN expense, NEW d \in Days,
             BeginEditExpense(r, u, i, [day |-> d])
      PROVE  RecordsInv'
  <2>1. Body([day |-> d])
    BY DEF Body
  <2> QED BY <1>4, <2>1, EditExpenseStep
<1>5. ASSUME NEW u \in Users, NEW i \in DOMAIN expense, NEW b \in Expenses,
             BeginEditExpense(r, u, i, b)
      PROVE  RecordsInv'
  BY <1>5, EditExpenseStep DEF Body
<1>6. ASSUME NEW i \in DOMAIN movement, NEW status \in RequestStatuses, BeginStatus(r, i, status)
      PROVE  RecordsInv'
  <2> DEFINE f == [pc |-> "status", id |-> i, status |-> status]
  <2>1. f \in RecordFrame /\ f.pc \notin BookingPcs
    BY RecordFrames DEF BookingPcs
  <2>2. RecordGoto(r, f) /\ UNCHANGED <<materials, labour, movement, expense>>
    BY <1>6 DEF BeginStatus
  <2> QED BY <2>1, <2>2, RecordQuietStep
<1> QED BY <1>1, <1>2, <1>3, <1>4, <1>5, <1>6 DEF RecordArrives

LEMMA RecordContinuesStep ==
  ASSUME RecordsInv, NEW r \in RecordReq, RecordContinues(r), UNCHANGED assignment
  PROVE  RecordsInv'
<1> DEFINE q == rreq[r]
<1>1. q \in RecordFrame /\ RecordIdle \in RecordFrame /\ RecordIdle.pc \notin BookingPcs
  BY RecordFrames DEF RecordsInv, RecordsTypeOK, BookingPcs
<1>2. CASE FindMaterial(r)
  <2> DEFINE f == [q EXCEPT !.pc = "insertMovement"]
  <2>1. /\ q \in [pc : {"findMaterial", "insertMovement"}, row : MovementRow]
        /\ Covered(q.row, assignment)
    BY <1>1, <1>2, RecordFrameHas DEF FindMaterial, RecordFrameKinds, RecordsInv, BookingPcs
  <2>2. f \in RecordFrame /\ f.row = q.row
    <3>1. f \in [pc : {"findMaterial", "insertMovement"}, row : MovementRow] /\ f.row = q.row
      BY <2>1
    <3> QED BY <3>1, RecordFrames
  <2>3. /\ RecordGoto(r, f) \/ RecordGoto(r, RecordIdle)
        /\ UNCHANGED <<materials, labour, movement, expense>>
    BY <1>2 DEF FindMaterial
  <2> HIDE DEF f
  <2> QED BY <1>1, <2>1, <2>2, <2>3, RecordQuietStep
<1>3. CASE MayEditExpense(r)
  <2> DEFINE f == [pc |-> "expense", id |-> q.id, row |-> q.row, diff |-> {}]
  <2>1. q \in [pc : {"mayEdit"}, id : DOMAIN expense, row : ExpenseRow, user : Users]
    BY <1>1, <1>3, RecordFrameHas DEF MayEditExpense, RecordFrameKinds
  <2>2. f \in RecordFrame /\ f.pc \notin BookingPcs
    BY <2>1, RecordFrames DEF BookingPcs
  <2>3. /\ RecordGoto(r, f) \/ RecordGoto(r, RecordIdle)
        /\ UNCHANGED <<materials, labour, movement, expense>>
    BY <1>3 DEF MayEditExpense
  <2> HIDE DEF f
  <2> QED BY <1>1, <2>2, <2>3, RecordQuietStep
<1>4. CASE SaveReadExpense(r)
  <2> DEFINE diff == {c \in ExpenseColumns : q.row[c] # expense[q.id][c]}
             f == [q EXCEPT !.pc = "expenseWrite", !.diff = diff]
  <2>1. q \in [pc : {"expense", "expenseWrite"}, id : DOMAIN expense, row : ExpenseRow,
               diff : SUBSET ExpenseColumns]
    BY <1>1, <1>4, RecordFrameHas DEF SaveReadExpense, RecordFrameKinds
  <2>2. /\ RecordGoto(r, f) \/ RecordGoto(r, RecordIdle)
        /\ UNCHANGED <<materials, labour, movement, expense>>
    BY <1>4 DEF SaveReadExpense
  <2>3. diff \in SUBSET ExpenseColumns
    OBVIOUS
  <2> HIDE DEF diff
  <2>4. f \in [pc : {"expense", "expenseWrite"}, id : DOMAIN expense, row : ExpenseRow,
               diff : SUBSET ExpenseColumns]
          /\ f.pc = "expenseWrite"
    BY <2>1, <2>3
  <2>5. f \in RecordFrame /\ f.pc \notin BookingPcs
    BY <2>4, RecordFrames DEF BookingPcs
  <2> HIDE DEF f
  <2> QED BY <1>1, <2>2, <2>5, RecordQuietStep
<1>5. CASE SaveReadStatus(r)
  <2> DEFINE f == [q EXCEPT !.pc = "statusWrite"]
  <2>1. q \in [pc : {"status", "statusWrite"}, id : DOMAIN movement, status : RequestStatuses]
    BY <1>1, <1>5, RecordFrameHas DEF SaveReadStatus, RecordFrameKinds
  <2>2. f \in [pc : {"status", "statusWrite"}, id : DOMAIN movement, status : RequestStatuses]
          /\ f.pc = "statusWrite"
    BY <2>1
  <2>3. f \in RecordFrame /\ f.pc \notin BookingPcs
    BY <2>2, RecordFrames DEF BookingPcs
  <2>4. /\ RecordGoto(r, f) \/ RecordGoto(r, RecordIdle)
        /\ UNCHANGED <<materials, labour, movement, expense>>
    BY <1>5 DEF SaveReadStatus
  <2> HIDE DEF f
  <2> QED BY <1>1, <2>3, <2>4, RecordQuietStep
<1> QED
  BY <1>2, <1>3, <1>4, <1>5, BookStep, SaveWriteExpenseStep, SaveWriteStatusStep
    DEF RecordContinues

LEMMA RecordsInvStep ==
  ASSUME RecordsInv, RecordsNext, UNCHANGED assignment
  PROVE  RecordsInv'
<1>1. ASSUME NEW m \in Materials, CreateMaterial(m) PROVE RecordsInv'
  BY <1>1 DEF CreateMaterial, RecordsInv, RecordsTypeOK, RecordFrame
<1>2. ASSUME NEW r \in RecordReq, AbortRecord(r) PROVE RecordsInv'
  BY <1>2, RecordFrames, RecordQuietStep DEF AbortRecord, BookingPcs
<1> QED BY <1>1, <1>2, RecordArrivesStep, RecordContinuesStep DEF RecordsNext

SiteWorkInv == SitesInv /\ RecordsInv

LEMMA SiteWorkInvStep ==
  SiteWorkInv /\ [SiteWorkNext]_<<siteVars, recordVars>> => SiteWorkInv'
<1> SUFFICES ASSUME SiteWorkInv, [SiteWorkNext]_<<siteVars, recordVars>> PROVE SiteWorkInv'
  OBVIOUS
<1>1. CASE [SitesNext]_siteVars /\ UNCHANGED recordVars
  <2>1. SitesInv'
    BY <1>1, SitesInvStep DEF SiteWorkInv
  <2>2. RecordsTypeOK'
    BY <1>1 DEF SiteWorkInv, RecordsInv, RecordsTypeOK, recordVars, RecordFrame
  <2>3. UNCHANGED movement /\ UNCHANGED expense /\ UNCHANGED rreq
    BY <1>1 DEF recordVars
  <2>4. \A row : Covered(row, assignment) => Covered(row, assignment')
    BY <1>1, CoverStays DEF SiteWorkInv
  <2>5. /\ \A i \in DOMAIN movement' : Covered(movement'[i], assignment')
        /\ \A i \in DOMAIN expense' : Covered(expense'[i], assignment')
        /\ \A r \in RecordReq : rreq'[r].pc \in BookingPcs => Covered(rreq'[r].row, assignment')
    BY <2>3, <2>4 DEF SiteWorkInv, RecordsInv
  <2> QED BY <2>1, <2>2, <2>5 DEF SiteWorkInv, RecordsInv
<1>2. CASE RecordsNext /\ UNCHANGED siteVars
  <2>1. SitesInv'
    BY <1>2, SitesInvStep DEF SiteWorkInv
  <2>2. UNCHANGED assignment
    BY <1>2 DEF siteVars
  <2> QED BY <1>2, <2>1, <2>2, RecordsInvStep DEF SiteWorkInv
<1> QED BY <1>1, <1>2 DEF SiteWorkNext

LEMMA SiteWorkInvAlways == SiteWorkSpec => []SiteWorkInv
<1>1. SiteWorkInit => SiteWorkInv
  <2>1. RecordsInit => RecordsInv
    BY RecordFrames DEF RecordsInit, RecordsInv, RecordsTypeOK, BookingPcs
  <2> QED BY <2>1, SitesInvInit DEF SiteWorkInit, SiteWorkInv
<1> QED BY <1>1, SiteWorkInvStep, PTL DEF SiteWorkSpec

\* Rows, requests and edits of the site records are of their types, whatever the
\* managers do next to them.
THEOREM RecordsTypeCorrect == SiteWorkSpec => []RecordsTypeOK
<1>1. SiteWorkInv => RecordsTypeOK BY DEF SiteWorkInv, RecordsInv
<1> QED BY <1>1, SiteWorkInvAlways, PTL

\* Nothing is booked by an engineer on a site he was never assigned to, though
\* assignments come and go between the check and the insert.
THEOREM BookedWithAssignment == SiteWorkSpec => []RecordsHaveAssignment
<1>1. ASSUME SiteWorkInv PROVE RecordsHaveAssignment
  BY <1>1 DEF SiteWorkInv, RecordsInv, Covered, RecordsHaveAssignment
<1> QED BY <1>1, SiteWorkInvAlways, PTL

-----------------------------------------------------------------------------
\* The figures as functions of the tables.

\* The figures add up.  RecordsTypeOK is all that they need of the tables.

Column(rows, column) == [i \in DOMAIN rows |-> rows[i][column]]
BodyColumn(rows, column) == [i \in DOMAIN rows |-> rows[i].body[column]]

LEMMA SeqIds ==
  ASSUME NEW R, NEW rows \in Seq(R)
  PROVE  IsFiniteSet(DOMAIN rows) /\ \A i \in DOMAIN rows : rows[i] \in R
<1>1. DOMAIN rows = 1 .. Len(rows) /\ Len(rows) \in Nat /\ \A i \in 1 .. Len(rows) : rows[i] \in R
  OBVIOUS
<1>2. IsFiniteSet(1 .. Len(rows))
  BY <1>1, FS_Interval
<1> QED BY <1>1, <1>2

\* The rows of a table: their ids, and what reports read of them.
Rows(rows) ==
  IsFiniteSet(DOMAIN rows) /\ \A i \in DOMAIN rows : rows[i].site \in SiteIds /\ rows[i].day \in Days

LEMMA RowsHaveFigures ==
  ASSUME NEW l \in Seq(LabourRow), NEW m \in Seq(MovementRow), NEW e \in Seq(ExpenseRow)
  PROVE  /\ Rows(l) /\ Rows(m) /\ Rows(e)
         /\ NatsOn(Column(l, "cost"), DOMAIN l)
         /\ NatsOn(BodyColumn(l, "headcount"), DOMAIN l)
         /\ NatsOn(Column(m, "cost"), DOMAIN m)
         /\ NatsOn(Column(e, "amount"), DOMAIN e)
<1>1. /\ IsFiniteSet(DOMAIN l) /\ IsFiniteSet(DOMAIN m) /\ IsFiniteSet(DOMAIN e)
      /\ \A i \in DOMAIN l : l[i] \in LabourRow
      /\ \A i \in DOMAIN m : m[i] \in MovementRow
      /\ \A i \in DOMAIN e : e[i] \in ExpenseRow
  BY SeqIds
<1>2. /\ \A row \in LabourRow : /\ row.site \in SiteIds /\ row.day \in Days /\ row["cost"] \in Nat
                                /\ row.body \in Labours
      /\ \A row \in MovementRow : row.site \in SiteIds /\ row.day \in Days /\ row["cost"] \in Nat
      /\ \A row \in ExpenseRow : /\ row.site \in SiteIds /\ row.day \in Days
                                 /\ row["amount"] \in {b.amount : b \in Expenses}
  BY DEF LabourRow, MovementRow, ExpenseRow
<1>3. /\ \A b \in Labours : b["headcount"] \in Nat
      /\ {b.amount : b \in Expenses} \subseteq Nat
  BY RecordsAssumption
<1>4. /\ NatsOn(Column(l, "cost"), DOMAIN l)
      /\ NatsOn(Column(m, "cost"), DOMAIN m)
      /\ NatsOn(Column(e, "amount"), DOMAIN e)
  BY <1>1, <1>2, <1>3 DEF NatsOn, Column
<1>5. NatsOn(BodyColumn(l, "headcount"), DOMAIN l)
  BY <1>1, <1>2, <1>3 DEF NatsOn, BodyColumn
<1> QED BY <1>1, <1>2, <1>4, <1>5 DEF Rows

LEMMA TablesHaveRows ==
  ASSUME RecordsTypeOK
  PROVE  /\ Rows(labour) /\ Rows(movement) /\ Rows(expense)
         /\ NatsOn(Column(labour, "cost"), DOMAIN labour)
         /\ NatsOn(BodyColumn(labour, "headcount"), DOMAIN labour)
         /\ NatsOn(Column(movement, "cost"), DOMAIN movement)
         /\ NatsOn(Column(expense, "amount"), DOMAIN expense)
  BY RowsHaveFigures DEF RecordsTypeOK

\* A sum over keys, as the reports write it.
LEMMA SumOfKeys ==
  ASSUME NEW f, NEW A, IntsOn(f, A), NEW K, IsFiniteSet(K), NEW key,
         \A x \in A : key[x] \in K,
         NEW s, DOMAIN s = K, \A k \in K : s[k] = SumFunctionOnSet(f, {x \in A : key[x] = k})
  PROVE  IntsOn(s, K) /\ SumFunction(s) = SumFunctionOnSet(f, A)
  BY SumByKey DEF SumFunction

\* All days are in NoFilter.
LEMMA AllDays ==
  /\ NoFilter \in Filter /\ NoFilter.site = AnySite
  /\ \A d \in Days : d \in NoFilter.from .. NoFilter.to
<1>1. Days \in SUBSET Nat /\ Days # {} /\ IsFiniteSet(Days)
  BY RecordsAssumption, FiguresAssumption
<1>2. \E n \in Days : \A m \in Days : n <= m
  <2>1. PICK n \in Days : \A m \in Days : ~(m < n)
    BY <1>1, LeastOf
  <2>2. \A m \in Days : n <= m
    BY <1>1, <2>1
  <2> QED BY <2>2
<1>3. \E n \in Days : \A m \in Days : n >= m
  BY <1>1, GreatestOf
<1>4. Min(Days) \in Days /\ \A d \in Days : Min(Days) <= d
  BY <1>2 DEF Min
<1>5. Max(Days) \in Days /\ \A d \in Days : Max(Days) >= d
  BY <1>3 DEF Max
<1>6. NoFilter = [site |-> AnySite, from |-> Min(Days), to |-> Max(Days)]
  BY DEF NoFilter
<1>7. NoFilter \in Filter /\ NoFilter.site = AnySite /\ NoFilter.from = Min(Days)
      /\ NoFilter.to = Max(Days)
  BY <1>4, <1>5, <1>6 DEF Filter
<1> QED BY <1>1, <1>4, <1>5, <1>7

LEMMA BookedWithoutFilter ==
  ASSUME NEW rows, Rows(rows), NEW sites
  PROVE  Booked(rows, sites, NoFilter) = {i \in DOMAIN rows : rows[i].site \in sites}
  BY AllDays DEF Booked, Rows

LEMMA SitesWithoutFilter == \A p : SitesIn(p, NoFilter) = SitesOf(p)
  BY AllDays DEF SitesIn

\* Three parts.
LEMMA SumOfParts ==
  ASSUME NEW b, DOMAIN b = Parts, \A part \in Parts : b[part] \in Int
  PROVE  SumFunction(b) = b["labour"] + b["materials"] + b["expenses"]
<1>1. Parts = ({"labour"} \cup {"materials"}) \cup {"expenses"}
  BY DEF Parts
<1>2. b["labour"] \in Int /\ b["materials"] \in Int /\ b["expenses"] \in Int
  BY DEF Parts
<1>3. IntsOn(b, {"labour"}) /\ SumFunctionOnSet(b, {"labour"}) = b["labour"]
  BY <1>2, SumOfOne
<1>4. /\ IntsOn(b, {"labour"} \cup {"materials"})
      /\ SumFunctionOnSet(b, {"labour"} \cup {"materials"}) = b["materials"] + b["labour"]
  <2>1. "materials" \notin {"labour"}
    OBVIOUS
  <2> QED BY <1>2, <1>3, <2>1, SumAddsOne
<1>5. SumFunctionOnSet(b, Parts) = b["expenses"] + (b["materials"] + b["labour"])
  <2>1. "expenses" \notin ({"labour"} \cup {"materials"})
    OBVIOUS
  <2>2. SumFunctionOnSet(b, ({"labour"} \cup {"materials"}) \cup {"expenses"})
          = b["expenses"] + SumFunctionOnSet(b, {"labour"} \cup {"materials"})
    BY <1>2, <1>4, <2>1, SumAddsOne
  <2> QED BY <1>1, <1>4, <2>2, Zenon
<1>6. SumFunction(b) = SumFunctionOnSet(b, Parts)
  BY DEF SumFunction
<1> QED BY <1>2, <1>5, <1>6

\* By site, and by day.
LEMMA SumBySite ==
  ASSUME NEW rows, NEW A, NEW f, IntsOn(f, A),
         NEW sites, IsFiniteSet(sites), \A i \in A : rows[i].site \in sites,
         NEW s, DOMAIN s = sites,
         \A k \in sites : s[k] = SumFunctionOnSet(f, {i \in A : rows[i].site = k})
  PROVE  IntsOn(s, sites) /\ SumFunction(s) = SumFunctionOnSet(f, A)
<1> DEFINE key == [i \in A |-> rows[i].site]
<1>1. \A k \in sites : s[k] = SumFunctionOnSet(f, {i \in A : key[i] = k})
  <2>1. \A k : {i \in A : key[i] = k} = {i \in A : rows[i].site = k}
    OBVIOUS
  <2> HIDE DEF key
  <2> QED BY <2>1
<1>2. \A i \in A : key[i] \in sites
  OBVIOUS
<1> HIDE DEF key
<1> QED BY <1>1, <1>2, SumOfKeys

LEMMA SumByDay ==
  ASSUME NEW rows, NEW A, NEW f, IntsOn(f, A), \A i \in A : rows[i].day \in Days,
         NEW s, DOMAIN s = Days,
         \A k \in Days : s[k] = SumFunctionOnSet(f, {i \in A : rows[i].day = k})
  PROVE  IntsOn(s, Days) /\ SumFunction(s) = SumFunctionOnSet(f, A)
<1> DEFINE key == [i \in A |-> rows[i].day]
<1>1. \A k \in Days : s[k] = SumFunctionOnSet(f, {i \in A : key[i] = k})
  <2>1. \A k : {i \in A : key[i] = k} = {i \in A : rows[i].day = k}
    OBVIOUS
  <2> HIDE DEF key
  <2> QED BY <2>1
<1>2. \A i \in A : key[i] \in Days
  OBVIOUS
<1>3. IsFiniteSet(Days)
  BY FiguresAssumption
<1> HIDE DEF key
<1> QED BY <1>1, <1>2, <1>3, SumOfKeys

\* The parts of a cost are natural numbers, and the cost is their sum.
LEMMA PartsAreNats ==
  ASSUME RecordsTypeOK, NEW sites, NEW q
  PROVE  /\ LabourSum(sites, q) \in Nat /\ PurchaseSum(sites, q) \in Nat
         /\ ExpenseSum(sites, q) \in Nat
<1>1. /\ Booked(labour, sites, q) \in SUBSET DOMAIN labour
      /\ OfType(Booked(movement, sites, q), "purchase") \in SUBSET DOMAIN movement
      /\ Booked(expense, sites, q) \in SUBSET DOMAIN expense
  BY DEF Booked, OfType
<1>2. /\ NatsOn(Column(labour, "cost"), DOMAIN labour)
      /\ NatsOn(Column(movement, "cost"), DOMAIN movement)
      /\ NatsOn(Column(expense, "amount"), DOMAIN expense)
  BY TablesHaveRows
<1>3. /\ NatsOn(Column(labour, "cost"), Booked(labour, sites, q))
      /\ NatsOn(Column(movement, "cost"), OfType(Booked(movement, sites, q), "purchase"))
      /\ NatsOn(Column(expense, "amount"), Booked(expense, sites, q))
  BY <1>1, <1>2, NatsOnSubset
<1>4. /\ LabourSum(sites, q) = SumFunctionOnSet(Column(labour, "cost"), Booked(labour, sites, q))
      /\ PurchaseSum(sites, q) = SumFunctionOnSet(Column(movement, "cost"),
                                                  OfType(Booked(movement, sites, q), "purchase"))
      /\ ExpenseSum(sites, q) = SumFunctionOnSet(Column(expense, "amount"),
                                                 Booked(expense, sites, q))
  BY Zenon DEF LabourSum, PurchaseSum, ExpenseSum, Sum, Column
<1> QED BY <1>3, <1>4, SumIsNat

LEMMA CostIsSum ==
  ASSUME RecordsTypeOK, NEW p, NEW q, NEW b, DOMAIN b = Parts,
         \A part \in Parts : b[part] = PartSum(part, SitesIn(p, q), q)
  PROVE  /\ SumFunction(b) = LabourSum(SitesIn(p, q), q) + PurchaseSum(SitesIn(p, q), q)
                               + ExpenseSum(SitesIn(p, q), q)
         /\ SumFunction(b) \in Nat
<1>1. /\ b["labour"] = LabourSum(SitesIn(p, q), q)
      /\ b["materials"] = PurchaseSum(SitesIn(p, q), q)
      /\ b["expenses"] = ExpenseSum(SitesIn(p, q), q)
  BY DEF Parts, PartSum
<1>2. b["labour"] \in Nat /\ b["materials"] \in Nat /\ b["expenses"] \in Nat
  BY <1>1, PartsAreNats
<1>3. \A part \in Parts : b[part] \in Int
  BY <1>2 DEF Parts
<1> QED BY <1>1, <1>2, <1>3, SumOfParts

LEMMA TotalSpent ==
  ASSUME RecordsTypeOK, NEW p, NEW q
  PROVE  /\ ProjectCost(p, q).totalSpent
              = LabourSum(SitesIn(p, q), q) + PurchaseSum(SitesIn(p, q), q)
                  + ExpenseSum(SitesIn(p, q), q)
         /\ ProjectCost(p, q).totalSpent \in Nat
         /\ ProjectCost(p, q).remainingBudget = Budget[p] - ProjectCost(p, q).totalSpent
<1> DEFINE b == [part \in Parts |-> PartSum(part, SitesIn(p, q), q)]
<1>1. /\ ProjectCost(p, q).totalSpent = SumFunction(b)
      /\ ProjectCost(p, q).remainingBudget = Budget[p] - SumFunction(b)
  BY DEF ProjectCost
<1>2. DOMAIN b = Parts /\ \A part \in Parts : b[part] = PartSum(part, SitesIn(p, q), q)
  OBVIOUS
<1> HIDE DEF b
<1> QED BY <1>1, <1>2, CostIsSum

LEMMA PartsAgree ==
  ASSUME RecordsTypeOK, NEW p \in Projects
  PROVE  PartsAddUp(p)
<1> DEFINE S == SitesIn(p, NoFilter)
<1>1. ProjectCost(p, NoFilter).totalSpent
        = LabourSum(S, NoFilter) + PurchaseSum(S, NoFilter) + ExpenseSum(S, NoFilter)
  BY TotalSpent
<1>2. /\ ProjectLabourCost(p, NoFilter).totalCost = LabourSum(S, NoFilter)
      /\ ProjectMaterialCost(p, NoFilter).totalPurchases = PurchaseSum(S, NoFilter)
      /\ ProjectExpenses(p, NoFilter).totalExpenses = ExpenseSum(S, NoFilter)
  BY DEF ProjectLabourCost, ProjectMaterialCost, ProjectExpenses, LabourSum, PurchaseSum,
         ExpenseSum
<1> QED BY <1>1, <1>2 DEF PartsAddUp

\* A cost of several sites is the sum of the costs of each.
LEMMA LabourBySite ==
  ASSUME RecordsTypeOK, NEW sites \in SUBSET SiteIds, NEW q, NEW s, DOMAIN s = sites,
         \A k \in sites : s[k] = LabourSum({k}, q)
  PROVE  IntsOn(s, sites) /\ SumFunction(s) = LabourSum(sites, q)
<1> DEFINE A == Booked(labour, sites, q)
           f == Column(labour, "cost")
<1>1. /\ \A i \in A : labour[i].site \in sites
      /\ \A k \in sites : Booked(labour, {k}, q) = {i \in A : labour[i].site = k}
  BY DEF Booked
<1>2. IntsOn(f, A)
  <2>1. A \in SUBSET DOMAIN labour
    BY DEF Booked
  <2> QED BY <2>1, TablesHaveRows, NatsOnSubset, NatsAreInts
<1>3. \A ss : LabourSum(ss, q) = SumFunctionOnSet(f, Booked(labour, ss, q))
  BY DEF LabourSum, Sum, Column
<1>4. LabourSum(sites, q) = SumFunctionOnSet(f, A)
  BY <1>3
<1>5. IsFiniteSet(sites)
  BY FS_Subset, FiguresAssumption
<1> HIDE DEF A, f
<1>6. \A k \in sites : s[k] = SumFunctionOnSet(f, {i \in A : labour[i].site = k})
  BY <1>1, <1>3
<1> QED BY <1>1, <1>2, <1>4, <1>5, <1>6, SumBySite

LEMMA PurchaseBySite ==
  ASSUME RecordsTypeOK, NEW sites \in SUBSET SiteIds, NEW q, NEW s, DOMAIN s = sites,
         \A k \in sites : s[k] = PurchaseSum({k}, q)
  PROVE  IntsOn(s, sites) /\ SumFunction(s) = PurchaseSum(sites, q)
<1> DEFINE A == OfType(Booked(movement, sites, q), "purchase")
           f == Column(movement, "cost")
<1>1. /\ \A i \in A : movement[i].site \in sites
      /\ \A k \in sites : OfType(Booked(movement, {k}, q), "purchase") = {i \in A : movement[i].site = k}
  BY DEF Booked, OfType
<1>2. IntsOn(f, A)
  <2>1. A \in SUBSET DOMAIN movement
    BY DEF Booked, OfType
  <2> QED BY <2>1, TablesHaveRows, NatsOnSubset, NatsAreInts
<1>3. \A ss : PurchaseSum(ss, q) = SumFunctionOnSet(f, OfType(Booked(movement, ss, q), "purchase"))
  BY DEF PurchaseSum, Sum, Column
<1>4. PurchaseSum(sites, q) = SumFunctionOnSet(f, A)
  BY <1>3
<1>5. IsFiniteSet(sites)
  BY FS_Subset, FiguresAssumption
<1> HIDE DEF A, f
<1>6. \A k \in sites : s[k] = SumFunctionOnSet(f, {i \in A : movement[i].site = k})
  BY <1>1, <1>3
<1> QED BY <1>1, <1>2, <1>4, <1>5, <1>6, SumBySite

LEMMA ExpenseBySite ==
  ASSUME RecordsTypeOK, NEW sites \in SUBSET SiteIds, NEW q, NEW s, DOMAIN s = sites,
         \A k \in sites : s[k] = ExpenseSum({k}, q)
  PROVE  IntsOn(s, sites) /\ SumFunction(s) = ExpenseSum(sites, q)
<1> DEFINE A == Booked(expense, sites, q)
           f == Column(expense, "amount")
<1>1. /\ \A i \in A : expense[i].site \in sites
      /\ \A k \in sites : Booked(expense, {k}, q) = {i \in A : expense[i].site = k}
  BY DEF Booked
<1>2. IntsOn(f, A)
  <2>1. A \in SUBSET DOMAIN expense
    BY DEF Booked
  <2> QED BY <2>1, TablesHaveRows, NatsOnSubset, NatsAreInts
<1>3. \A ss : ExpenseSum(ss, q) = SumFunctionOnSet(f, Booked(expense, ss, q))
  BY DEF ExpenseSum, Sum, Column
<1>4. ExpenseSum(sites, q) = SumFunctionOnSet(f, A)
  BY <1>3
<1>5. IsFiniteSet(sites)
  BY FS_Subset, FiguresAssumption
<1> HIDE DEF A, f
<1>6. \A k \in sites : s[k] = SumFunctionOnSet(f, {i \in A : expense[i].site = k})
  BY <1>1, <1>3
<1> QED BY <1>1, <1>2, <1>4, <1>5, <1>6, SumBySite

\* The purchases that the stock of a site shows are those of the cost report.
LEMMA StockAgrees ==
  ASSUME RecordsTypeOK, NEW s \in SiteIds
  PROVE  SumFunction([m \in DOMAIN Stock(s) |-> Stock(s)[m].totalCost])
           = PurchaseSum({s}, NoFilter)
<1> DEFINE is == {i \in DOMAIN movement : movement[i].site = s}
           A == OfType(is, "purchase")
           K == {movement[i].body.material : i \in is}
           f == Column(movement, "cost")
           key == [i \in A |-> movement[i].body.material]
           t == [m \in DOMAIN Stock(s) |-> Stock(s)[m].totalCost]
<1>1. /\ DOMAIN Stock(s) = K
      /\ \A m \in K : Stock(s)[m].totalCost
                        = SumFunctionOnSet(f, {i \in A : movement[i].body.material = m})
  BY DEF Stock, Sum, Column
<1>2. DOMAIN t = K /\ \A m \in K : t[m] = SumFunctionOnSet(f, {i \in A : movement[i].body.material = m})
  BY <1>1
<1>3. /\ IntsOn(f, A) /\ IsFiniteSet(K)
  <2>1. A \in SUBSET DOMAIN movement /\ is \in SUBSET DOMAIN movement
    BY DEF OfType
  <2>2. IsFiniteSet(is)
    BY <2>1, TablesHaveRows, FS_Subset DEF Rows
  <2>3. IsFiniteSet(K)
    <3> DEFINE material == [i \in is |-> movement[i].body.material]
    <3>1. K = {material[i] : i \in is}
      OBVIOUS
    <3> HIDE DEF K, material
    <3> QED BY <2>2, <3>1, FiniteImage
  <2> QED BY <2>1, <2>3, TablesHaveRows, NatsOnSubset, NatsAreInts
<1>4. \A i \in A : key[i] \in K
  BY DEF OfType
<1>5. \A m : {i \in A : movement[i].body.material = m} = {i \in A : key[i] = m}
  OBVIOUS
<1>6. PurchaseSum({s}, NoFilter) = SumFunctionOnSet(f, A)
  <2>1. Booked(movement, {s}, NoFilter) = is
    BY BookedWithoutFilter, TablesHaveRows
  <2> QED BY <2>1 DEF PurchaseSum, Sum, Column
<1> HIDE DEF A, K, f, key, t
<1>7. \A m \in K : t[m] = SumFunctionOnSet(f, {i \in A : key[i] = m})
  BY <1>2, <1>5
<1>8. SumFunction(t) = SumFunctionOnSet(f, A)
  BY <1>2, <1>3, <1>4, <1>7, SumOfKeys
<1> QED BY <1>6, <1>8 DEF t

LEMMA SitesOfAreSites == \A p : SitesOf(p) \in SUBSET SiteIds /\ IsFiniteSet(SitesOf(p))
<1>1. \A p : SitesOf(p) \in SUBSET SiteIds
  BY DEF SitesOf
<1> QED BY <1>1, FS_Subset, FiguresAssumption

LEMMA SitesAgree ==
  ASSUME RecordsTypeOK, NEW p \in Projects
  PROVE  SitesAddUp(p)
<1> DEFINE S == SitesOf(p)
           OfSite(s) == SiteLabourReport(s, NoFilter) + SiteExpenseReport(s, NoFilter)
                          + SumFunction([m \in DOMAIN Stock(s) |-> Stock(s)[m].totalCost])
           t == [s \in S |-> OfSite(s)]
           l == [s \in S |-> LabourSum({s}, NoFilter)]
           m == [s \in S |-> PurchaseSum({s}, NoFilter)]
           e == [s \in S |-> ExpenseSum({s}, NoFilter)]
           le == [s \in S |-> l[s] + e[s]]
<1>1. S \in SUBSET SiteIds
  BY SitesOfAreSites
<1>2. \A s \in S : OfSite(s) = (LabourSum({s}, NoFilter) + ExpenseSum({s}, NoFilter))
                                  + PurchaseSum({s}, NoFilter)
  BY <1>1, StockAgrees DEF SiteLabourReport, SiteExpenseReport
<1> HIDE DEF OfSite
<1>3. /\ DOMAIN l = S /\ DOMAIN m = S /\ DOMAIN e = S
      /\ \A s \in S : /\ l[s] = LabourSum({s}, NoFilter) /\ m[s] = PurchaseSum({s}, NoFilter)
                      /\ e[s] = ExpenseSum({s}, NoFilter)
      /\ DOMAIN t = S /\ DOMAIN le = S /\ (\A s \in S : le[s] = l[s] + e[s])
      /\ \A s \in S : t[s] = le[s] + m[s]
  BY <1>2
<1> HIDE DEF t, l, m, e, le
<1> HIDE DEF S
<1>4. /\ IntsOn(l, S) /\ IntsOn(m, S) /\ IntsOn(e, S)
      /\ SumFunction(l) = LabourSum(S, NoFilter) /\ SumFunction(m) = PurchaseSum(S, NoFilter)
      /\ SumFunction(e) = ExpenseSum(S, NoFilter)
  <2>1. IntsOn(l, S) /\ SumFunction(l) = LabourSum(S, NoFilter)
    BY <1>1, <1>3, LabourBySite
  <2>2. IntsOn(m, S) /\ SumFunction(m) = PurchaseSum(S, NoFilter)
    BY <1>1, <1>3, PurchaseBySite
  <2>3. IntsOn(e, S) /\ SumFunction(e) = ExpenseSum(S, NoFilter)
    BY <1>1, <1>3, ExpenseBySite
  <2> QED BY <2>1, <2>2, <2>3
<1>5. IntsOn(le, S) /\ SumFunction(le) = SumFunction(l) + SumFunction(e)
  BY <1>3, <1>4, SumOfSums DEF SumFunction
<1>6. SumFunction(t) = SumFunction(le) + SumFunction(m)
  BY <1>3, <1>4, <1>5, SumOfSums DEF SumFunction
<1>7. SumFunction(t) = LabourSum(S, NoFilter) + PurchaseSum(S, NoFilter) + ExpenseSum(S, NoFilter)
  BY <1>4, <1>5, <1>6, PartsAreNats
<1>8. ProjectCost(p, NoFilter).totalSpent
        = LabourSum(S, NoFilter) + PurchaseSum(S, NoFilter) + ExpenseSum(S, NoFilter)
  BY TotalSpent, SitesWithoutFilter DEF S
<1> QED BY <1>7, <1>8 DEF SitesAddUp, t, OfSite, S

LEMMA DaysAgree ==
  ASSUME RecordsTypeOK, NEW p \in Projects
  PROVE  DaysAddUp(p)
<1> DEFINE S == SitesOf(p)
           t == [d \in Days |-> ProjectCost(p, OnDay(d)).totalSpent]
           l == [d \in Days |-> LabourSum(S, OnDay(d))]
           m == [d \in Days |-> PurchaseSum(S, OnDay(d))]
           e == [d \in Days |-> ExpenseSum(S, OnDay(d))]
           lm == [d \in Days |-> l[d] + m[d]]
<1>1. \A d \in Days : OnDay(d).site = AnySite /\ OnDay(d).from = d /\ OnDay(d).to = d
  BY AllDays DEF OnDay, Filter
<1>2. \A d \in Days : SitesIn(p, OnDay(d)) = S
  BY <1>1 DEF SitesIn
<1>3. \A d \in Days : t[d] = LabourSum(S, OnDay(d)) + PurchaseSum(S, OnDay(d))
                               + ExpenseSum(S, OnDay(d))
  BY <1>2, TotalSpent
<1>4. /\ DOMAIN l = Days /\ DOMAIN m = Days /\ DOMAIN e = Days /\ DOMAIN t = Days
      /\ DOMAIN lm = Days /\ (\A d \in Days : lm[d] = l[d] + m[d])
      /\ \A d \in Days : /\ l[d] = LabourSum(S, OnDay(d)) /\ m[d] = PurchaseSum(S, OnDay(d))
                         /\ e[d] = ExpenseSum(S, OnDay(d))
  OBVIOUS
<1> HIDE DEF t, l, m, e, lm
<1>5. ASSUME NEW rows, Rows(rows), NEW d \in Days
      PROVE  Booked(rows, S, OnDay(d)) = {i \in Booked(rows, S, NoFilter) : rows[i].day = d}
  <2>1. \A x \in Days : x \in d .. d <=> x = d
    BY RecordsAssumption
  <2>2. Booked(rows, S, OnDay(d))
          = {i \in DOMAIN rows : rows[i].site \in S /\ rows[i].day \in d .. d}
    BY <1>1 DEF Booked
  <2>3. Booked(rows, S, NoFilter) = {i \in DOMAIN rows : rows[i].site \in S}
    BY <1>5, BookedWithoutFilter
  <2>4. \A i \in DOMAIN rows : rows[i].day \in Days
    BY <1>5 DEF Rows
  <2> QED BY <2>1, <2>2, <2>3, <2>4
<1> HIDE DEF S
<1>6. IntsOn(l, Days) /\ SumFunction(l) = LabourSum(S, NoFilter)
  <2> DEFINE A == Booked(labour, S, NoFilter)
             f == Column(labour, "cost")
  <2>1. A \in SUBSET DOMAIN labour
    BY DEF Booked
  <2>2. IntsOn(f, A) /\ \A i \in A : labour[i].day \in Days
    BY <2>1, TablesHaveRows, NatsOnSubset, NatsAreInts DEF Rows
  <2>3. \A d \in Days : l[d] = SumFunctionOnSet(f, {i \in A : labour[i].day = d})
    BY <1>4, <1>5, TablesHaveRows DEF LabourSum, Sum, Column
  <2>4. LabourSum(S, NoFilter) = SumFunctionOnSet(f, A)
    BY DEF LabourSum, Sum, Column
  <2> HIDE DEF A, f
  <2> QED BY <1>4, <2>2, <2>3, <2>4, SumByDay
<1>7. IntsOn(m, Days) /\ SumFunction(m) = PurchaseSum(S, NoFilter)
  <2> DEFINE A == OfType(Booked(movement, S, NoFilter), "purchase")
             f == Column(movement, "cost")
  <2>1. A \in SUBSET DOMAIN movement
    BY DEF Booked, OfType
  <2>2. IntsOn(f, A) /\ \A i \in A : movement[i].day \in Days
    BY <2>1, TablesHaveRows, NatsOnSubset, NatsAreInts DEF Rows
  <2>5. ASSUME NEW d \in Days
        PROVE  OfType(Booked(movement, S, OnDay(d)), "purchase") = {i \in A : movement[i].day = d}
    <3>1. Booked(movement, S, OnDay(d))
            = {i \in Booked(movement, S, NoFilter) : movement[i].day = d}
      BY <1>5, TablesHaveRows
    <3> QED BY <3>1 DEF OfType
  <2>3. \A d \in Days : m[d] = SumFunctionOnSet(f, {i \in A : movement[i].day = d})
    BY <1>4, <2>5 DEF PurchaseSum, Sum, Column
  <2>4. PurchaseSum(S, NoFilter) = SumFunctionOnSet(f, A)
    BY DEF PurchaseSum, Sum, Column
  <2> HIDE DEF A, f
  <2> QED BY <1>4, <2>2, <2>3, <2>4, SumByDay
<1>8. IntsOn(e, Days) /\ SumFunction(e) = ExpenseSum(S, NoFilter)
  <2> DEFINE A == Booked(expense, S, NoFilter)
             f == Column(expense, "amount")
  <2>1. A \in SUBSET DOMAIN expense
    BY DEF Booked
  <2>2. IntsOn(f, A) /\ \A i \in A : expense[i].day \in Days
    BY <2>1, TablesHaveRows, NatsOnSubset, NatsAreInts DEF Rows
  <2>3. \A d \in Days : e[d] = SumFunctionOnSet(f, {i \in A : expense[i].day = d})
    BY <1>4, <1>5, TablesHaveRows DEF ExpenseSum, Sum, Column
  <2>4. ExpenseSum(S, NoFilter) = SumFunctionOnSet(f, A)
    BY DEF ExpenseSum, Sum, Column
  <2> HIDE DEF A, f
  <2> QED BY <1>4, <2>2, <2>3, <2>4, SumByDay
<1>9. IntsOn(lm, Days) /\ SumFunction(lm) = SumFunction(l) + SumFunction(m)
  BY <1>4, <1>6, <1>7, SumOfSums DEF SumFunction
<1>10. \A d \in Days : t[d] = lm[d] + e[d]
  BY <1>3, <1>4
<1>11. SumFunction(t) = SumFunction(lm) + SumFunction(e)
  BY <1>4, <1>8, <1>9, <1>10, SumOfSums DEF SumFunction
<1>12. ProjectCost(p, NoFilter).totalSpent
         = LabourSum(S, NoFilter) + PurchaseSum(S, NoFilter) + ExpenseSum(S, NoFilter)
  BY TotalSpent, SitesWithoutFilter DEF S
<1> QED BY <1>6, <1>7, <1>8, <1>9, <1>11, <1>12, Zenon DEF DaysAddUp, t

\* A map keyed by category has the total of its rows.
LEMMA CategoriesAgree ==
  ASSUME NEW rows, NEW column, NEW category, NatsOn(Column(rows, column), DOMAIN category)
  PROVE  SumFunction(ByCategory(rows, column, category)) = Sum(rows, column, DOMAIN category)
<1> DEFINE s == ByCategory(rows, column, category)
           f == Column(rows, column)
<1>1. /\ DOMAIN s = Range(category)
      /\ \A c \in Range(category) :
           s[c] = SumFunctionOnSet(f, {i \in DOMAIN category : category[i] = c})
  BY DEF ByCategory, Sum, Column
<1>2. Range(category) = {category[i] : i \in DOMAIN category}
  BY DEF Range
<1>3. IsFiniteSet(Range(category)) /\ \A i \in DOMAIN category : category[i] \in Range(category)
  <2>1. IsFiniteSet(DOMAIN category)
    BY DEF NatsOn
  <2> QED BY <1>2, <2>1, FiniteImage
<1>4. Sum(rows, column, DOMAIN category) = SumFunctionOnSet(f, DOMAIN category)
  BY DEF Sum, Column
<1> HIDE DEF s, f
<1>5. IntsOn(f, DOMAIN category)
  BY NatsAreInts DEF f
<1> DEFINE A == DOMAIN category
           K == Range(category)
<1>6. /\ IntsOn(f, A) /\ IsFiniteSet(K) /\ DOMAIN s = K /\ (\A x \in A : category[x] \in K)
      /\ \A k \in K : s[k] = SumFunctionOnSet(f, {x \in A : category[x] = k})
  BY <1>1, <1>3, <1>5
<1> HIDE DEF A, K
<1>7. SumFunction(s) = SumFunctionOnSet(f, A)
  BY <1>6, SumOfKeys
<1> QED BY <1>4, <1>7 DEF A, s

LEMMA GroupsAgree ==
  ASSUME RecordsTypeOK, NEW p \in Projects
  PROVE  CategoriesAddUp(p)
<1> DEFINE S == SitesIn(p, NoFilter)
           ls == Booked(labour, S, NoFilter)
           ms == Booked(movement, S, NoFilter)
           es == Booked(expense, S, NoFilter)
           trade == [i \in ls |-> labour[i].body.category]
           goods == [i \in ms |-> CategoryOf[movement[i].body.material]]
           spend == [i \in es |-> expense[i].category]
<1>1. /\ ls \in SUBSET DOMAIN labour /\ ms \in SUBSET DOMAIN movement
      /\ es \in SUBSET DOMAIN expense
  BY DEF Booked
<1>2. /\ NatsOn(Column(labour, "cost"), ls) /\ NatsOn(BodyColumn(labour, "headcount"), ls)
      /\ NatsOn(Column(movement, "cost"), ms) /\ NatsOn(Column(expense, "amount"), es)
  BY <1>1, TablesHaveRows, NatsOnSubset
<1>3. DOMAIN trade = ls /\ DOMAIN goods = ms /\ DOMAIN spend = es
  OBVIOUS
<1>4. ProjectLabourCost(p, NoFilter).totalCost
        = SumFunction(ProjectLabourCost(p, NoFilter).trades)
  <2>1. /\ ProjectLabourCost(p, NoFilter).totalCost = Sum(labour, "cost", ls)
        /\ ProjectLabourCost(p, NoFilter).trades = ByCategory(labour, "cost", trade)
    BY DEF ProjectLabourCost
  <2> HIDE DEF trade, ls
  <2> QED BY <1>2, <1>3, <2>1, CategoriesAgree
<1>5. ProjectExpenses(p, NoFilter).totalExpenses
        = SumFunction(ProjectExpenses(p, NoFilter).categories)
  <2>1. /\ ProjectExpenses(p, NoFilter).totalExpenses = Sum(expense, "amount", es)
        /\ ProjectExpenses(p, NoFilter).categories = ByCategory(expense, "amount", spend)
    BY DEF ProjectExpenses
  <2> HIDE DEF spend, es
  <2> QED BY <1>2, <1>3, <2>1, CategoriesAgree
<1>6. ProjectLabourCost(p, NoFilter).totalWorkers
        = SumFunction(ProjectLabourCost(p, NoFilter).workers)
  <2> DEFINE f == BodyColumn(labour, "headcount")
             s == ProjectLabourCost(p, NoFilter).workers
             K == Range(trade)
  <2>1. ProjectLabourCost(p, NoFilter).totalWorkers = SumFunctionOnSet(f, ls)
    BY DEF ProjectLabourCost, SumOfBodies, BodyColumn
  <2>2. /\ DOMAIN s = K
        /\ \A t \in K : s[t] = SumFunctionOnSet(f, {i \in ls : trade[i] = t})
    BY DEF ProjectLabourCost, SumOfBodies, BodyColumn
  <2>3. K = {trade[i] : i \in ls}
    BY <1>3 DEF Range
  <2>4. IsFiniteSet(ls) /\ IntsOn(f, ls)
    BY <1>2, NatsAreInts DEF NatsOn
  <2> HIDE DEF trade, ls, s, K, f
  <2>5. IsFiniteSet(K)
    BY <2>3, <2>4, FiniteImage
  <2>6. \A i \in ls : trade[i] \in K
    BY <2>3
  <2>7. SumFunction(s) = SumFunctionOnSet(f, ls)
    BY <2>2, <2>4, <2>5, <2>6, SumOfKeys
  <2> QED BY <2>1, <2>7 DEF s
<1>7. ProjectMaterialCost(p, NoFilter).totalPurchases
        + ProjectMaterialCost(p, NoFilter).totalConsumption
          <= SumFunction(ProjectMaterialCost(p, NoFilter).categories)
  <2> DEFINE f == Column(movement, "cost")
             B == OfType(ms, "purchase")
             C == OfType(ms, "consumption")
  <2>1. /\ ProjectMaterialCost(p, NoFilter).totalPurchases = SumFunctionOnSet(f, B)
        /\ ProjectMaterialCost(p, NoFilter).totalConsumption = SumFunctionOnSet(f, C)
        /\ ProjectMaterialCost(p, NoFilter).categories = ByCategory(movement, "cost", goods)
    BY DEF ProjectMaterialCost, Sum, Column
  <2>2. B \cup C \in SUBSET ms /\ B \cap C = {}
    BY DEF OfType
  <2>3. Sum(movement, "cost", ms) = SumFunctionOnSet(f, ms)
    BY DEF Sum, Column
  <2> HIDE DEF goods, ms, B, C
  <2>4. SumFunction(ProjectMaterialCost(p, NoFilter).categories) = SumFunctionOnSet(f, ms)
    BY <1>2, <1>3, <2>1, <2>3, CategoriesAgree
  <2> HIDE DEF f
  <2>5. NatsOn(f, B \cup C) /\ NatsOn(f, ms)
    BY <1>2, <2>2, NatsOnSubset DEF f
  <2>6. SumFunctionOnSet(f, B \cup C) = SumFunctionOnSet(f, B) + SumFunctionOnSet(f, C)
    BY <2>2, <2>5, NatsAreInts, SumOfUnion
  <2>7. SumFunctionOnSet(f, B \cup C) <= SumFunctionOnSet(f, ms)
    <3> DEFINE D == B \cup C
    <3>1. D \subseteq ms /\ NatsOn(f, D)
      BY <2>2, <2>5
    <3> HIDE DEF D
    <3>2. \A x \in D : f[x] <= f[x]
      BY <3>1 DEF NatsOn
    <3>3. SumFunctionOnSet(f, D) <= SumFunctionOnSet(f, ms)
      BY <2>5, <3>1, <3>2, SumGrows
    <3> QED BY <3>3 DEF D
  <2> QED BY <2>1, <2>4, <2>6, <2>7
<1> QED BY <1>4, <1>5, <1>6, <1>7 DEF CategoriesAddUp

\* What the summary of a project is made of.
LEMMA SummaryIs ==
  ASSUME RecordsTypeOK, NEW p \in Projects
  PROVE  /\ ProjectSummary(p).otherCosts \in Nat
         /\ ProjectSummary(p).totalCost
              = ProjectCost(p, NoFilter).totalSpent + ProjectSummary(p).otherCosts
         /\ ProjectSummary(p).totalCost \in Int
         /\ ProjectSummary(p).totalRevenue \in Int
         /\ ProjectSummary(p).netProfit
              = ProjectSummary(p).totalRevenue - ProjectSummary(p).totalCost
<1> DEFINE S == SitesOf(p)
           costs == [part \in Parts |-> PartSum(part, S, NoFilter)]
           reported == SumFunctionOnSet(Revenue, S)
<1>1. NatsOn(OtherCosts, S) /\ NatsOn(Revenue, S)
  BY SitesOfAreSites, FiguresAssumption DEF NatsOn
<1>2. SumFunctionOnSet(OtherCosts, S) \in Nat /\ reported \in Nat
  BY <1>1, SumIsNat
<1>3. ProjectSummary(p) = 
        LET other == SumFunctionOnSet(OtherCosts, S)
            total == SumFunction(costs) + other
            revenue == IF reported > 0 THEN reported ELSE ContractValue[p]
        IN [costs |-> costs, otherCosts |-> other, totalCost |-> total,
            totalRevenue |-> revenue, netProfit |-> revenue - total]
  BY DEF ProjectSummary
<1>4. ProjectCost(p, NoFilter).totalSpent = SumFunction(costs)
  BY SitesWithoutFilter DEF ProjectCost
<1>5. SumFunction(costs) \in Nat
  BY <1>4, TotalSpent
<1>6. ContractValue[p] \in Nat
  BY FiguresAssumption
<1> HIDE DEF costs, reported, S
<1>7. /\ ProjectSummary(p).otherCosts = SumFunctionOnSet(OtherCosts, S)
      /\ ProjectSummary(p).totalCost = SumFunction(costs) + ProjectSummary(p).otherCosts
      /\ ProjectSummary(p).totalRevenue = IF reported > 0 THEN reported ELSE ContractValue[p]
      /\ ProjectSummary(p).netProfit
           = ProjectSummary(p).totalRevenue - ProjectSummary(p).totalCost
  BY <1>3
<1> QED BY <1>2, <1>4, <1>5, <1>6, <1>7

LEMMA SummaryAgrees ==
  ASSUME RecordsTypeOK, NEW p \in Projects
  PROVE  SummaryAddsUp(p)
<1> DEFINE S == SitesOf(p)
           ms == Booked(movement, S, NoFilter)
           B == OfType(ms, "purchase")
           C == OfType(ms, "consumption")
           f == Column(movement, "cost")
           A == B \cup C
           OfDays(s) == SumFunction([d \in Days |-> SiteMaterialCost(s, d)])
           t == [s \in S |-> OfDays(s)]
<1>1. ProjectCost(p, NoFilter).remainingBudget - ProjectSummary(p).otherCosts
        = ProjectProfitability(p).costVariance
  <2>1. ProjectProfitability(p).costVariance = Budget[p] - ProjectSummary(p).totalCost
    BY DEF ProjectProfitability
  <2>2. Budget[p] \in Nat
    BY FiguresAssumption
  <2> QED BY <2>1, <2>2, SummaryIs, TotalSpent
<1>2. /\ ProjectMaterialCost(p, NoFilter).totalPurchases = SumFunctionOnSet(f, B)
      /\ ProjectMaterialCost(p, NoFilter).totalConsumption = SumFunctionOnSet(f, C)
  BY SitesWithoutFilter DEF ProjectMaterialCost, Sum, Column
<1>3. B \cap C = {} /\ A \in SUBSET DOMAIN movement /\ ms = {i \in DOMAIN movement : movement[i].site \in S}
  BY BookedWithoutFilter, TablesHaveRows DEF OfType
<1>4. /\ IntsOn(f, A)
      /\ \A i \in A : movement[i].day \in Days /\ movement[i].site \in S
  <2>1. \A i \in A : movement[i].site \in S
    BY <1>3 DEF OfType
  <2> QED BY <1>3, <2>1, TablesHaveRows, NatsOnSubset, NatsAreInts DEF Rows
<1>5. \A s \in S, d \in Days :
        SiteMaterialCost(s, d)
          = SumFunctionOnSet(f, {i \in {j \in A : movement[j].site = s} : movement[i].day = d})
  <2> SUFFICES ASSUME NEW s \in S, NEW d \in Days
               PROVE  SiteMaterialCost(s, d)
                        = SumFunctionOnSet(f, {i \in {j \in A : movement[j].site = s} :
                                                 movement[i].day = d})
    OBVIOUS
  <2> DEFINE is == {i \in DOMAIN movement : movement[i].site = s /\ movement[i].day = d}
  <2>1. SiteMaterialCost(s, d)
          = SumFunctionOnSet(f, OfType(is, "purchase") \cup OfType(is, "consumption"))
    BY DEF SiteMaterialCost, Sum, Column
  <2>2. OfType(is, "purchase") \cup OfType(is, "consumption")
          = {i \in {j \in A : movement[j].site = s} : movement[i].day = d}
    BY <1>3 DEF OfType
  <2> QED BY <2>1, <2>2
<1>6. SumFunctionOnSet(f, A) = SumFunctionOnSet(f, B) + SumFunctionOnSet(f, C)
  <2> HIDE DEF B, C, f
  <2> QED BY <1>3, <1>4, SumOfUnion
<1> HIDE DEF A, f
<1>7. ASSUME NEW s \in S
      PROVE  t[s] = SumFunctionOnSet(f, {i \in A : movement[i].site = s})
  <2> DEFINE D == {i \in A : movement[i].site = s}
             u == [d \in Days |-> SiteMaterialCost(s, d)]
  <2>1. IntsOn(f, D) /\ \A i \in D : movement[i].day \in Days
    BY <1>4, IntsOnSubset
  <2>2. DOMAIN u = Days /\ \A d \in Days : u[d] = SumFunctionOnSet(f, {i \in D : movement[i].day = d})
    BY <1>5
  <2>3. t[s] = SumFunction(u)
    OBVIOUS
  <2> HIDE DEF u, D
  <2>4. SumFunction(u) = SumFunctionOnSet(f, D)
    BY <2>1, <2>2, SumByDay
  <2> QED BY <2>3, <2>4 DEF D
<1>8. SumFunction(t) = SumFunctionOnSet(f, A)
  <2>1. DOMAIN t = S
    OBVIOUS
  <2>2. IsFiniteSet(S)
    BY SitesOfAreSites
  <2> HIDE DEF t, S
  <2> QED BY <1>4, <1>7, <2>1, <2>2, SumBySite
<1>9. ProjectMaterialCost(p, NoFilter).totalPurchases
        + ProjectMaterialCost(p, NoFilter).totalConsumption
        = SumFunction([s \in SitesOf(p) |-> SumFunction([d \in Days |-> SiteMaterialCost(s, d)])])
  BY <1>2, <1>6, <1>8
<1> QED BY <1>1, <1>9, SummaryIs, Zenon DEF SummaryAddsUp

\* Every project there is belongs to one contractor, and the admin sees them all.
LEMMA Portfolios ==
  LET ps == AccessibleProjects(Admin) IN
  /\ ps \in SUBSET Projects /\ IsFiniteSet(ps) /\ IsFiniteSet(Contractors)
  /\ \A p \in ps : OwnerOf[p] \in Contractors
  /\ \A c \in Contractors : AccessibleProjects(c) = {p \in ps : OwnerOf[p] = c}
<1>1. Admin \notin Contractors
  BY RecordsAssumption
<1>2. AccessibleProjects(Admin) = {p \in Projects : project[p] # "none"}
  BY <1>1 DEF AccessibleProjects
<1>3. \A c \in Contractors :
        AccessibleProjects(c) = {p \in AccessibleProjects(Admin) : OwnerOf[p] = c}
  BY <1>2 DEF AccessibleProjects
<1>4. OwnerOf \in [Projects -> Contractors]
  BY SitesAssumption
<1> QED BY <1>2, <1>3, <1>4, FS_Subset, FiguresAssumption

\* A figure summed over the projects of each contractor is that of the admin.
LEMMA SumByOwner ==
  ASSUME NEW f, IntsOn(f, AccessibleProjects(Admin)),
         NEW s, DOMAIN s = Contractors,
         NEW g, DOMAIN g = Contractors,
         \A c \in Contractors :
           /\ s[c] = SumFunction(g[c]) /\ DOMAIN g[c] = AccessibleProjects(c)
           /\ \A p \in AccessibleProjects(c) : g[c][p] = f[p]
  PROVE  IntsOn(s, Contractors) /\ SumFunction(s) = SumFunctionOnSet(f, AccessibleProjects(Admin))
<1> DEFINE ps == AccessibleProjects(Admin)
<1>1. \A c \in Contractors : AccessibleProjects(c) = {p \in ps : OwnerOf[p] = c}
  BY Portfolios
<1>2. IsFiniteSet(Contractors) /\ \A p \in ps : OwnerOf[p] \in Contractors
  BY Portfolios
<1>3. ASSUME NEW c \in Contractors
      PROVE  s[c] = SumFunctionOnSet(f, {p \in ps : OwnerOf[p] = c})
  <2> DEFINE A == AccessibleProjects(c)
             h == g[c]
  <2>1. A \in SUBSET ps /\ A = {p \in ps : OwnerOf[p] = c}
    BY <1>1
  <2>2. s[c] = SumFunctionOnSet(h, A) /\ \A p \in A : h[p] = f[p]
    BY DEF SumFunction
  <2> HIDE DEF A, h
  <2>3. IntsOn(f, A)
    BY <2>1, IntsOnSubset
  <2>4. SumFunctionOnSet(h, A) = SumFunctionOnSet(f, A)
    BY <2>2, <2>3, SumAgrees
  <2> QED BY <2>1, <2>2, <2>4
<1> HIDE DEF ps
<1>4. IntsOn(f, ps)
  BY DEF ps
<1>5. SumFunction(s) = SumFunctionOnSet(f, ps) /\ IntsOn(s, Contractors)
  BY <1>2, <1>3, <1>4, SumOfKeys
<1> QED BY <1>5 DEF ps

LEMMA PortfolioAgrees == RecordsTypeOK => PortfolioAddsUp
<1> SUFFICES ASSUME RecordsTypeOK PROVE PortfolioAddsUp
  OBVIOUS
<1> DEFINE ps(c) == AccessibleProjects(c)
<1>1. /\ ps(Admin) \in SUBSET Projects /\ IsFiniteSet(ps(Admin))
      /\ \A c \in Contractors : ps(c) \in SUBSET ps(Admin)
  BY Portfolios
<1>2. FinancialCost(Admin, NoFilter).totalSpent =
        SumFunction([c \in Contractors |-> FinancialCost(c, NoFilter).totalSpent])
  <2> DEFINE f == [p \in ps(Admin) |-> ProjectCost(p, NoFilter).totalSpent]
             g == [c \in Contractors |-> [p \in ps(c) |-> ProjectCost(p, NoFilter).totalSpent]]
             s == [c \in Contractors |-> FinancialCost(c, NoFilter).totalSpent]
  <2>1. IntsOn(f, ps(Admin)) /\ DOMAIN f = ps(Admin)
    BY <1>1, TotalSpent DEF IntsOn
  <2>2. /\ FinancialCost(Admin, NoFilter).totalSpent = SumFunction(f)
        /\ \A c \in Contractors : s[c] = SumFunction(g[c])
    BY DEF FinancialCost
  <2>3. /\ DOMAIN s = Contractors /\ DOMAIN g = Contractors
        /\ \A c \in Contractors : /\ DOMAIN g[c] = ps(c)
                                  /\ \A p \in ps(c) : g[c][p] = f[p]
    BY <1>1
  <2>5. SumFunction(f) = SumFunctionOnSet(f, ps(Admin))
    BY <2>1 DEF SumFunction
  <2> HIDE DEF f, g, s
  <2>4. SumFunction(s) = SumFunctionOnSet(f, ps(Admin))
    BY <2>1, <2>2, <2>3, SumByOwner
  <2> QED BY <2>2, <2>4, <2>5 DEF s
<1>3. FinancialProfitability(Admin).netProfit =
        SumFunction([c \in Contractors |-> FinancialProfitability(c).netProfit])
  <2> DEFINE R(p) == ProjectProfitability(p).recognizedRevenue
             C(p) == ProjectProfitability(p).actualCost
             rf == [p \in ps(Admin) |-> R(p)]
             cf == [p \in ps(Admin) |-> C(p)]
             rg == [c \in Contractors |-> [p \in ps(c) |-> R(p)]]
             cg == [c \in Contractors |-> [p \in ps(c) |-> C(p)]]
             r == [c \in Contractors |-> SumFunction(rg[c])]
             k == [c \in Contractors |-> SumFunction(cg[c])]
             s == [c \in Contractors |-> FinancialProfitability(c).netProfit]
  <2>1. \A p \in Projects : R(p) \in Int /\ C(p) \in Int
    BY SummaryIs DEF ProjectProfitability
  <2>2. /\ FinancialProfitability(Admin).netProfit = SumFunction(rf) - SumFunction(cf)
        /\ \A c \in Contractors : s[c] = SumFunction(rg[c]) - SumFunction(cg[c])
    BY DEF FinancialProfitability
  <2> HIDE DEF R, C
  <2>3. IntsOn(rf, ps(Admin)) /\ IntsOn(cf, ps(Admin)) /\ DOMAIN rf = ps(Admin) /\ DOMAIN cf = ps(Admin)
    BY <1>1, <2>1 DEF IntsOn
  <2>4. /\ DOMAIN r = Contractors /\ DOMAIN k = Contractors /\ DOMAIN s = Contractors
        /\ DOMAIN rg = Contractors /\ DOMAIN cg = Contractors
        /\ \A c \in Contractors : /\ r[c] = SumFunction(rg[c]) /\ k[c] = SumFunction(cg[c])
                                  /\ DOMAIN rg[c] = ps(c) /\ DOMAIN cg[c] = ps(c)
                                  /\ \A p \in ps(c) : rg[c][p] = rf[p] /\ cg[c][p] = cf[p]
    BY <1>1
  <2> HIDE DEF rf, cf, rg, cg, r, k, s
  <2>5. IntsOn(r, Contractors) /\ SumFunction(r) = SumFunctionOnSet(rf, ps(Admin))
    BY <2>3, <2>4, SumByOwner
  <2>6. IntsOn(k, Contractors) /\ SumFunction(k) = SumFunctionOnSet(cf, ps(Admin))
    BY <2>3, <2>4, SumByOwner
  <2>7. \A c \in Contractors : s[c] = r[c] - k[c]
    BY <2>2, <2>4
  <2>8. SumFunction(s) = SumFunction(r) - SumFunction(k)
    <3>1. SumFunctionOnSet(s, Contractors)
            = SumFunctionOnSet(r, Contractors) - SumFunctionOnSet(k, Contractors)
      BY <2>5, <2>6, <2>7, SumOfDifferences
    <3> QED BY <2>4, <3>1, Zenon DEF SumFunction
  <2>9. SumFunction(rf) = SumFunctionOnSet(rf, ps(Admin)) /\ SumFunction(cf) = SumFunctionOnSet(cf, ps(Admin))
    BY <2>3 DEF SumFunction
  <2> QED BY <2>2, <2>5, <2>6, <2>8, <2>9 DEF s
<1> QED BY <1>2, <1>3 DEF PortfolioAddsUp

\* The tables decide the figures: whenever the rows are of their types the
\* reports agree.
LEMMA FiguresAgree == RecordsTypeOK => ReportsAgree
  BY SitesAgree, DaysAgree, PartsAgree, GroupsAgree, SummaryAgrees, PortfolioAgrees
    DEF ReportsAgree

-----------------------------------------------------------------------------
\* A report under way.  What it has summed is in the sums of now, and what it
\* had to find at its start it has summed or will find, in the rows of now.
Spent(left, sites, q) ==
  SumFunctionOnSet([part \in Parts |-> PartSum(part, sites, q)], left)

Between(f) ==
  f.pc # "idle" /\ ~f.edited =>
    /\ f.pc = "sites" =>
         f.atStart <= Spent(Parts, SitesIn(f.project, f.filter), f.filter)
    /\ f.pc = "sums" =>
         /\ f.sites \subseteq SitesIn(f.project, f.filter)
         /\ f.atStart <= f.spent + Spent(f.left, f.sites, f.filter)
         /\ f.spent <= Spent(Parts \ f.left, f.sites, f.filter)
    /\ f.pc = "answered" => f.atStart <= f.spent /\ f.spent <= f.atEnd

FiguresInv ==
  SiteWorkInv /\ FiguresTypeOK /\ \A r \in FigureReq : Between(freq[r])

\* A frame, by its place in the code.
LEMMA FigureFrameKinds ==
  ASSUME NEW f \in FigureFrame
  PROVE  /\ f.pc \in {"idle", "sites", "sums", "answered"}
         /\ f.pc = "sites" =>
              f \in [pc : {"sites"}, project : Projects, filter : Filter, atStart : Nat,
                     edited : BOOLEAN]
         /\ f.pc = "sums" =>
              f \in [pc : {"sums"}, project : Projects, filter : Filter, atStart : Nat,
                     edited : BOOLEAN, sites : SUBSET SiteIds, left : SUBSET Parts, spent : Nat]
         /\ f.pc = "answered" =>
              f \in [pc : {"answered"}, atStart : Nat, edited : BOOLEAN, spent : Nat, atEnd : Nat]
  BY DEF FigureFrame

LEMMA FigureFrames ==
  /\ FigureIdle \in FigureFrame /\ FigureIdle.pc = "idle"
  /\ \A f \in [pc : {"sites"}, project : Projects, filter : Filter, atStart : Nat,
               edited : BOOLEAN] : f \in FigureFrame
  /\ \A f \in [pc : {"sums"}, project : Projects, filter : Filter, atStart : Nat,
               edited : BOOLEAN, sites : SUBSET SiteIds, left : SUBSET Parts, spent : Nat] :
       f \in FigureFrame
  /\ \A f \in [pc : {"answered"}, atStart : Nat, edited : BOOLEAN, spent : Nat, atEnd : Nat] :
       f \in FigureFrame
  BY DEF FigureFrame, FigureIdle

\* More rows of more sites do not make a part smaller.
LEMMA PartGrows ==
  ASSUME NEW rows, NEW more, NEW column, NEW is \in SUBSET DOMAIN rows, NEW js,
         NatsOn(Column(rows, column), DOMAIN rows), NatsOn(Column(more, column), js),
         is \subseteq js, js \subseteq DOMAIN more,
         \A i \in is : rows[i][column] = more[i][column]
  PROVE  /\ SumFunctionOnSet(Column(rows, column), is) \in Nat
         /\ SumFunctionOnSet(Column(more, column), js) \in Nat
         /\ SumFunctionOnSet(Column(rows, column), is) <= SumFunctionOnSet(Column(more, column), js)
<1>1. NatsOn(Column(rows, column), is)
  BY NatsOnSubset
<1>2. \A i \in is : Column(rows, column)[i] = Column(more, column)[i]
  BY DEF Column
<1>3. \A i \in is : Column(rows, column)[i] <= Column(more, column)[i]
  BY <1>1, <1>2 DEF NatsOn
<1> QED BY <1>1, <1>3, SumIsNat, SumGrows

\* What a step that edits no expense does to the tables: rows are added, and
\* what a report reads of the others stays.
Grows(l, m, e, l2, m2, e2) ==
  /\ \A i \in DOMAIN l : i \in DOMAIN l2 /\ l2[i] = l[i]
  /\ \A i \in DOMAIN m :
       /\ i \in DOMAIN m2
       /\ m2[i].site = m[i].site /\ m2[i].day = m[i].day
       /\ m2[i].body = m[i].body /\ m2[i].cost = m[i].cost
  /\ \A i \in DOMAIN e : i \in DOMAIN e2 /\ e2[i] = e[i]

TablesGrow == Grows(labour, movement, expense, labour', movement', expense')

PurchasesOf(rows, sites, q) ==
  {i \in Booked(rows, sites, q) : rows[i].body.type = "purchase"}

\* PartSum of tables.
PartOf(l, m, e, part, sites, q) ==
  CASE part = "labour" -> SumFunctionOnSet(Column(l, "cost"), Booked(l, sites, q))
    [] part = "materials" -> SumFunctionOnSet(Column(m, "cost"), PurchasesOf(m, sites, q))
    [] part = "expenses" -> SumFunctionOnSet(Column(e, "amount"), Booked(e, sites, q))

LEMMA PartSumIs ==
  ASSUME NEW part, NEW sites, NEW q
  PROVE  /\ PartSum(part, sites, q) = PartOf(labour, movement, expense, part, sites, q)
         /\ PartSum(part, sites, q)' = PartOf(labour', movement', expense', part, sites, q)
  BY DEF PartSum, PartOf, PurchasesOf, LabourSum, PurchaseSum, ExpenseSum, OfType, Sum, Column

LEMMA PartsGrow ==
  ASSUME NEW l \in Seq(LabourRow), NEW m \in Seq(MovementRow), NEW e \in Seq(ExpenseRow),
         NEW l2 \in Seq(LabourRow), NEW m2 \in Seq(MovementRow), NEW e2 \in Seq(ExpenseRow),
         Grows(l, m, e, l2, m2, e2), NEW sites, NEW more, sites \subseteq more,
         NEW q, NEW part \in Parts
  PROVE  /\ PartOf(l, m, e, part, sites, q) \in Nat /\ PartOf(l2, m2, e2, part, more, q) \in Nat
         /\ PartOf(l, m, e, part, sites, q) <= PartOf(l2, m2, e2, part, more, q)
<1>1. /\ NatsOn(Column(l, "cost"), DOMAIN l) /\ NatsOn(Column(l2, "cost"), DOMAIN l2)
      /\ NatsOn(Column(m, "cost"), DOMAIN m) /\ NatsOn(Column(m2, "cost"), DOMAIN m2)
      /\ NatsOn(Column(e, "amount"), DOMAIN e) /\ NatsOn(Column(e2, "amount"), DOMAIN e2)
  BY RowsHaveFigures
<1>2. CASE part = "labour"
  <2> DEFINE is == Booked(l, sites, q)
             js == Booked(l2, more, q)
  <2>1. /\ PartOf(l, m, e, part, sites, q) = SumFunctionOnSet(Column(l, "cost"), is)
        /\ PartOf(l2, m2, e2, part, more, q) = SumFunctionOnSet(Column(l2, "cost"), js)
    BY <1>2 DEF PartOf
  <2>2. /\ is \in SUBSET DOMAIN l /\ js \in SUBSET DOMAIN l2 /\ is \subseteq js
        /\ \A i \in is : l[i]["cost"] = l2[i]["cost"]
    BY DEF Booked, Grows
  <2> HIDE DEF is, js
  <2>3. NatsOn(Column(l2, "cost"), js)
    BY <1>1, <2>2, NatsOnSubset
  <2> QED BY <1>1, <2>1, <2>2, <2>3, PartGrows
<1>3. CASE part = "materials"
  <2> DEFINE is == PurchasesOf(m, sites, q)
             js == PurchasesOf(m2, more, q)
  <2>1. /\ PartOf(l, m, e, part, sites, q) = SumFunctionOnSet(Column(m, "cost"), is)
        /\ PartOf(l2, m2, e2, part, more, q) = SumFunctionOnSet(Column(m2, "cost"), js)
    BY <1>3 DEF PartOf
  <2>2. /\ is \in SUBSET DOMAIN m /\ js \in SUBSET DOMAIN m2 /\ is \subseteq js
        /\ \A i \in is : m[i]["cost"] = m2[i]["cost"]
    BY DEF Booked, PurchasesOf, Grows
  <2> HIDE DEF is, js
  <2>3. NatsOn(Column(m2, "cost"), js)
    BY <1>1, <2>2, NatsOnSubset
  <2> QED BY <1>1, <2>1, <2>2, <2>3, PartGrows
<1>4. CASE part = "expenses"
  <2> DEFINE is == Booked(e, sites, q)
             js == Booked(e2, more, q)
  <2>1. /\ PartOf(l, m, e, part, sites, q) = SumFunctionOnSet(Column(e, "amount"), is)
        /\ PartOf(l2, m2, e2, part, more, q) = SumFunctionOnSet(Column(e2, "amount"), js)
    BY <1>4 DEF PartOf
  <2>2. /\ is \in SUBSET DOMAIN e /\ js \in SUBSET DOMAIN e2 /\ is \subseteq js
        /\ \A i \in is : e[i]["amount"] = e2[i]["amount"]
    BY DEF Booked, Grows
  <2> HIDE DEF is, js
  <2>3. NatsOn(Column(e2, "amount"), js)
    BY <1>1, <2>2, NatsOnSubset
  <2> QED BY <1>1, <2>1, <2>2, <2>3, PartGrows
<1> QED BY <1>2, <1>3, <1>4 DEF Parts

LEMMA PartsAreFinite == IsFiniteSet(Parts)
<1>1. Parts = (({} \cup {"labour"}) \cup {"materials"}) \cup {"expenses"}
  BY DEF Parts
<1>2. IsFiniteSet({} \cup {"labour"})
  BY FS_EmptySet, FS_AddElement
<1>3. IsFiniteSet(({} \cup {"labour"}) \cup {"materials"})
  BY <1>2, FS_AddElement
<1> QED BY <1>1, <1>3, FS_AddElement

LEMMA SpentGrows ==
  ASSUME RecordsTypeOK, RecordsTypeOK', TablesGrow, NEW sites, NEW more, sites \subseteq more,
         NEW q, NEW left \in SUBSET Parts
  PROVE  /\ Spent(left, sites, q) \in Nat /\ Spent(left, more, q)' \in Nat
         /\ Spent(left, sites, q) <= Spent(left, more, q)'
<1> DEFINE f == [part \in Parts |-> PartSum(part, sites, q)]
           g == [part \in Parts |-> PartSum(part, more, q)']
<1>1. IsFiniteSet(left)
  BY PartsAreFinite, FS_Subset
<1>2. \A part \in left : f[part] \in Nat /\ g[part] \in Nat /\ f[part] <= g[part]
  BY PartSumIs, PartsGrow DEF TablesGrow, RecordsTypeOK
<1>3. Spent(left, sites, q) = SumFunctionOnSet(f, left) /\ Spent(left, more, q)' = SumFunctionOnSet(g, left)
  BY DEF Spent
<1> HIDE DEF f, g
<1>4. NatsOn(f, left) /\ NatsOn(g, left)
  BY <1>1, <1>2 DEF NatsOn
<1>5. SumFunctionOnSet(f, left) <= SumFunctionOnSet(g, left)
  BY <1>2, <1>4, SumGrows
<1> QED BY <1>3, <1>4, <1>5, SumIsNat

LEMMA SpentOfMore ==
  ASSUME RecordsTypeOK, NEW sites, NEW more, sites \subseteq more, NEW q
  PROVE  /\ Spent(Parts, sites, q) \in Nat /\ Spent(Parts, more, q) \in Nat
         /\ Spent(Parts, sites, q) <= Spent(Parts, more, q)
<1> DEFINE f == [part \in Parts |-> PartSum(part, sites, q)]
           g == [part \in Parts |-> PartSum(part, more, q)]
<1>1. Grows(labour, movement, expense, labour, movement, expense)
  BY DEF Grows
<1>2. \A part \in Parts : f[part] \in Nat /\ g[part] \in Nat /\ f[part] <= g[part]
  BY <1>1, PartSumIs, PartsGrow DEF RecordsTypeOK
<1>3. Spent(Parts, sites, q) = SumFunctionOnSet(f, Parts) /\ Spent(Parts, more, q) = SumFunctionOnSet(g, Parts)
  BY DEF Spent
<1> HIDE DEF f, g
<1>4. NatsOn(f, Parts) /\ NatsOn(g, Parts)
  BY <1>2, PartsAreFinite DEF NatsOn
<1>5. SumFunctionOnSet(f, Parts) <= SumFunctionOnSet(g, Parts)
  BY <1>2, <1>4, SumGrows
<1> QED BY <1>3, <1>4, <1>5, SumIsNat

\* Nothing that a report has summed goes away, unless an expense is edited.
LEMMA RecordsGrow ==
  ASSUME RecordsInv, RecordsNext, \A i \in DOMAIN expense : expense'[i] = expense[i]
  PROVE  TablesGrow
<1>1. /\ labour \in Seq(LabourRow) /\ movement \in Seq(MovementRow) /\ expense \in Seq(ExpenseRow)
      /\ \A r \in RecordReq : rreq[r] \in RecordFrame
  BY DEF RecordsInv, RecordsTypeOK
<1>2. ASSUME UNCHANGED <<labour, movement, expense>> PROVE TablesGrow
  BY <1>2 DEF TablesGrow, Grows
<1>3. ASSUME NEW m \in Materials, CreateMaterial(m) PROVE TablesGrow
  BY <1>2, <1>3 DEF CreateMaterial
<1>4. ASSUME NEW r \in RecordReq, RecordArrives(r) PROVE TablesGrow
  BY <1>2, <1>4 DEF RecordArrives, BeginLabour, BeginMovement, BeginExpense, Begin,
                    BeginEditExpense, BeginStatus
<1>5. ASSUME NEW r \in RecordReq, RecordContinues(r) PROVE TablesGrow
  <2>1. CASE InsertLabour(r)
    <3>1. rreq[r].row \in LabourRow /\ labour' = Append(labour, rreq[r].row)
            /\ movement' = movement /\ expense' = expense
      BY <1>1, <2>1, RecordFrameHas DEF InsertLabour, RecordFrameKinds
    <3>2. \A i \in DOMAIN labour : i \in DOMAIN labour' /\ labour'[i] = labour[i]
      BY <1>1, <3>1
    <3> QED BY <3>1, <3>2 DEF TablesGrow, Grows
  <2>2. CASE InsertMovement(r)
    <3>1. rreq[r].row \in MovementRow /\ movement' = Append(movement, rreq[r].row)
            /\ labour' = labour /\ expense' = expense
      BY <1>1, <2>2, RecordFrameHas DEF InsertMovement, RecordFrameKinds
    <3>2. \A i \in DOMAIN movement : i \in DOMAIN movement' /\ movement'[i] = movement[i]
      BY <1>1, <3>1
    <3> QED BY <3>1, <3>2 DEF TablesGrow, Grows
  <2>3. CASE InsertExpense(r)
    <3>1. rreq[r].row \in ExpenseRow /\ expense' = Append(expense, rreq[r].row)
            /\ labour' = labour /\ movement' = movement
      BY <1>1, <2>3, RecordFrameHas DEF InsertExpense, RecordFrameKinds
    <3>2. \A i \in DOMAIN expense : i \in DOMAIN expense' /\ expense'[i] = expense[i]
      BY <1>1, <3>1
    <3> QED BY <3>1, <3>2 DEF TablesGrow, Grows
  <2>4. CASE SaveWriteExpense(r)
    <3>1. DOMAIN expense' = DOMAIN expense /\ labour' = labour /\ movement' = movement
      BY <2>4 DEF SaveWriteExpense
    <3> QED BY <3>1 DEF TablesGrow, Grows
  <2>5. CASE SaveWriteStatus(r)
    <3> DEFINE q == rreq[r]
               m == [movement[q.id] EXCEPT !.status = q.status]
    <3>1. q.id \in DOMAIN movement
      BY <1>1, <2>5, RecordFrameHas DEF SaveWriteStatus, RecordFrameKinds
    <3>2. movement[q.id] \in MovementRow
      BY <1>1, <3>1
    <3>3. m.site = movement[q.id].site /\ m.day = movement[q.id].day
            /\ m.body = movement[q.id].body /\ m.cost = movement[q.id].cost
      BY <3>2 DEF MovementRow
    <3>4. movement' = [movement EXCEPT ![q.id] = m] /\ labour' = labour /\ expense' = expense
      BY <2>5 DEF SaveWriteStatus
    <3> HIDE DEF m
    <3>5. \A i \in DOMAIN movement :
            i \in DOMAIN movement' /\ movement'[i] = IF i = q.id THEN m ELSE movement[i]
      BY <3>4
    <3> QED BY <3>3, <3>4, <3>5 DEF TablesGrow, Grows
  <2> QED
    BY <1>2, <1>5, <2>1, <2>2, <2>3, <2>4, <2>5
      DEF RecordContinues, FindMaterial, MayEditExpense, SaveReadExpense, SaveReadStatus
<1>6. ASSUME NEW r \in RecordReq, AbortRecord(r) PROVE TablesGrow
  BY <1>2, <1>6 DEF AbortRecord
<1> QED BY <1>3, <1>4, <1>5, <1>6 DEF RecordsNext

\* A project keeps its sites.
LEMMA SitesGrow ==
  ASSUME SitesInv, [SitesNext]_siteVars, NEW p, NEW q
  PROVE  SitesIn(p, q) \subseteq SitesIn(p, q)'
<1>1. \A s \in SiteIds : site[s] # "none" => site'[s] # "none"
  <2>1. site \in [SiteIds -> {"none", "active"} \cup Edits] /\ "none" \notin Edits
    BY SitesAssumption DEF SitesInv, SitesTypeOK
  <2>2. ASSUME NEW s \in SiteIds, CreateSite(s)
        PROVE  \A t \in SiteIds : site[t] # "none" => site'[t] # "none"
    BY <2>1, <2>2 DEF CreateSite
  <2>3. ASSUME NEW r \in ManageReq, SaveWriteSite(r)
        PROVE  \A t \in SiteIds : site[t] # "none" => site'[t] # "none"
    <3>1. mreq[r] \in ManageFrame /\ mreq[r].pc = "siteWrite"
      BY <2>3 DEF SaveWriteSite, SitesInv, SitesTypeOK
    <3>2. mreq[r].status \in {"active"} \cup Edits
      BY <3>1, ManageFrameKinds
    <3> QED BY <2>1, <2>3, <3>2 DEF SaveWriteSite
  <2>4. CASE UNCHANGED site
    BY <2>4
  <2> QED
    BY <2>2, <2>3, <2>4 DEF siteVars, SitesNext, CreateProject, ManageArrives, ManageContinues,
         AbortManage, BeginEngineer, BeginAssign, BeginRemove, BeginEditProject, BeginEditSite,
         InsertEngineer, FindActive, InsertAssignment, SaveReadRemove, SaveWriteRemove,
         SaveReadProject, SaveWriteProject, SaveReadSite
<1>2. SitesOf(p) \subseteq SitesOf(p)'
  BY <1>1 DEF SitesOf
<1> QED BY <1>2 DEF SitesIn

\* A report that is not told of an edit keeps its bounds.
LEMMA BetweenStays ==
  ASSUME RecordsTypeOK, RecordsTypeOK', TablesGrow, NEW f \in FigureFrame, Between(f),
         \A p, q : SitesIn(p, q) \subseteq SitesIn(p, q)'
  PROVE  Between(f)'
<1> SUFFICES ASSUME f.pc # "idle", ~f.edited
             PROVE  /\ f.pc = "sites" =>
                         f.atStart <= Spent(Parts, SitesIn(f.project, f.filter), f.filter)'
                    /\ f.pc = "sums" =>
                         /\ f.sites \subseteq SitesIn(f.project, f.filter)'
                         /\ f.atStart <= f.spent + Spent(f.left, f.sites, f.filter)'
                         /\ f.spent <= Spent(Parts \ f.left, f.sites, f.filter)'
                    /\ f.pc = "answered" => f.atStart <= f.spent /\ f.spent <= f.atEnd
  BY DEF Between
<1>1. CASE f.pc = "sites"
  <2> DEFINE S == SitesIn(f.project, f.filter)
  <2>1. f.atStart \in Nat /\ f.atStart <= Spent(Parts, S, f.filter)
    BY <1>1, FigureFrameKinds DEF Between
  <2>2. S \subseteq S'
    OBVIOUS
  <2>3. /\ Spent(Parts, S, f.filter) \in Nat /\ Spent(Parts, S, f.filter)' \in Nat
        /\ Spent(Parts, S, f.filter) <= Spent(Parts, S, f.filter)'
    BY <2>2, SpentGrows
  <2> QED BY <1>1, <2>1, <2>3
<1>2. CASE f.pc = "sums"
  <2>1. /\ f.atStart \in Nat /\ f.spent \in Nat /\ f.left \in SUBSET Parts
        /\ Parts \ f.left \in SUBSET Parts
        /\ f.sites \subseteq SitesIn(f.project, f.filter)
        /\ f.atStart <= f.spent + Spent(f.left, f.sites, f.filter)
        /\ f.spent <= Spent(Parts \ f.left, f.sites, f.filter)
    BY <1>2, FigureFrameKinds DEF Between
  <2>2. f.sites \subseteq SitesIn(f.project, f.filter)'
    BY <2>1
  <2>3. /\ Spent(f.left, f.sites, f.filter) \in Nat /\ Spent(f.left, f.sites, f.filter)' \in Nat
        /\ Spent(f.left, f.sites, f.filter) <= Spent(f.left, f.sites, f.filter)'
    BY <2>1, SpentGrows
  <2>4. /\ Spent(Parts \ f.left, f.sites, f.filter) \in Nat
        /\ Spent(Parts \ f.left, f.sites, f.filter)' \in Nat
        /\ Spent(Parts \ f.left, f.sites, f.filter) <= Spent(Parts \ f.left, f.sites, f.filter)'
    BY <2>1, SpentGrows
  <2> QED BY <1>2, <2>1, <2>2, <2>3, <2>4
<1>3. CASE f.pc = "answered"
  BY <1>3 DEF Between
<1> QED BY <1>1, <1>2, <1>3

\* Reports read: the tables are what they were.
LEMMA SameTables ==
  ASSUME UNCHANGED <<siteVars, recordVars>>
  PROVE  TablesGrow /\ \A p, q : SitesIn(p, q) \subseteq SitesIn(p, q)'
<1>1. UNCHANGED <<site, labour, movement, expense>>
  BY DEF siteVars, recordVars
<1>2. TablesGrow
  BY <1>1 DEF TablesGrow, Grows
<1>3. \A p, q : SitesIn(p, q) \subseteq SitesIn(p, q)'
  BY <1>1 DEF SitesIn, SitesOf
<1> QED BY <1>2, <1>3

\* The next frame of one report, given in the tables before the step.
LEMMA FigureStep ==
  ASSUME FiguresInv, SiteWorkInv', NEW r \in FigureReq, NEW f \in FigureFrame, Between(f),
         FigureGoto(r, f)
  PROVE  FiguresInv'
<1>1. freq \in [FigureReq -> FigureFrame] /\ freq' = [freq EXCEPT ![r] = f]
        /\ UNCHANGED <<siteVars, recordVars>>
  BY DEF FiguresInv, FiguresTypeOK, FigureGoto
<1>2. FiguresTypeOK'
  BY <1>1 DEF FiguresTypeOK
<1>3. ASSUME NEW s \in FigureReq PROVE Between(freq[s])'
  <2>1. PICK g : g = freq'[s]
    OBVIOUS
  <2>2. g \in FigureFrame /\ Between(g)
    BY <1>1, <2>1 DEF FiguresInv
  <2>3. Between(g)'
    BY <1>1, <2>2, SameTables, BetweenStays DEF FiguresInv, SiteWorkInv, RecordsInv
  <2> QED BY <2>1, <2>3
<1> QED BY <1>2, <1>3 DEF FiguresInv

LEMMA SpentIsNat ==
  ASSUME RecordsTypeOK, NEW sites, NEW q, NEW left \in SUBSET Parts
  PROVE  Spent(left, sites, q) \in Nat
<1> DEFINE f == [k \in Parts |-> PartSum(k, sites, q)]
<1>1. \A k \in Parts : f[k] \in Nat
  BY PartsAreNats DEF Parts, PartSum
<1>2. Spent(left, sites, q) = SumFunctionOnSet(f, left)
  BY DEF Spent
<1> HIDE DEF f
<1>3. NatsOn(f, Parts)
  BY <1>1, PartsAreFinite DEF NatsOn
<1> QED BY <1>2, <1>3, NatsOnSubset, SumIsNat

LEMMA SpentTakesOut ==
  ASSUME RecordsTypeOK, NEW sites, NEW q, NEW left \in SUBSET Parts, NEW part \in left,
         NEW rest, rest = left \ {part}
  PROVE  Spent(left, sites, q) = PartSum(part, sites, q) + Spent(rest, sites, q)
<1> DEFINE f == [k \in Parts |-> PartSum(k, sites, q)]
<1>1. \A k \in Parts : f[k] \in Nat
  BY PartsAreNats DEF Parts, PartSum
<1>2. f[part] = PartSum(part, sites, q) /\ Spent(left, sites, q) = SumFunctionOnSet(f, left)
        /\ Spent(rest, sites, q) = SumFunctionOnSet(f, rest)
  BY DEF Spent
<1> HIDE DEF f
<1>3. IntsOn(f, left)
  <2>1. NatsOn(f, Parts)
    BY <1>1, PartsAreFinite DEF NatsOn
  <2> QED BY <2>1, NatsOnSubset, NatsAreInts
<1> QED BY <1>2, <1>3, SumTakesOut

\* The whole of a cost, and nothing of it.
LEMMA SpentIsCost ==
  ASSUME RecordsTypeOK, NEW p, NEW q
  PROVE  /\ ProjectCost(p, q).totalSpent = Spent(Parts, SitesIn(p, q), q)
         /\ ProjectCost(p, q).totalSpent \in Nat
         /\ \A sites : Spent({}, sites, q) = 0
<1>1. ProjectCost(p, q).totalSpent = Spent(Parts, SitesIn(p, q), q)
  BY DEF ProjectCost, Spent, SumFunction
<1>2. \A sites : Spent({}, sites, q) = 0
  BY SumOfNothing DEF Spent
<1> QED BY <1>1, <1>2, TotalSpent

LEMMA BeginProjectCostStep ==
  ASSUME FiguresInv, SiteWorkInv', NEW r \in FigureReq, NEW u, NEW p \in Projects,
         NEW q \in Queries, BeginProjectCost(r, u, p, q)
  PROVE  FiguresInv'
<1> DEFINE n == ProjectCost(p, q).totalSpent
           f == [pc |-> "sites", project |-> p, filter |-> q, edited |-> FALSE, atStart |-> n]
<1>1. RecordsTypeOK
  BY DEF FiguresInv, SiteWorkInv, RecordsInv
<1>2. n \in Nat /\ n = Spent(Parts, SitesIn(p, q), q) /\ q \in Filter
  BY <1>1, SpentIsCost, FiguresAssumption DEF Filter
<1>3. FigureGoto(r, f)
  BY DEF BeginProjectCost
<1> HIDE DEF n
<1>4. f \in FigureFrame
  BY <1>2, FigureFrames
<1>5. Between(f)
  BY <1>2 DEF Between
<1> QED BY <1>3, <1>4, <1>5, FigureStep

LEMMA FindSitesStep ==
  ASSUME FiguresInv, SiteWorkInv', NEW r \in FigureReq, FindSites(r)
  PROVE  FiguresInv'
<1> DEFINE g == freq[r]
           f == [pc |-> "sums", project |-> g.project, filter |-> g.filter,
                 atStart |-> g.atStart, edited |-> g.edited,
                 sites |-> SitesIn(g.project, g.filter), left |-> Parts, spent |-> 0]
<1>1. RecordsTypeOK /\ Between(g) /\ g.pc = "sites"
        /\ g \in [pc : {"sites"}, project : Projects, filter : Filter, atStart : Nat,
                  edited : BOOLEAN]
  BY FigureFrameKinds DEF FiguresInv, FiguresTypeOK, SiteWorkInv, RecordsInv, FindSites
<1>2. FigureGoto(r, f)
  BY DEF FindSites
<1>3. SitesIn(g.project, g.filter) \in SUBSET SiteIds
  BY <1>1 DEF SitesIn, SitesOf, Filter
<1>4. f \in FigureFrame
  BY <1>1, <1>3, FigureFrames
<1>5. /\ Spent(Parts \ Parts, SitesIn(g.project, g.filter), g.filter) = 0
      /\ Spent(Parts, SitesIn(g.project, g.filter), g.filter) \in Nat
  <2>1. Parts \ Parts = {}
    OBVIOUS
  <2> QED BY <1>1, <2>1, SpentIsCost
<1>6. Between(f)
  BY <1>1, <1>5 DEF Between
<1> QED BY <1>2, <1>4, <1>6, FigureStep

SumsFrame ==
  [pc : {"sums"}, project : Projects, filter : Filter, atStart : Nat,
   edited : BOOLEAN, sites : SUBSET SiteIds, left : SUBSET Parts, spent : Nat]

\* A report adds one of the sums that are left.
LEMMA BetweenReads ==
  ASSUME RecordsTypeOK, NEW f \in SumsFrame, Between(f), NEW part \in f.left
  PROVE  \A g : g = [f EXCEPT !.left = @ \ {part},
                              !.spent = @ + PartSum(part, f.sites, f.filter)]
                 => g \in SumsFrame /\ Between(g)
<1>1. f.left \in SUBSET Parts /\ f.spent \in Nat /\ f.atStart \in Nat /\ f.pc = "sums"
  BY DEF SumsFrame
<1>2. PICK left, sites, q : left = f.left /\ sites = f.sites /\ q = f.filter
  OBVIOUS
<1>3. PICK rest, done, more, n :
        /\ rest = left \ {part} /\ done = Parts \ left /\ more = Parts \ rest
        /\ n = PartSum(part, sites, q)
  OBVIOUS
<1>4. /\ n \in Nat /\ Spent(left, sites, q) \in Nat /\ Spent(rest, sites, q) \in Nat
      /\ Spent(done, sites, q) \in Nat /\ Spent(more, sites, q) \in Nat
      /\ Spent(left, sites, q) = n + Spent(rest, sites, q)
      /\ Spent(more, sites, q) = n + Spent(done, sites, q)
  <2>1. /\ left \in SUBSET Parts /\ part \in left /\ rest = left \ {part}
        /\ more \in SUBSET Parts /\ part \in more /\ done = more \ {part}
        /\ rest \in SUBSET Parts /\ done \in SUBSET Parts
    BY <1>1, <1>2, <1>3
  <2>2. n \in Nat
    BY <1>3, <2>1, PartsAreNats DEF Parts, PartSum
  <2>3. /\ Spent(left, sites, q) \in Nat /\ Spent(rest, sites, q) \in Nat
        /\ Spent(done, sites, q) \in Nat /\ Spent(more, sites, q) \in Nat
    BY <2>1, SpentIsNat
  <2>4. Spent(left, sites, q) = PartSum(part, sites, q) + Spent(rest, sites, q)
    BY <2>1, SpentTakesOut
  <2>5. Spent(more, sites, q) = PartSum(part, sites, q) + Spent(done, sites, q)
    BY <2>1, SpentTakesOut
  <2> QED BY <1>3, <2>2, <2>3, <2>4, <2>5
<1> SUFFICES ASSUME NEW g, g = [f EXCEPT !.left = @ \ {part},
                                       !.spent = @ + PartSum(part, f.sites, f.filter)]
             PROVE  g \in SumsFrame /\ Between(g)
  OBVIOUS
<1>5. /\ g.pc = "sums" /\ g.project = f.project /\ g.filter = q /\ g.sites = sites
      /\ g.atStart = f.atStart /\ g.edited = f.edited /\ g.left = rest
      /\ g.spent = f.spent + n
  <2>1. g = [f EXCEPT !.left = rest, !.spent = f.spent + n]
    BY <1>2, <1>3
  <2> QED BY <1>1, <1>2, <2>1 DEF SumsFrame
<1>6. f.spent + n \in Nat /\ rest \in SUBSET Parts
  BY <1>1, <1>2, <1>3, <1>4
<1>7. g \in SumsFrame
  BY <1>2, <1>3, <1>6 DEF SumsFrame
<1>8. ASSUME ~g.edited
      PROVE  /\ sites \subseteq SitesIn(f.project, q)
             /\ f.atStart <= g.spent + Spent(rest, sites, q) /\ g.spent <= Spent(more, sites, q)
  <2>1. /\ sites \subseteq SitesIn(f.project, q)
        /\ f.atStart <= f.spent + Spent(left, sites, q) /\ f.spent <= Spent(done, sites, q)
    BY <1>1, <1>2, <1>3, <1>5, <1>8 DEF Between
  <2> QED BY <1>1, <1>4, <1>5, <2>1
<1>9. Between(g)
  <2>1. Parts \ g.left = more /\ g.pc = "sums"
    BY <1>3, <1>5
  <2> QED BY <1>5, <1>8, <2>1 DEF Between
<1> QED BY <1>7, <1>9

LEMMA ReadSumStep ==
  ASSUME FiguresInv, SiteWorkInv', NEW r \in FigureReq, NEW part \in Parts, ReadSum(r, part)
  PROVE  FiguresInv'
<1>1. PICK f, g : f = freq[r] /\ g = [f EXCEPT !.left = @ \ {part},
                                  !.spent = @ + PartSum(part, f.sites, f.filter)]
  OBVIOUS
<1>2. RecordsTypeOK /\ Between(f) /\ f \in SumsFrame /\ part \in f.left
  BY <1>1, FigureFrameKinds DEF FiguresInv, FiguresTypeOK, SiteWorkInv, RecordsInv, ReadSum, SumsFrame
<1>3. FigureGoto(r, g)
  BY <1>1 DEF ReadSum
<1>4. g \in SumsFrame /\ Between(g)
  BY <1>1, <1>2, BetweenReads
<1>5. g \in FigureFrame
  BY <1>4, FigureFrames DEF SumsFrame
<1> QED BY <1>3, <1>4, <1>5, FigureStep

LEMMA AnswerStep ==
  ASSUME FiguresInv, SiteWorkInv', NEW r \in FigureReq, Answer(r)
  PROVE  FiguresInv'
<1> DEFINE g == freq[r]
           n == ProjectCost(g.project, g.filter).totalSpent
           f == [pc |-> "answered", atStart |-> g.atStart, edited |-> g.edited,
                 spent |-> g.spent, atEnd |-> n]
<1>1. RecordsTypeOK /\ Between(g) /\ g.pc = "sums" /\ g.left = {}
        /\ g \in [pc : {"sums"}, project : Projects, filter : Filter, atStart : Nat,
                  edited : BOOLEAN, sites : SUBSET SiteIds, left : SUBSET Parts, spent : Nat]
  BY FigureFrameKinds DEF FiguresInv, FiguresTypeOK, SiteWorkInv, RecordsInv, Answer
<1>2. FigureGoto(r, f)
  BY DEF Answer
<1>3. n \in Nat /\ n = Spent(Parts, SitesIn(g.project, g.filter), g.filter)
        /\ Spent({}, g.sites, g.filter) = 0
  BY <1>1, SpentIsCost
<1>4. ASSUME g.sites \subseteq SitesIn(g.project, g.filter)
      PROVE  Spent(Parts, g.sites, g.filter) <= n /\ Spent(Parts, g.sites, g.filter) \in Nat
  BY <1>1, <1>3, <1>4, SpentOfMore
<1> HIDE DEF n
<1>5. f \in FigureFrame
  BY <1>1, <1>3, FigureFrames
<1>6. ASSUME ~g.edited PROVE g.atStart <= g.spent /\ g.spent <= n
  <2>1. /\ g.sites \subseteq SitesIn(g.project, g.filter)
        /\ g.atStart <= g.spent + Spent({}, g.sites, g.filter)
        /\ g.spent <= Spent(Parts \ {}, g.sites, g.filter)
    BY <1>1, <1>6 DEF Between
  <2>2. Parts \ {} = Parts /\ g.spent \in Nat /\ g.atStart \in Nat
    BY <1>1
  <2> QED BY <1>3, <1>4, <2>1, <2>2
<1>7. Between(f)
  BY <1>6 DEF Between
<1> QED BY <1>2, <1>5, <1>7, FigureStep

LEMMA FiguresInvInit == FiguresInit => FiguresInv
<1> SUFFICES ASSUME FiguresInit PROVE FiguresInv
  OBVIOUS
<1>1. SiteWorkInv
  BY SitesInvInit, RecordFrames
    DEF FiguresInit, SiteWorkInit, SiteWorkInv, RecordsInit, RecordsInv, RecordsTypeOK, BookingPcs
<1>2. freq = [r \in FigureReq |-> FigureIdle]
  BY DEF FiguresInit
<1>3. FiguresTypeOK /\ \A r \in FigureReq : Between(freq[r])
  BY <1>2, FigureFrames DEF FiguresTypeOK, Between
<1> QED BY <1>1, <1>3 DEF FiguresInv

\* The managers work: reports under way stay as they are.
LEMMA SitesFigureStep ==
  ASSUME FiguresInv, SiteWorkInv', [SitesNext]_siteVars, UNCHANGED <<recordVars, freq>>
  PROVE  FiguresInv'
<1>1. FiguresTypeOK'
  BY DEF FiguresInv, FiguresTypeOK
<1>2. UNCHANGED <<labour, movement, expense>>
  BY DEF recordVars
<1>3. TablesGrow
  BY <1>2 DEF TablesGrow, Grows
<1>4. \A p, q : SitesIn(p, q) \subseteq SitesIn(p, q)'
  BY SitesGrow DEF FiguresInv, SiteWorkInv
<1>5. RecordsTypeOK /\ RecordsTypeOK'
  BY DEF FiguresInv, SiteWorkInv, RecordsInv
<1>6. ASSUME NEW s \in FigureReq PROVE Between(freq[s])'
  <2>1. PICK g : g = freq'[s]
    OBVIOUS
  <2>2. g \in FigureFrame /\ Between(g)
    BY <2>1 DEF FiguresInv, FiguresTypeOK
  <2>3. Between(g)'
    BY <1>3, <1>4, <1>5, <2>2, BetweenStays
  <2> QED BY <2>1, <2>3
<1> QED BY <1>1, <1>6 DEF FiguresInv

\* The next frame of a report while records come in.
Marked(f) ==
  IF f.pc \in {"sites", "sums"}
    THEN [f EXCEPT !.edited = @ \/ SubSeq(expense', 1, Len(expense)) # expense]
    ELSE f

LEMMA MarkedIs ==
  ASSUME NEW f \in FigureFrame
  PROVE  /\ Marked(f) \in FigureFrame
         /\ Marked(f).edited \/ Marked(f) = f
         /\ f.pc \in {"sites", "sums"} /\ ~Marked(f).edited =>
              SubSeq(expense', 1, Len(expense)) = expense
         /\ Marked(f).pc = f.pc
<1>1. CASE f.pc = "sites"
  <2>1. f \in [pc : {"sites"}, project : Projects, filter : Filter, atStart : Nat,
               edited : BOOLEAN]
    BY <1>1, FigureFrameKinds
  <2>2. PICK e \in BOOLEAN : e = (f.edited \/ SubSeq(expense', 1, Len(expense)) # expense)
    BY <2>1
  <2>3. Marked(f) = [f EXCEPT !.edited = e]
    BY <1>1, <2>2 DEF Marked
  <2>4. /\ [f EXCEPT !.edited = e] \in [pc : {"sites"}, project : Projects, filter : Filter,
                                        atStart : Nat, edited : BOOLEAN]
        /\ [f EXCEPT !.edited = e].edited = e /\ [f EXCEPT !.edited = e].pc = f.pc
        /\ e \/ [f EXCEPT !.edited = e] = f \/ f.edited
    BY <2>1
  <2> QED BY <1>1, <2>2, <2>3, <2>4, FigureFrames
<1>2. CASE f.pc = "sums"
  <2>1. f \in SumsFrame
    BY <1>2, FigureFrameKinds DEF SumsFrame
  <2>2. PICK e \in BOOLEAN : e = (f.edited \/ SubSeq(expense', 1, Len(expense)) # expense)
    BY <2>1 DEF SumsFrame
  <2>3. Marked(f) = [f EXCEPT !.edited = e]
    BY <1>2, <2>2 DEF Marked
  <2>4. /\ [f EXCEPT !.edited = e] \in SumsFrame
        /\ [f EXCEPT !.edited = e].edited = e /\ [f EXCEPT !.edited = e].pc = f.pc
        /\ e \/ [f EXCEPT !.edited = e] = f \/ f.edited
    BY <2>1 DEF SumsFrame
  <2> QED BY <1>2, <2>2, <2>3, <2>4, FigureFrames DEF SumsFrame
<1>3. CASE f.pc \notin {"sites", "sums"}
  BY <1>3 DEF Marked
<1> QED BY <1>1, <1>2, <1>3

\* Records come in: rows are added, or the reports under way learn of the edit.
LEMMA RecordsFigureStep ==
  ASSUME FiguresInv, SiteWorkInv', RecordsNext, Witnessed, UNCHANGED siteVars
  PROVE  FiguresInv'
<1>1. /\ freq \in [FigureReq -> FigureFrame]
      /\ freq' = [r \in FigureReq |-> Marked(freq[r])]
  BY DEF FiguresInv, FiguresTypeOK, Witnessed, Marked
<1>2. FiguresTypeOK'
  BY <1>1, MarkedIs DEF FiguresTypeOK
<1>3. /\ RecordsInv /\ RecordsTypeOK /\ RecordsTypeOK'
      /\ expense \in Seq(ExpenseRow) /\ expense' \in Seq(ExpenseRow)
  BY DEF FiguresInv, SiteWorkInv, RecordsInv, RecordsTypeOK
<1>4. \A p, q : SitesIn(p, q) \subseteq SitesIn(p, q)'
  BY DEF siteVars, SitesIn, SitesOf
<1>5. ASSUME NEW s \in FigureReq PROVE Between(freq[s])'
  <2>1. PICK f, g : f = freq[s] /\ g = freq'[s]
    OBVIOUS
  <2>2. f \in FigureFrame /\ Between(f) /\ g = Marked(f)
    BY <1>1, <2>1 DEF FiguresInv
  <2>3. g \in FigureFrame /\ g.pc = f.pc /\ (g.edited \/ g = f)
    BY <2>2, MarkedIs
  <2>4. CASE g.edited
    BY <2>1, <2>4 DEF Between
  <2>5. CASE ~g.edited /\ f.pc \in {"sites", "sums"}
    <3>1. SubSeq(expense', 1, Len(expense)) = expense
      BY <2>2, <2>5, MarkedIs
    <3>2. Len(expense) \in Nat /\ Len(expense') \in Nat
      BY <1>3
    <3>3. \A i \in DOMAIN expense : expense'[i] = expense[i]
      <4> TAKE i \in DOMAIN expense
      <4>1. i \in 1 .. Len(expense)
        BY <1>3
      <4>2. SubSeq(expense', 1, Len(expense))[i] = expense'[1 + i - 1]
        BY <3>2, <4>1, <1>3
      <4> QED BY <3>1, <4>1, <4>2
    <3>4. TablesGrow
      BY <1>3, <3>3, RecordsGrow
    <3>5. Between(f)'
      BY <1>3, <1>4, <2>2, <3>4, BetweenStays
    <3> QED BY <2>1, <2>3, <2>5, <3>5
  <2>6. CASE ~g.edited /\ f.pc \notin {"sites", "sums"}
    <3>1. g = f /\ f.pc \in {"idle", "answered"}
      BY <2>2, <2>3, <2>6, FigureFrameKinds
    <3> QED BY <2>1, <2>2, <3>1 DEF Between
  <2> QED BY <2>4, <2>5, <2>6
<1> QED BY <1>2, <1>5 DEF FiguresInv

LEMMA FiguresInvStep == FiguresInv /\ [FiguresNext]_figureVars => FiguresInv'
<1> SUFFICES ASSUME FiguresInv, [FiguresNext]_figureVars PROVE FiguresInv'
  OBVIOUS
<1>1. SiteWorkInv'
  <2>1. CASE SitesNext /\ UNCHANGED <<recordVars, freq>>
    BY <2>1, SiteWorkInvStep DEF FiguresInv, SiteWorkNext
  <2>2. CASE RecordsNext /\ UNCHANGED siteVars
    BY <2>2, SiteWorkInvStep DEF FiguresInv, SiteWorkNext
  <2>3. CASE UNCHANGED <<siteVars, recordVars>>
    BY <2>3, SiteWorkInvStep DEF FiguresInv
  <2> QED
    BY <2>1, <2>2, <2>3 DEF FiguresNext, figureVars, BeginProjectCost, FindSites, ReadSum, Answer,
                            FigureGoto
<1>2. CASE SitesNext /\ UNCHANGED <<recordVars, freq>>
  BY <1>1, <1>2, SitesFigureStep
<1>3. CASE RecordsNext /\ Witnessed /\ UNCHANGED siteVars
  BY <1>1, <1>3, RecordsFigureStep
<1>4. ASSUME NEW r \in FigureReq, NEW u \in Contractors \cup {Admin}, NEW p \in Projects,
             NEW q \in Queries, BeginProjectCost(r, u, p, q)
      PROVE  FiguresInv'
  BY <1>1, <1>4, BeginProjectCostStep
<1>5. ASSUME NEW r \in FigureReq, FindSites(r) PROVE FiguresInv'
  BY <1>1, <1>5, FindSitesStep
<1>6. ASSUME NEW r \in FigureReq, Answer(r) PROVE FiguresInv'
  BY <1>1, <1>6, AnswerStep
<1>7. ASSUME NEW r \in FigureReq, NEW part \in Parts, ReadSum(r, part) PROVE FiguresInv'
  BY <1>1, <1>7, ReadSumStep
<1>8. CASE UNCHANGED figureVars
  BY <1>1, <1>8, SitesFigureStep DEF figureVars
<1> QED BY <1>2, <1>3, <1>4, <1>5, <1>6, <1>7, <1>8 DEF FiguresNext

LEMMA FiguresInvAlways == FiguresSpec => []FiguresInv
  BY FiguresInvInit, FiguresInvStep, PTL DEF FiguresSpec

\* Tables, handlers and reports under way are of their types.
THEOREM FiguresTypeCorrect == FiguresSpec => []ReportsTypeOK
<1>1. FiguresInv => ReportsTypeOK
  BY DEF FiguresInv, SiteWorkInv, SitesInv, RecordsInv, ReportsTypeOK
<1> QED BY <1>1, FiguresInvAlways, PTL

\* The reports tell one story in every state.
THEOREM FiguresAgreeAlways == FiguresSpec => []ReportsAgree
<1>1. FiguresInv => ReportsAgree
  BY FiguresAgree DEF FiguresInv, SiteWorkInv, RecordsInv
<1> QED BY <1>1, FiguresInvAlways, PTL

\* A report that nobody's edit disturbs answers a total between its costs at the
\* start and at the end.
THEOREM SpentStaysBetween == FiguresSpec => []SpentIsBetween
<1>1. FiguresInv => SpentIsBetween
  BY DEF FiguresInv, Between, SpentIsBetween
<1> QED BY <1>1, FiguresInvAlways, PTL
=============================================================================
