-------------------------------- MODULE Sites --------------------------------
(***************************************************************************)
(* Projects, their sites and the engineers assigned to them:               *)
(* ProjectsService, ProjectSitesService and SiteEngineersService.          *)
(*                                                                         *)
(* A site belongs to a project for good and a project to its contractor.   *)
(* An engineer gets access to a site by a row of site_engineer_assignments *)
(* with isActive; a row is never deleted, never activated again, and the   *)
(* table has no unique key.  The password an engineer is given is left to  *)
(* Sessions.                                                               *)
(*                                                                         *)
(* update of a project and of a site loads the entity with its children    *)
(* (sites, engineerAssignments).  The save of an entity with a loaded      *)
(* one-to-many relation compares the children too, and clears the parent   *)
(* column of each one that the table has and the entity has not.  projectId*)
(* and siteId are NOT NULL: PostgreSQL refuses that, and the whole save.   *)
(***************************************************************************)
EXTENDS Server, Naturals, Sequences, FiniteSets

CONSTANTS
  Projects, SiteIds, Engineers, Contractors,
  ProjectOf,       \* the project of a site
  OwnerOf,         \* the contractor of a project
  Edits,           \* statuses that an edit may store
  ManageReq,       \* handlers of these services that can be in flight together
  MaxAssignments   \* bound: assignments ever inserted

ASSUME SitesAssumption ==
  /\ ProjectOf \in [SiteIds -> Projects]
  /\ OwnerOf \in [Projects -> Contractors]
  /\ Edits \subseteq {"active", "completed"}
  /\ MaxAssignments \in Nat

VARIABLES
  project,     \* status of each project; "none": no row yet
  site,        \* status of each site; "none": no row yet
  engineers,   \* users with the role site_engineer
  assignment,  \* site_engineer_assignments; an id is a position
  granted,     \* history: assignments answered and not removed since
  mreq         \* what each handler holds

siteVars == <<project, site, engineers, assignment, granted, mreq>>

AssignmentRow == [site : SiteIds, engineer : Engineers, active : BOOLEAN]

ManageIdle == [pc |-> "idle"]

\* children: the sites of a project, or the assignments of a site, that were
\* loaded with it.
ManageFrame ==
  [pc : {"idle"}]
    \cup [pc : {"insertEngineer"}, engineer : Engineers]
    \cup [pc : {"findActive", "insert"}, site : SiteIds, engineer : Engineers]
    \cup [pc : {"remove", "removeWrite"}, id : Nat \ {0}]
    \cup [pc : {"project", "projectWrite"}, project : Projects,
          status : {"draft"} \cup Edits, children : SUBSET SiteIds]
    \cup [pc : {"site", "siteWrite"}, site : SiteIds,
          status : {"active"} \cup Edits, children : SUBSET Nat]

SitesTypeOK ==
  /\ project \in [Projects -> {"none", "draft"} \cup Edits]
  /\ site \in [SiteIds -> {"none", "active"} \cup Edits]
  /\ engineers \in SUBSET Engineers
  /\ assignment \in Seq(AssignmentRow)
  /\ granted \in SUBSET (SiteIds \X Engineers)
  /\ mreq \in [ManageReq -> ManageFrame]
  /\ \A r \in ManageReq :
       mreq[r].pc \in {"remove", "removeWrite"} => mreq[r].id \in DOMAIN assignment

SitesInit ==
  /\ project = [p \in Projects |-> "none"]
  /\ site = [s \in SiteIds |-> "none"]
  /\ engineers = {}
  /\ assignment = <<>>
  /\ granted = {}
  /\ mreq = [r \in ManageReq |-> ManageIdle]

-----------------------------------------------------------------------------
\* verifySiteAccess of an engineer, and the sites that findMySites returns.
Assigned(e, s) ==
  \E i \in DOMAIN assignment :
    assignment[i] = [site |-> s, engineer |-> e, active |-> TRUE]

\* verifyProjectOwnership, verifyContractorSiteAccess.
Owns(c, s) == site[s] # "none" /\ OwnerOf[ProjectOf[s]] = c

ManageGoto(r, frame) == mreq' = [mreq EXCEPT ![r] = frame]

\* ProjectsService.create and ProjectSitesService.create: what they look up
\* before the insert never changes.
CreateProject(p) ==
  /\ project[p] = "none"
  /\ project' = [project EXCEPT ![p] = "draft"]
  /\ UNCHANGED <<site, engineers, assignment, granted, mreq>>

CreateSite(s) ==
  /\ site[s] = "none"
  /\ project[ProjectOf[s]] # "none"
  /\ site' = [site EXCEPT ![s] = "active"]
  /\ UNCHANGED <<project, engineers, assignment, granted, mreq>>

\* createSiteEngineer: the e-mail is looked up, the password hashed, the user
\* inserted; the unique key refuses the second of two.
BeginEngineer(r, e) ==
  /\ mreq[r].pc = "idle"
  /\ e \notin engineers
  /\ ManageGoto(r, [pc |-> "insertEngineer", engineer |-> e])
  /\ UNCHANGED <<project, site, engineers, assignment, granted>>

InsertEngineer(r) ==
  /\ mreq[r].pc = "insertEngineer"
  /\ engineers' = engineers \cup {mreq[r].engineer}
  /\ ManageGoto(r, ManageIdle)
  /\ UNCHANGED <<project, site, assignment, granted>>

-----------------------------------------------------------------------------
\* assignEngineer: site and engineer, the search for an active assignment, the
\* insert, and a notification whose errors are swallowed.
BeginAssign(r, s, e) ==
  /\ mreq[r].pc = "idle"
  /\ site[s] # "none" /\ e \in engineers
  /\ ManageGoto(r, [pc |-> "findActive", site |-> s, engineer |-> e])
  /\ UNCHANGED <<project, site, engineers, assignment, granted>>

FindActive(r) ==
  /\ mreq[r].pc = "findActive"
  /\ ManageGoto(r, IF Assigned(mreq[r].engineer, mreq[r].site) THEN ManageIdle
                   ELSE [mreq[r] EXCEPT !.pc = "insert"])
  /\ UNCHANGED <<project, site, engineers, assignment, granted>>

InsertAssignment(r) ==
  /\ mreq[r].pc = "insert"
  /\ Len(assignment) < MaxAssignments
  /\ LET q == mreq[r] IN
     /\ assignment' = Append(assignment, [site |-> q.site, engineer |-> q.engineer,
                                          active |-> TRUE])
     /\ granted' = granted \cup {<<q.site, q.engineer>>}
  /\ ManageGoto(r, ManageIdle)
  /\ UNCHANGED <<project, site, engineers>>

\* removeEngineer: the assignment with the id, isActive = false, save; nothing
\* is written to a row that is inactive by then.
BeginRemove(r, i) ==
  /\ mreq[r].pc = "idle"
  /\ ManageGoto(r, [pc |-> "remove", id |-> i])
  /\ UNCHANGED <<project, site, engineers, assignment, granted>>

SaveReadRemove(r) ==
  /\ mreq[r].pc = "remove"
  /\ ManageGoto(r, IF assignment[mreq[r].id].active
                     THEN [mreq[r] EXCEPT !.pc = "removeWrite"] ELSE ManageIdle)
  /\ UNCHANGED <<project, site, engineers, assignment, granted>>

SaveWriteRemove(r) ==
  /\ mreq[r].pc = "removeWrite"
  /\ LET i == mreq[r].id IN
     /\ assignment' = [assignment EXCEPT ![i].active = FALSE]
     /\ granted' = granted \ {<<assignment[i].site, assignment[i].engineer>>}
  /\ ManageGoto(r, ManageIdle)
  /\ UNCHANGED <<project, site, engineers>>

-----------------------------------------------------------------------------
SitesOf(p) == {s \in SiteIds : site[s] # "none" /\ ProjectOf[s] = p}
AssignmentsOf(s) == {i \in DOMAIN assignment : assignment[i].site = s}

\* ProjectsService.update: the row with its sites, the status of the body or
\* the loaded one; the save is refused when a site was added meanwhile.
BeginEditProject(r, p, status) ==
  /\ mreq[r].pc = "idle"
  /\ project[p] # "none"
  /\ status \in Edits \cup {project[p]}
  /\ ManageGoto(r, [pc |-> "project", project |-> p, status |-> status,
                    children |-> SitesOf(p)])
  /\ UNCHANGED <<project, site, engineers, assignment, granted>>

SaveReadProject(r) ==
  /\ mreq[r].pc = "project"
  /\ LET q == mreq[r] IN
     ManageGoto(r, IF SitesOf(q.project) \subseteq q.children
                       /\ project[q.project] # q.status
                     THEN [q EXCEPT !.pc = "projectWrite"] ELSE ManageIdle)
  /\ UNCHANGED <<project, site, engineers, assignment, granted>>

SaveWriteProject(r) ==
  /\ mreq[r].pc = "projectWrite"
  /\ project' = [project EXCEPT ![mreq[r].project] = mreq[r].status]
  /\ ManageGoto(r, ManageIdle)
  /\ UNCHANGED <<site, engineers, assignment, granted>>

\* ProjectSitesService.update, with its assignments.
BeginEditSite(r, s, status) ==
  /\ mreq[r].pc = "idle"
  /\ site[s] # "none"
  /\ status \in Edits \cup {site[s]}
  /\ ManageGoto(r, [pc |-> "site", site |-> s, status |-> status,
                    children |-> AssignmentsOf(s)])
  /\ UNCHANGED <<project, site, engineers, assignment, granted>>

\* Wrong on purpose: siteId may be null, and the save detaches the assignments
\* that it does not know.
SaveReadSiteDetaching(r) ==
  /\ mreq[r].pc = "site"
  /\ LET q == mreq[r] IN
     /\ assignment' = [i \in DOMAIN assignment |->
                         IF i \in AssignmentsOf(q.site) \ q.children
                           THEN [assignment[i] EXCEPT !.active = FALSE]
                           ELSE assignment[i]]
     /\ ManageGoto(r, IF site[q.site] # q.status
                        THEN [q EXCEPT !.pc = "siteWrite"] ELSE ManageIdle)
  /\ UNCHANGED <<project, site, engineers, granted>>

SaveReadSite(r) ==
  /\ mreq[r].pc = "site"
  /\ LET q == mreq[r] IN
     ManageGoto(r, IF AssignmentsOf(q.site) \subseteq q.children
                       /\ site[q.site] # q.status
                     THEN [q EXCEPT !.pc = "siteWrite"] ELSE ManageIdle)
  /\ UNCHANGED <<project, site, engineers, assignment, granted>>

SaveWriteSite(r) ==
  /\ mreq[r].pc = "siteWrite"
  /\ site' = [site EXCEPT ![mreq[r].site] = mreq[r].status]
  /\ ManageGoto(r, ManageIdle)
  /\ UNCHANGED <<project, engineers, assignment, granted>>

\* A repository call rejects, or the process dies.
AbortManage(r) ==
  /\ Faults
  /\ mreq[r].pc # "idle"
  /\ ManageGoto(r, ManageIdle)
  /\ UNCHANGED <<project, site, engineers, assignment, granted>>

-----------------------------------------------------------------------------
ManageArrives(r) ==
  \/ \E e \in Engineers : BeginEngineer(r, e) \/ \E s \in SiteIds : BeginAssign(r, s, e)
  \/ \E i \in DOMAIN assignment : BeginRemove(r, i)
  \/ \E status \in {"draft", "active"} \cup Edits :
       \/ \E p \in Projects : BeginEditProject(r, p, status)
       \/ \E s \in SiteIds : BeginEditSite(r, s, status)

ManageContinues(r) ==
  \/ InsertEngineer(r) \/ FindActive(r) \/ InsertAssignment(r)
  \/ SaveReadRemove(r) \/ SaveWriteRemove(r)
  \/ SaveReadProject(r) \/ SaveWriteProject(r)
  \/ SaveReadSite(r) \/ SaveWriteSite(r)

SitesNext ==
  \/ \E p \in Projects : CreateProject(p)
  \/ \E s \in SiteIds : CreateSite(s)
  \/ \E r \in ManageReq : ManageArrives(r) \/ ManageContinues(r) \/ AbortManage(r)

SitesSpec == SitesInit /\ [][SitesNext]_siteVars

-----------------------------------------------------------------------------
\* Who was assigned and not removed since has access, though sites are edited
\* from snapshots that know nothing of the assignment and assignments are
\* removed twice.
AssignedHaveAccess ==
  \A s \in SiteIds, e \in Engineers : <<s, e>> \in granted => Assigned(e, s)

\* The active rows of engineer e on site s, and the requests about to insert one.
ActiveRowsOf(e, s) ==
  {i \in DOMAIN assignment :
     assignment[i] = [site |-> s, engineer |-> e, active |-> TRUE]}
AboutToAssign(e, s) ==
  {r \in ManageReq : mreq[r].pc = "insert" /\ mreq[r].site = s /\ mreq[r].engineer = e}

\* "removes (deactivates) an engineer from a site" deactivates one row, so access
\* outlives as many removals as there are active rows more: there are never more,
\* those to come included, than assignments that can be in flight together.
RemovalsAreBounded ==
  \A e \in Engineers, s \in SiteIds :
    Cardinality(ActiveRowsOf(e, s)) + Cardinality(AboutToAssign(e, s))
      <= Cardinality(ManageReq)
=============================================================================
