------------------------------ MODULE MCHiring ------------------------------
\* Recruitment on small instances: all applications are to one posting and the
\* requests of a service are interchangeable.
EXTENDS Applications, TLC

CONSTANTS j1, c1, a1

VARIABLE scene

MCJobOwner == [j \in Jobs |-> c1]
MCJobOf == [a \in Apps |-> j1]

Symmetry == Permutations(ConvReq) \cup Permutations(CallReq)

\* The state after the posting was created and announced: where the runs about
\* applications and conversations start.
PublishedInit ==
  /\ job = [j \in Jobs |-> "published"]
  /\ everVisible = Jobs
  /\ announced = Jobs /\ lost = {}
  /\ jreq = [r \in JobReq |-> JobIdle]
  /\ ConvInit
  /\ AppInit

\* The three scenes: decisions of two requests on the first application to a
\* posting that is published; messages about it, with one such request; and
\* applications to a posting that comes and goes, while nobody decides.
SceneInit ==
  \/ scene \in {"decisions", "messages"} /\ PublishedInit
  \/ scene = "postings" /\ Init

OneAtATime ==
  \A r \in AppReq : areq'[r] # AppIdle => \A s \in AppReq \ {r} : areq'[s] = AppIdle

OnFirst ==
  /\ \A r \in JobReq : jreq'[r] = JobIdle
  /\ UNCHANGED job
  /\ \A a \in Apps \ {a1} : app'[a] = "none"
  /\ \A r \in AppReq : "app" \in DOMAIN areq'[r] => areq'[r].app = a1

NobodyWrites == \A r \in ConvReq : creq'[r] = ConvIdle

\* To every guard "rejected" is what "shortlisted" is.
Saves(statuses) ==
  \A r \in AppReq : "to" \in DOMAIN areq'[r] => areq'[r].to \in statuses

SceneNext ==
  /\ Next
  /\ UNCHANGED scene
  /\ \/ /\ scene = "decisions" /\ OnFirst /\ NobodyWrites
        /\ Saves(AppStatus \ {"rejected"})
     \/ /\ scene = "messages" /\ OnFirst /\ OneAtATime
        /\ Saves({"reviewed", "accepted", "withdrawn"})
     \/ /\ scene = "postings" /\ OneAtATime /\ NobodyWrites
        /\ Saves({"withdrawn"})

SceneSpec == SceneInit /\ [][SceneNext]_<<scene, hiringVars>>

\* Messages alone.
PublishedSpec ==
  /\ PublishedInit /\ scene = "messages"
  /\ [][Next /\ UNCHANGED scene]_<<scene, hiringVars>>
=============================================================================
