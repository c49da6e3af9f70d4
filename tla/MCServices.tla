----------------------------- MODULE MCServices ------------------------------
\* One service runs, in a scene of its own: the others stay as they began.
EXTENDS Services, TLC

VARIABLE scene

MCInit ==
  /\ ServicesInit
  /\ scene \in {"posts", "payments", "attendance", "exports", "files"}
  /\ configured \in (IF scene = "files" THEN {{}, Uploaders} ELSE {Uploaders})

MCNext ==
  /\ UNCHANGED scene
  /\ \/ scene = "posts" /\ PostsRun
     \/ scene = "payments" /\ PaymentsRun
     \/ scene = "attendance" /\ AttendanceRun
     \/ scene = "exports" /\ ExportsRun
     \/ scene = "files" /\ FilesRun

MCSpec == MCInit /\ [][MCNext]_<<scene, servicesVars>>

Symmetry ==
  Permutations(PostUsers) \cup Permutations(PostReq) \cup Permutations(AttReq)
=============================================================================
