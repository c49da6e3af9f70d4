--------------------------- MODULE MCDailyReports ---------------------------
\* One site and day, in two scenes: any number of requests that overlap while all
\* amounts are nothing, and two that overlap with amounts.
EXTENDS DailyReports, FiniteSets, TLC

VARIABLE scene

Nothing(row) == \A c \in Money : row[c] = 0

InOverlap ==
  /\ UNCHANGED books
  /\ \A i \in DOMAIN report' : Nothing(report'[i])
  /\ \A r \in Req :
       /\ HasRow(req'[r]) \/ req'[r].pc = "insert" => Nothing(req'[r].row)
       /\ req'[r].pc \in {"find", "findProgress", "costNew"} =>
            req'[r].other = 0 /\ req'[r].revenue = 0

InFigures ==
  /\ Cardinality({r \in Req : req'[r] # Idle}) <= 2
  /\ \A i \in DOMAIN report' : report'[i].revenue = 0
  /\ \A r \in Req :
       /\ HasRow(req'[r]) \/ req'[r].pc = "insert" => req'[r].row.revenue = 0
       /\ HasRow(req'[r]) => "revenue" \notin req'[r].assigned
       /\ req'[r].pc \in {"find", "findProgress", "costNew"} => req'[r].revenue = 0

SceneInit == Init /\ scene \in {"overlap", "figures"}

SceneNext ==
  /\ Next
  /\ UNCHANGED scene
  /\ \/ scene = "overlap" /\ InOverlap
     \/ scene = "figures" /\ InFigures

SceneSpec == SceneInit /\ [][SceneNext]_<<scene, vars>>

Symmetry == Permutations(Req)
=============================================================================
