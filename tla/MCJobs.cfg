SPECIFICATION JobsFairSpec
CONSTANTS
  c1 = c1
  Jobs = {j1}
  Companies = {c1}
  JobOwner <- MCJobOwner
  JobReq = {q1, q2, q3}
  Faults = TRUE
INVARIANTS AnnouncedWasPublished VisibleIsOrWillBeAnnounced
PROPERTIES PublishedIsAnnounced
