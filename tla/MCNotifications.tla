--------------------------- MODULE MCNotifications ---------------------------
\* Small mailboxes: keys go to the first user, fan-outs to all.
EXTENDS Notifications, TLC

CONSTANT u1

MCRecipients == [n \in Notices |-> IF n \in Fanouts THEN Users ELSE {u1}]
MCAttempts == [n \in Notices |-> 2]
MCServes == [x \in Workers |-> Notices]

\* With Firebase at hand, which may accept everything as it does without.
FirebaseInit == Init /\ initialized
FirebaseSpec == FirebaseInit /\ [][Next]_noticeVars

Symmetry == Permutations(DevReq)
=============================================================================
