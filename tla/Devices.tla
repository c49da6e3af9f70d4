------------------------------- MODULE Devices -------------------------------
(***************************************************************************)
(* The device tokens of NotificationsService: which FCM token belongs to   *)
(* which user.  A row is unique per user and token; rows are never deleted,*)
(* only deactivated.  The platform column is left out.                     *)
(***************************************************************************)
EXTENDS Server

CONSTANTS
  Users,
  Tokens,      \* FCM tokens: one per installed app
  DevReq       \* requests of registerDevice in flight together

VARIABLES
  device,      \* isActive of the row of a user and a token; "none": no row
  contested,   \* history: tokens last registered while another user registered them
  dreq         \* the locals of each registerDevice

deviceVars == <<device, contested, dreq>>

DeviceIdle == [pc |-> "idle"]

DeviceFrame ==
  [pc : {"idle"}]
    \cup [pc : {"find", "insert", "save", "write"}, user : Users, token : Tokens]

DevicesTypeOK ==
  /\ device \in [Users -> [Tokens -> {"none", "active", "inactive"}]]
  /\ contested \in SUBSET Tokens
  /\ dreq \in [DevReq -> DeviceFrame]

DevicesInit ==
  /\ device = [u \in Users |-> [t \in Tokens |-> "none"]]
  /\ contested = {}
  /\ dreq = [r \in DevReq |-> DeviceIdle]

-----------------------------------------------------------------------------
\* UPDATE device_tokens SET isActive = false for the rows in S.
Deactivated(S) ==
  [u \in Users |-> [t \in Tokens |->
     IF <<u, t>> \in S /\ device[u][t] = "active" THEN "inactive"
                                                  ELSE device[u][t]]]

Activated(u, t) == [device EXCEPT ![u][t] = "active"]

\* Wrong on purpose: the rows, not the tokens in them.
ActiveRows(S) == {row \in S \X Tokens : device[row[1]][row[2]] = "active"}

\* getActiveTokens: the tokens of the active rows of users in S.
ActiveTokens(S) == {t \in Tokens : \E u \in S : device[u][t] = "active"}

\* A request of u for t arrives; whoever else registers the token does not stop it.
Arrive(r, u, t) ==
  /\ dreq[r].pc = "idle"
  /\ dreq' = [dreq EXCEPT ![r] = [pc |-> "find", user |-> u, token |-> t]]
  /\ contested' = IF \E q \in {dreq[s] : s \in DevReq} :
                       q.pc # "idle" /\ q.token = t /\ q.user # u
                    THEN contested \cup {t} ELSE contested \ {t}

\* Wrong on purpose: the caller's own row is deactivated, the others are not.
BeginRegisterOwn(r, u, t) ==
  /\ Arrive(r, u, t)
  /\ device' = Deactivated({u} \X {t})

\* registerDevice, step 1: the token is taken from every other user.
BeginRegister(r, u, t) ==
  /\ Arrive(r, u, t)
  /\ device' = Deactivated((Users \ {u}) \X {t})

\* registerDevice, step 2: is there a row of this user already?
FindDevice(r) ==
  /\ dreq[r].pc = "find"
  /\ dreq' = [dreq EXCEPT ![r].pc =
                IF device[dreq[r].user][dreq[r].token] = "none" THEN "insert"
                                                                ELSE "save"]
  /\ UNCHANGED <<device, contested>>

\* The insert of a new row, which the unique constraint refuses when another
\* request of the same user was faster.
InsertDevice(r) ==
  /\ dreq[r].pc = "insert"
  /\ LET q == dreq[r] IN
     device' = IF device[q.user][q.token] = "none" THEN Activated(q.user, q.token)
                                                   ELSE device
  /\ dreq' = [dreq EXCEPT ![r] = DeviceIdle]
  /\ UNCHANGED contested

\* The save of an existing row: nothing is written if it is active already.
SaveReadDevice(r) ==
  /\ dreq[r].pc = "save"
  /\ dreq' = [dreq EXCEPT ![r] =
                IF device[dreq[r].user][dreq[r].token] = "active"
                  THEN DeviceIdle ELSE [dreq[r] EXCEPT !.pc = "write"]]
  /\ UNCHANGED <<device, contested>>

SaveWriteDevice(r) ==
  /\ dreq[r].pc = "write"
  /\ device' = Activated(dreq[r].user, dreq[r].token)
  /\ dreq' = [dreq EXCEPT ![r] = DeviceIdle]
  /\ UNCHANGED contested

\* unregisterDevice (S: one row) and deactivateUserTokens (S: all of a user).
Unregister(S) ==
  /\ device' = Deactivated(S)
  /\ UNCHANGED <<contested, dreq>>

\* A repository call rejects or the process dies.
AbortDevice(r) ==
  /\ Faults
  /\ dreq[r].pc # "idle"
  /\ dreq' = [dreq EXCEPT ![r] = DeviceIdle]
  /\ UNCHANGED <<device, contested>>

DevicesNext ==
  \/ \E r \in DevReq :
       \/ \E u \in Users, t \in Tokens : BeginRegister(r, u, t)
       \/ FindDevice(r) \/ InsertDevice(r)
       \/ SaveReadDevice(r) \/ SaveWriteDevice(r) \/ AbortDevice(r)
  \/ \E u \in Users : Unregister({u} \X Tokens) \/ \E t \in Tokens : Unregister({<<u, t>>})

-----------------------------------------------------------------------------
\* "Deactivates token for any previous user (device reassignment)": one device,
\* one active owner, whatever unregistrations, refused pushes and deaths come
\* between the awaits of its registrations.  Two users whose registrations of it
\* overlap may both become active, as nothing in the table forbids it; the next
\* registration that runs by itself leaves one owner again.
OneOwner ==
  \A t \in Tokens \ contested, u, v \in Users :
    device[u][t] = "active" /\ device[v][t] = "active" => u = v
=============================================================================
