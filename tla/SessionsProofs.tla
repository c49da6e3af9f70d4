--------------------------- MODULE SessionsProofs ---------------------------
(***************************************************************************)
(* Theorems about the sign-in of an account, for any number of requests.   *)
(* One invariant, Guarded, says of the row and of every entity in flight   *)
(* what the properties say of the row: an entity may be saved at any time. *)
(***************************************************************************)
EXTENDS Sessions, TLAPS

USE LockAssumption, SessionBoundsAssumption

BusyFrame ==
  [pc     : {"insert", "send", "save", "write"},
   entity : Row,
   cols   : SUBSET Columns,
   then   : Then]

\* A request waits for nothing of a row, or it carries one.
LEMMA FrameKinds ==
  /\ Frame = [pc : {"idle", "authorized"}] \cup BusyFrame
  /\ \A f \in Frame : f.pc \in {"idle", "authorized", "insert", "send", "save", "write"}
  /\ \A f \in Frame : f.pc \notin {"idle", "authorized"} => f \in BusyFrame
  /\ \A f \in BusyFrame : f.pc \notin {"idle", "authorized"}
  /\ Idle \in Frame /\ [pc |-> "authorized"] \in Frame
  BY DEF Frame, BusyFrame, Idle

LEMMA BusyIsFrame ==
  ASSUME NEW pc \in {"insert", "send", "save", "write"}, NEW e \in Row,
         NEW cols \in SUBSET Columns, NEW then \in Then
  PROVE  /\ Busy(pc, e, cols, then) \in BusyFrame
         /\ Busy(pc, e, cols, then) \in Frame
         /\ Busy(pc, e, cols, then).pc = pc
         /\ Busy(pc, e, cols, then).entity = e
         /\ Busy(pc, e, cols, then).cols = cols
         /\ Busy(pc, e, cols, then).then = then
  BY DEF Busy, BusyFrame, Frame

-----------------------------------------------------------------------------
\* What is true of a row however the handlers overlap.
Sound(e) ==
  /\ e.failed <= wrong
  /\ e.lock # "none" => wrong >= LockAfter
  /\ e.verified => proved
  /\ e.password = "chosen" => proved

\* ... and of a request: the version it will hand out was stored, unless the
\* save before it has yet to store it.
Good(f) ==
  f.pc \notin {"idle", "authorized"} =>
    /\ Sound(f.entity)
    /\ f.then \in {"signup", "firebase"} => proved
    /\ f.then = "answer" => f.entity.version \in stored
    /\ f.pc = "write" /\ "version" \notin f.cols => f.entity.version \in stored

Guarded ==
  /\ SessionsTypeOK
  /\ Sound(user)
  /\ user.version \in stored
  /\ issued \subseteq stored
  /\ signup => proved
  /\ \A r \in Req : Good(req[r])

\* The histories only grow, so what is sound stays so.
Grows == wrong <= wrong' /\ wrong' \in Nat /\ (proved => proved') /\ proved' \in BOOLEAN
           /\ stored \subseteq stored' /\ stored' \subseteq Nat

LEMMA SoundStays ==
  ASSUME SessionsTypeOK, Grows, NEW e \in Row, Sound(e)
  PROVE  Sound(e)'
  BY DEF SessionsTypeOK, Grows, Sound, Row

LEMMA GoodStays ==
  ASSUME SessionsTypeOK, Grows, NEW f \in Frame, Good(f)
  PROVE  Good(f)'
<1>1. CASE f.pc \in {"idle", "authorized"}
  BY <1>1 DEF Good
<1>2. CASE f.pc \notin {"idle", "authorized"}
  <2>1. f \in BusyFrame
    BY <1>2, FrameKinds
  <2>2. f.entity \in Row
    BY <2>1 DEF BusyFrame
  <2>3. Sound(f.entity)'
    BY <1>2, <2>2, SoundStays DEF Good
  <2> QED
    BY <1>2, <2>3 DEF Good, Grows
<1> QED
  BY <1>1, <1>2

\* A step that gives request r the frame f keeps every frame good.
LEMMA MoveKeepsFrames ==
  ASSUME Guarded, Grows, NEW r \in Req, NEW f \in Frame, Good(f)',
         req' = [req EXCEPT ![r] = f]
  PROVE  req' \in [Req -> Frame] /\ \A s \in Req : Good(req[s])'
<1>1. req' \in [Req -> Frame] /\ \A s \in Req : req'[s] = IF s = r THEN f ELSE req[s]
  BY DEF Guarded, SessionsTypeOK
<1>2. ASSUME NEW s \in Req PROVE Good(req[s])'
  <2>1. CASE s = r
    <3>1. req'[s] = f
      BY <1>1, <2>1
    <3> QED
      BY <3>1 DEF Good, Sound
  <2>2. CASE s # r
    <3> PICK g \in Frame : g = req[s]
      BY DEF Guarded, SessionsTypeOK
    <3>1. req'[s] = g
      BY <1>1, <2>2
    <3>2. Good(g)
      BY DEF Guarded
    <3>3. Good(g)'
      BY <3>2, GoodStays DEF Guarded
    <3> QED
      BY <3>1, <3>3 DEF Good, Sound
  <2> QED
    BY <2>1, <2>2
<1> QED
  BY <1>1, <1>2

\* A handler that loads the user goes on with an entity that is sound.
LEMMA LoadKeeps ==
  ASSUME Guarded, NEW r \in Req, NEW e \in Row, NEW fresh \in SUBSET Columns,
         NEW then \in Then, Load(r, e, fresh, then),
         wrong' \in Nat, wrong <= wrong', proved' \in BOOLEAN, proved => proved',
         Sound(e)', then \in {"signup", "firebase"} => proved', then = "answer" => e.version = user.version
  PROVE  Guarded'
<1>1. Grows
  BY DEF Grows, Load, Guarded, SessionsTypeOK
<1> PICK f \in Frame : f = Saving(e, fresh, then)
  BY BusyIsFrame DEF Saving
<1>2. f.pc = "save" /\ f.entity = e /\ f.then = then
  BY BusyIsFrame DEF Saving
<1>3. Good(f)'
  BY <1>2 DEF Good, Guarded, Load
<1>4. req' = [req EXCEPT ![r] = f]
  BY DEF Load
<1>5. req' \in [Req -> Frame] /\ \A s \in Req : Good(req[s])'
  BY <1>1, <1>3, <1>4, MoveKeepsFrames
<1>6. Sound(user)'
  <2> PICK u \in Row : u = user
    BY DEF Guarded, SessionsTypeOK
  <2>1. Sound(u)'
    BY <1>1, SoundStays DEF Guarded
  <2>2. user' = u
    BY DEF Load
  <2> QED
    BY <2>1, <2>2 DEF Sound
<1> QED
  BY <1>1, <1>5, <1>6 DEF Guarded, SessionsTypeOK, Load, Grows

\* So does one that finds nobody and is about to insert.
LEMMA CreateKeeps ==
  ASSUME Guarded, NEW r \in Req, NEW e \in Row, NEW then \in Then,
         Create(r, e, then), wrong' = wrong,
         proved' \in BOOLEAN, proved => proved',
         Sound(e)', then = "firebase" => proved', then \notin {"signup", "answer"}
  PROVE  Guarded'
<1>1. Grows
  BY DEF Grows, Create, Guarded, SessionsTypeOK
<1> PICK f \in Frame : f = Busy("insert", e, {}, then)
  BY BusyIsFrame
<1>2. f.pc = "insert" /\ f.entity = e /\ f.then = then
  BY BusyIsFrame
<1>3. Good(f)'
  BY <1>2 DEF Good
<1>4. req' = [req EXCEPT ![r] = f]
  BY DEF Create
<1>5. req' \in [Req -> Frame] /\ \A s \in Req : Good(req[s])'
  BY <1>1, <1>3, <1>4, MoveKeepsFrames
<1>6. Sound(user)'
  <2> PICK u \in Row : u = user
    BY DEF Guarded, SessionsTypeOK
  <2>1. Sound(u)'
    BY <1>1, SoundStays DEF Guarded
  <2>2. user' = u
    BY DEF Create
  <2> QED
    BY <2>1, <2>2 DEF Sound
<1> QED
  BY <1>1, <1>5, <1>6 DEF Guarded, SessionsTypeOK, Create, Grows

\* The columns that handlers assign leave a row a row, and keep the version or
\* raise it by one.
LEMMA AssignedRows ==
  ASSUME NEW e \in Row
  PROVE  /\ WithCode(e) \in Row /\ WithCode(e).version = e.version
         /\ WithoutCode(e) \in Row /\ WithoutCode(e).version = e.version
         /\ WithoutRefresh(e) \in Row /\ WithoutRefresh(e).version = e.version
         /\ Chosen(e) \in Row /\ Chosen(e).version = e.version
         /\ Bumped(e) \in Row /\ Bumped(e).version = e.version + 1
         /\ Proven(e) \in Row /\ Proven(e).version = e.version
         /\ WithTokens(e) \in Row /\ WithTokens(e).version = e.version
         /\ Past(e) \in Row /\ Past(e).version = e.version
         /\ Failed(e) \in Row /\ Failed(e).version = e.version
<1>1. WithCode(e) \in Row /\ WithCode(e).version = e.version
  BY DEF Row, Password, WithCode
<1>2. WithoutCode(e) \in Row /\ WithoutCode(e).version = e.version
  BY DEF Row, Password, WithoutCode
<1>3. WithoutRefresh(e) \in Row /\ WithoutRefresh(e).version = e.version
  BY DEF Row, Password, WithoutRefresh
<1>4. Chosen(e) \in Row /\ Chosen(e).version = e.version
  BY DEF Row, Password, Chosen
<1>5. Bumped(e) \in Row /\ Bumped(e).version = e.version + 1
  BY DEF Row, Password, Bumped
<1>6. Proven(e) \in Row /\ Proven(e).version = e.version
  BY DEF Row, Password, Proven, WithoutCode
<1>7. WithTokens(e) \in Row /\ WithTokens(e).version = e.version
  BY DEF Row, Password, WithTokens
<1>8. Past(e) \in Row /\ Past(e).version = e.version
  BY DEF Row, Password, Past
<1>9. Failed(e) \in Row /\ Failed(e).version = e.version
  <2>1. e.failed \in Nat /\ e.lock \in {"none", "future", "past"}
    BY DEF Row
  <2>2. Counted(e.failed) \in Nat
    BY <2>1 DEF Counted
  <2>3. (IF Counted(e.failed) >= LockAfter THEN "future" ELSE e.lock)
          \in {"none", "future", "past"}
    BY <2>1
  <2> QED
    BY <2>2, <2>3 DEF Row, Failed
<1> QED
  BY <1>1, <1>2, <1>3, <1>4, <1>5, <1>6, <1>7, <1>8, <1>9

LEMMA NewUserIsRow ==
  ASSUME NEW p \in Password, NEW b \in BOOLEAN
  PROVE  NewUser(p, b) \in Row /\ NewUser(p, b).version = 0
  BY DEF NewUser, Row

\* What a handler goes on with is a frame; if it carries a row, that is the one
\* just saved with assignments of its own.
LEMMA ContinueKinds ==
  ASSUME NEW e \in Row, NEW then \in Then
  PROVE  \/ then = "code" /\ Continue(e, then) = Saving(WithCode(e), {"otp"}, "sms")
         \/ then = "sms" /\ Continue(e, then) = Busy("send", e, {}, "done")
         \/ then = "firebase" /\ Continue(e, then) = Saving(Bumped(Proven(e)), {}, "signIn")
         \/ then \in {"signIn", "tokens"} /\ Continue(e, then) = Saving(WithTokens(e), {"refresh"}, "answer")
         \/ then \in {"signOut", "answer", "signup", "done"} /\ Continue(e, then) = Idle
  BY DEF Continue, Then

LEMMA ContinueIsFrame ==
  ASSUME NEW e \in Row, NEW then \in Then
  PROVE  Continue(e, then) \in Frame
<1> USE DEF Saving
<1>1. {"otp"} \in SUBSET Columns /\ {"refresh"} \in SUBSET Columns /\ {} \in SUBSET Columns
  BY DEF Columns
<1>2. {"sms", "done", "signIn", "answer"} \subseteq Then
  BY DEF Then
<1>3. Bumped(Proven(e)) \in Row
  BY AssignedRows
<1> QED
  BY <1>1, <1>2, <1>3, AssignedRows, ContinueKinds, BusyIsFrame, FrameKinds

LEMMA ContinueIsGood ==
  ASSUME NEW e \in Row, NEW then \in Then, Sound(e)', proved' \in BOOLEAN,
         then = "firebase" => proved', wrong' \in Nat,
         e.version \in stored'
  PROVE  Good(Continue(e, then))'
<1> USE DEF Saving
<1>1. {"otp"} \in SUBSET Columns /\ {"refresh"} \in SUBSET Columns /\ {} \in SUBSET Columns
  BY DEF Columns
<1>2. {"sms", "done", "signIn", "answer"} \subseteq Then
  BY DEF Then
<1>3. CASE Continue(e, then) = Idle
  BY <1>3 DEF Good, Idle
<1>4. CASE Continue(e, then) = Saving(WithCode(e), {"otp"}, "sms")
  <2>1. Sound(WithCode(e))'
    BY DEF Sound, Row, WithCode
  <2> QED
    BY <1>1, <1>2, <1>4, <2>1, AssignedRows, BusyIsFrame DEF Good
<1>5. CASE Continue(e, then) = Busy("send", e, {}, "done")
  BY <1>1, <1>2, <1>5, BusyIsFrame DEF Good
<1>6. CASE then = "firebase" /\ Continue(e, then) = Saving(Bumped(Proven(e)), {}, "signIn")
  <2>1. Sound(Bumped(Proven(e)))'
    BY <1>6 DEF Sound, Row, Bumped, Proven, WithoutCode
  <2> QED
    BY <1>1, <1>2, <1>6, <2>1, AssignedRows, BusyIsFrame DEF Good
<1>7. CASE Continue(e, then) = Saving(WithTokens(e), {"refresh"}, "answer")
  <2>1. /\ WithTokens(e).failed = 0 /\ WithTokens(e).lock = "none"
        /\ WithTokens(e).verified = e.verified /\ WithTokens(e).password = e.password
    BY DEF Row, WithTokens
  <2>2. Sound(WithTokens(e))' /\ WithTokens(e).version \in stored'
    BY <2>1, AssignedRows DEF Sound
  <2> QED
    BY <1>1, <1>2, <1>7, <2>2, AssignedRows, BusyIsFrame DEF Good
<1> QED
  BY <1>3, <1>4, <1>5, <1>6, <1>7, ContinueKinds

-----------------------------------------------------------------------------
\* The end of an insert or a save: the row may be written, the entity was sound,
\* and its version is in the row or was there.
LEMMA FinishKeeps ==
  ASSUME Guarded, NEW r \in Req, NEW e \in Row, NEW then \in Then,
         Finish(r, e, then), UNCHANGED <<proved, wrong>>,
         Sound(e), then \in {"signup", "firebase"} => proved,
         user' \in Row, Sound(user)', user'.version \in stored',
         stored \subseteq stored', stored' \subseteq Nat, e.version \in stored'
  PROVE  Guarded'
<1>1. Grows
  BY DEF Grows, Guarded, SessionsTypeOK
<1> PICK f \in Frame : f = Continue(e, then)
  BY ContinueIsFrame
<1>2. Sound(e)'
  BY <1>1, SoundStays DEF Guarded
<1>3. Good(Continue(e, then))'
  <2>1. proved' \in BOOLEAN /\ wrong' \in Nat /\ (then = "firebase" => proved')
    BY <1>1 DEF Grows
  <2>2. Sound(e)' /\ e.version \in stored'
    BY <1>2
  <2> QED
    BY <2>1, <2>2, ContinueIsGood
<1>4. Good(f)'
  BY <1>3
<1>5. req' = [req EXCEPT ![r] = f]
  BY DEF Finish
<1>6. req' \in [Req -> Frame] /\ \A s \in Req : Good(req[s])'
  BY <1>1, <1>4, <1>5, MoveKeepsFrames
<1>7. issued' \subseteq stored' /\ signup' \in BOOLEAN /\ (signup' => proved')
  BY <1>1 DEF Finish, Guarded, Grows, SessionsTypeOK
<1>8. SessionsTypeOK'
  BY <1>1, <1>6, <1>7 DEF Guarded, SessionsTypeOK, Grows
<1> QED
  BY <1>6, <1>7, <1>8 DEF Guarded

\* A step that leaves the row and the histories alone, or only its frame.
LEMMA GotoKeeps ==
  ASSUME Guarded, NEW r \in Req, NEW f \in Frame, Good(f),
         req' = [req EXCEPT ![r] = f], UNCHANGED <<rowVars, history>>
  PROVE  Guarded'
<1>1. Grows
  BY DEF Grows, Guarded, SessionsTypeOK, rowVars, history
<1>2. Good(f)'
  BY <1>1, GoodStays DEF Guarded
<1>3. req' \in [Req -> Frame] /\ \A s \in Req : Good(req[s])'
  BY <1>1, <1>2, MoveKeepsFrames
<1> QED
  BY <1>1, <1>3 DEF Guarded, SessionsTypeOK, Sound, rowVars, history

\* The row that the second half of a save leaves is a row, and as sound as the
\* entity and the row it is mixed from.
LEMMA WrittenIsSound ==
  ASSUME Guarded, NEW q \in BusyFrame, Sound(q.entity)
  PROVE  /\ Written(q) \in Row
         /\ Sound(Written(q))
         /\ Written(q).version = IF "version" \in q.cols THEN q.entity.version
                                                        ELSE user.version
<1>1. q.entity \in Row /\ user \in Row
  BY DEF BusyFrame, Guarded, SessionsTypeOK
<1>2. Written(q) \in Row
  BY <1>1 DEF Written, Row
<1>3. /\ Written(q).failed \in {q.entity.failed, user.failed}
      /\ Written(q).lock \in {q.entity.lock, user.lock}
      /\ Written(q).verified \in {q.entity.verified, user.verified}
      /\ Written(q).password \in {q.entity.password, user.password}
      /\ Written(q).version = IF "version" \in q.cols THEN q.entity.version
                                                     ELSE user.version
  BY DEF Written
<1>4. Sound(Written(q))
  BY <1>3 DEF Guarded, Sound
<1> QED
  BY <1>2, <1>3, <1>4

\* The initial state satisfies the invariant.
LEMMA GuardedInit == Init => Guarded
<1> SUFFICES ASSUME Init PROVE Guarded
  OBVIOUS
<1>1. user \in Row /\ user.version = 0
  BY NewUserIsRow DEF Init, Password
<1>2. Sound(user)
  BY DEF Init, NewUser, Sound
<1>3. \A r \in Req : req[r] = Idle
  BY DEF Init
<1> QED
  <2>1. SessionsTypeOK
    <3>1. req \in [Req -> Frame]
      BY FrameKinds DEF Init
    <3> QED
      <4>1. signup \in BOOLEAN /\ proved \in BOOLEAN
        BY DEF Init
      <4>2. wrong \in Nat /\ issued \subseteq Nat /\ stored \subseteq Nat
        BY DEF Init
      <4> QED
        BY <1>1, <3>1, <4>1, <4>2 DEF SessionsTypeOK
  <2>2. \A r \in Req : Good(req[r])
    BY <1>3 DEF Good, Idle
  <2> QED
    BY <1>1, <1>2, <2>1, <2>2 DEF Init, Guarded

\* The steps that every handler makes.
LEMMA InsertStep ==
  ASSUME Guarded, NEW r \in Req, Insert(r)
  PROVE  Guarded'
<1> PICK q \in BusyFrame : q = req[r]
  BY FrameKinds DEF Insert, Guarded, SessionsTypeOK
<1>1. q.entity \in Row /\ q.then \in Then
  BY DEF BusyFrame
<1>2. Good(q)
  BY DEF Guarded
<1>3. Sound(q.entity) /\ (q.then \in {"signup", "firebase"} => proved)
  BY <1>2, FrameKinds DEF Good
<1>4. CASE Exists
  <2>1. req' = [req EXCEPT ![r] = Idle] /\ UNCHANGED <<rowVars, history>>
    BY <1>4 DEF Insert, rowVars, history
  <2> QED
    BY <2>1, FrameKinds, GotoKeeps DEF Good, Idle
<1>5. CASE ~Exists
  <2>1. /\ user' = q.entity /\ stored' = stored \cup {q.entity.version}
        /\ Finish(r, q.entity, q.then) /\ UNCHANGED <<proved, wrong>>
    BY <1>5 DEF Insert
  <2>2. q.entity.version \in Nat
    BY <1>1 DEF Row
  <2>3. stored' \subseteq Nat
    BY <2>1, <2>2 DEF Guarded, SessionsTypeOK
  <2>4. Sound(user)'
    BY <1>3, <2>1 DEF Sound
  <2> QED
    BY <1>1, <1>3, <2>1, <2>3, <2>4, FinishKeeps
<1> QED
  BY <1>4, <1>5

LEMMA SaveReadStep ==
  ASSUME Guarded, NEW r \in Req, SaveRead(r)
  PROVE  Guarded'
<1> PICK q \in BusyFrame : q = req[r]
  BY FrameKinds DEF SaveRead, Guarded, SessionsTypeOK
<1>1. q.entity \in Row /\ q.then \in Then /\ q.cols \in SUBSET Columns
  BY DEF BusyFrame
<1>2. Good(q)
  BY DEF Guarded
<1>3. Sound(q.entity) /\ (q.then \in {"signup", "firebase"} => proved)
        /\ (q.then = "answer" => q.entity.version \in stored)
  BY <1>2, FrameKinds DEF Good
<1> PICK cols \in SUBSET Columns :
      cols = q.cols \cup {c \in Columns : q.entity[c] # user[c]}
  BY <1>1
<1>4. "version" \notin cols => q.entity.version = user.version
  BY DEF Columns
<1>5. CASE cols = {}
  <2>1. Finish(r, q.entity, q.then) /\ UNCHANGED <<rowVars, proved, wrong>>
    BY <1>5 DEF SaveRead
  <2>2. q.entity.version \in stored' /\ stored' \subseteq Nat /\ stored' = stored
    BY <1>4, <1>5, <2>1 DEF Guarded, SessionsTypeOK, rowVars
  <2>3. user' \in Row /\ Sound(user)' /\ user'.version \in stored'
    BY <2>1 DEF Guarded, SessionsTypeOK, Sound, rowVars
  <2> QED
    BY <1>1, <1>3, <2>1, <2>2, <2>3, FinishKeeps
<1>6. CASE cols # {}
  <2> PICK f \in Frame : f = Busy("write", q.entity, cols, q.then)
    BY <1>1, BusyIsFrame
  <2>1. f.pc = "write" /\ f.entity = q.entity /\ f.cols = cols /\ f.then = q.then
    BY <1>1, BusyIsFrame
  <2>2. req' = [req EXCEPT ![r] = f] /\ UNCHANGED <<rowVars, history>>
    BY <1>6 DEF SaveRead, rowVars, history
  <2>3. Good(f)
    BY <1>3, <1>4, <2>1 DEF Good, Guarded
  <2> QED
    BY <2>2, <2>3, GotoKeeps
<1> QED
  BY <1>5, <1>6

LEMMA SaveWriteStep ==
  ASSUME Guarded, NEW r \in Req, SaveWrite(r)
  PROVE  Guarded'
<1> PICK q \in BusyFrame : q = req[r]
  BY FrameKinds DEF SaveWrite, Guarded, SessionsTypeOK
<1>1. q.entity \in Row /\ q.then \in Then /\ q.pc = "write"
  BY DEF BusyFrame, SaveWrite
<1>2. Good(q)
  BY DEF Guarded
<1>3. /\ Sound(q.entity) /\ (q.then \in {"signup", "firebase"} => proved)
      /\ "version" \notin q.cols => q.entity.version \in stored
  BY <1>1, <1>2 DEF Good
<1>4. /\ user' = Written(q) /\ Finish(r, q.entity, q.then)
      /\ stored' = stored \cup {user'.version} /\ UNCHANGED <<proved, wrong>>
  BY DEF SaveWrite
<1>5. /\ user' \in Row /\ Sound(Written(q))
      /\ user'.version = IF "version" \in q.cols THEN q.entity.version
                                                 ELSE user.version
  BY <1>3, <1>4, WrittenIsSound
<1>6. user'.version \in Nat /\ stored' \subseteq Nat
  BY <1>4, <1>5 DEF Row, Guarded, SessionsTypeOK
<1>7. Sound(user)'
  BY <1>4, <1>5 DEF Sound
<1> QED
  BY <1>1, <1>3, <1>4, <1>5, <1>6, <1>7, FinishKeeps

\* A code that was sent, or refused and cleared in the entity.
LEMMA SendStep ==
  ASSUME Guarded, NEW r \in Req, Send(r)
  PROVE  Guarded'
<1> PICK q \in BusyFrame : q = req[r]
  BY FrameKinds DEF Send, Guarded, SessionsTypeOK
<1>1. q.entity \in Row /\ {} \in SUBSET Columns /\ "done" \in Then
  BY DEF BusyFrame, Then
<1>2. Sound(q.entity)
  BY FrameKinds DEF Good, Guarded
<1> PICK f \in Frame : f = Saving(WithoutCode(q.entity), {}, "done")
  BY <1>1, AssignedRows, BusyIsFrame DEF Saving
<1>3. f.pc = "save" /\ f.entity = WithoutCode(q.entity) /\ f.then = "done"
  BY <1>1, AssignedRows, BusyIsFrame DEF Saving
<1>4. Sound(WithoutCode(q.entity))
  BY <1>1, <1>2 DEF Sound, Row, WithoutCode
<1>5. Good(f)
  BY <1>3, <1>4 DEF Good
<1>6. Good(Idle) /\ Idle \in Frame
  BY FrameKinds DEF Good, Idle
<1>7. (req' = [req EXCEPT ![r] = Idle] \/ req' = [req EXCEPT ![r] = f])
        /\ UNCHANGED <<rowVars, history>>
  BY DEF Send
<1> QED
  BY <1>5, <1>6, <1>7, GotoKeeps

\* Time passes for the row and for every entity alike.
LEMMA LockoutPassesStep ==
  ASSUME Guarded, LockoutPasses
  PROVE  Guarded'
<1>1. Grows
  BY DEF Grows, Guarded, SessionsTypeOK, LockoutPasses, history
<1>2. ASSUME NEW e \in Row, Sound(e) PROVE Sound(Past(e))'
  <2>1. /\ Past(e).failed = e.failed /\ Past(e).verified = e.verified
        /\ Past(e).password = e.password /\ (Past(e).lock = "none" <=> e.lock = "none")
    BY DEF Row, Past
  <2> QED
    BY <1>2, <2>1 DEF Sound, LockoutPasses, history
<1>3. user' \in Row /\ Sound(user)' /\ user'.version = user.version
  <2> PICK u \in Row : u = user
    BY DEF Guarded, SessionsTypeOK
  <2>1. user' = Past(u) /\ Sound(u)
    BY DEF LockoutPasses, Guarded
  <2>2. Sound(Past(u))'
    BY <1>2, <2>1
  <2> QED
    BY <2>1, <2>2, AssignedRows DEF Sound
<1>4. ASSUME NEW r \in Req PROVE req'[r] \in Frame /\ Good(req[r])'
  <2> PICK q \in Frame : q = req[r]
    BY DEF Guarded, SessionsTypeOK
  <2>1. CASE q.pc \in {"idle", "authorized"}
    <3>1. req'[r] = q
      BY <2>1 DEF LockoutPasses
    <3> QED
      BY <2>1, <3>1 DEF Good
  <2>2. CASE q.pc \notin {"idle", "authorized"}
    <3>1. q \in BusyFrame /\ q.entity \in Row /\ Good(q)
      BY <2>2, FrameKinds DEF BusyFrame, Guarded
    <3>2. req'[r] = [q EXCEPT !.entity = Past(q.entity)]
      BY <2>2 DEF LockoutPasses
    <3> PICK f : f = [q EXCEPT !.entity = Past(q.entity)]
      OBVIOUS
    <3>3. /\ f \in BusyFrame /\ f.entity = Past(q.entity) /\ f.pc = q.pc
          /\ f.cols = q.cols /\ f.then = q.then
      BY <3>1, AssignedRows DEF BusyFrame
    <3>4. Sound(q.entity) /\ Past(q.entity).version = q.entity.version
      BY <2>2, <3>1, AssignedRows DEF Good
    <3>5. Sound(f.entity)'
      BY <1>2, <3>1, <3>3, <3>4
    <3>6. Good(f)'
      BY <1>1, <2>2, <3>1, <3>3, <3>4, <3>5 DEF Good, Grows
    <3> QED
      BY <3>2, <3>3, <3>6, FrameKinds DEF Good, Sound
  <2> QED
    BY <2>1, <2>2
<1>5. req' \in [Req -> Frame]
  BY <1>4 DEF LockoutPasses
<1> QED
  BY <1>3, <1>4, <1>5 DEF Guarded, SessionsTypeOK, LockoutPasses, history

\* Requests that load the user: what each assigns is sound.
LEMMA CodeStep ==
  ASSUME Guarded, NEW r \in Req, ByCode(r)
  PROVE  Guarded'
<1> PICK u \in Row : u = user
  BY DEF Guarded, SessionsTypeOK
<1>1. /\ Sound(u) /\ wrong \in Nat /\ proved \in BOOLEAN /\ (signup => proved)
  BY DEF Guarded, SessionsTypeOK
<1>2. {"otp"} \in SUBSET Columns /\ {"password"} \in SUBSET Columns /\ {} \in SUBSET Columns
  BY DEF Columns
<1>3. {"sms", "code", "signup", "tokens", "signIn", "firebase", "signOut"} \subseteq Then
  BY DEF Then
<1>4. ASSUME NEW p \in {"random", "pending"}, wrong' = wrong
      PROVE  NewUser(p, FALSE) \in Row /\ Sound(NewUser(p, FALSE))'
  <2>1. NewUser(p, FALSE) \in Row
    BY NewUserIsRow DEF Password
  <2>2. Sound(NewUser(p, FALSE))'
    BY <1>1, <1>4 DEF Sound, NewUser
  <2> QED
    BY <2>1, <2>2
<1>5. ASSUME UNCHANGED <<proved, wrong>>
      PROVE  Sound(u)' /\ Sound(WithCode(u))' /\ (proved => Sound(Chosen(u))')
  BY <1>1, <1>5 DEF Sound, Row, WithCode, Chosen
<1>6. ASSUME proved' = TRUE, wrong' = wrong
      PROVE  /\ Sound(Proven(u))' /\ Sound(Bumped(Proven(u)))'
             /\ Sound(Chosen(WithoutRefresh(WithoutCode(Bumped(u)))))'
             /\ Sound(NewUser("random", TRUE))' /\ NewUser("random", TRUE) \in Row
  <2>1. Sound(Proven(u))' /\ Sound(Bumped(Proven(u)))'
    BY <1>1, <1>6 DEF Sound, Row, Proven, WithoutCode, Bumped
  <2>2. Sound(Chosen(WithoutRefresh(WithoutCode(Bumped(u)))))'
    BY <1>1, <1>6 DEF Sound, Row, Chosen, WithoutRefresh, WithoutCode, Bumped
  <2>3. Sound(NewUser("random", TRUE))'
    BY <1>1, <1>6 DEF Sound, NewUser
  <2>4. NewUser("random", TRUE) \in Row
    BY NewUserIsRow DEF Password
  <2> QED
    BY <2>1, <2>2, <2>3, <2>4
<1>7. /\ WithCode(u) \in Row /\ Chosen(u) \in Row /\ Proven(u) \in Row
      /\ Bumped(Proven(u)) \in Row
      /\ Chosen(WithoutRefresh(WithoutCode(Bumped(u)))) \in Row
  BY AssignedRows
<1>8. CASE RequestOtp(r)
  <2>1. CASE Load(r, WithCode(u), {"otp"}, "sms")
    BY <1>1, <1>2, <1>3, <1>5, <1>7, <1>8, <2>1, LoadKeeps DEF RequestOtp
  <2>2. CASE Create(r, NewUser("random", FALSE), "code")
    BY <1>1, <1>3, <1>4, <1>8, <2>2, CreateKeeps DEF RequestOtp
  <2> QED
    BY <1>8, <2>1, <2>2 DEF RequestOtp
<1>9. CASE ForgotPassword(r)
  BY <1>1, <1>2, <1>3, <1>5, <1>7, <1>9, LoadKeeps DEF ForgotPassword
<1>10. CASE SignupSendOtp(r)
  <2>1. CASE Load(r, u, {}, "code")
    BY <1>1, <1>2, <1>3, <1>5, <1>7, <1>10, <2>1, LoadKeeps DEF SignupSendOtp
  <2>2. CASE Create(r, NewUser("pending", FALSE), "code")
    BY <1>1, <1>3, <1>4, <1>10, <2>2, CreateKeeps DEF SignupSendOtp
  <2> QED
    BY <1>10, <2>1, <2>2 DEF SignupSendOtp
<1>11. CASE SignupVerifyOtp(r)
  BY <1>1, <1>2, <1>3, <1>6, <1>7, <1>11, LoadKeeps DEF SignupVerifyOtp
<1>12. CASE SetPassword(r)
  BY <1>1, <1>2, <1>3, <1>5, <1>7, <1>12, LoadKeeps DEF SetPassword
<1>13. CASE VerifyOtp(r)
  BY <1>1, <1>2, <1>3, <1>6, <1>7, <1>13, LoadKeeps DEF VerifyOtp
<1>14. CASE VerifyFirebase(r)
  <2>1. CASE Load(r, Bumped(Proven(u)), {}, "signIn")
    BY <1>1, <1>2, <1>3, <1>6, <1>7, <1>14, <2>1, LoadKeeps DEF VerifyFirebase
  <2>2. CASE Create(r, NewUser("random", TRUE), "firebase")
    BY <1>1, <1>3, <1>6, <1>14, <2>2, CreateKeeps DEF VerifyFirebase
  <2> QED
    BY <1>14, <2>1, <2>2 DEF VerifyFirebase
<1>15. CASE ResetPassword(r)
  BY <1>1, <1>2, <1>3, <1>6, <1>7, <1>15, LoadKeeps DEF ResetPassword
<1> QED
  BY <1>8, <1>9, <1>10, <1>11, <1>12, <1>13, <1>14, <1>15 DEF ByCode

\* Requests that sign in by password or token, and saves of others.
LEMMA PasswordStep ==
  ASSUME Guarded, NEW r \in Req, ByPassword(r)
  PROVE  Guarded'
<1> PICK u \in Row : u = user
  BY DEF Guarded, SessionsTypeOK
<1>1. /\ Sound(u) /\ wrong \in Nat /\ proved \in BOOLEAN
      /\ u.failed \in Nat /\ u.version = user.version
  BY DEF Guarded, SessionsTypeOK, Row
<1>2. {} \in SUBSET Columns /\ {"refresh"} \in SUBSET Columns
  BY DEF Columns
<1>3. {"tokens", "signIn", "answer", "signOut", "done"} \subseteq Then
  BY DEF Then
<1>4. /\ Bumped(u) \in Row /\ Failed(u) \in Row /\ WithTokens(u) \in Row
      /\ WithoutRefresh(u) \in Row /\ WithTokens(u).version = u.version
      /\ WithoutRefresh(WithoutCode(Bumped(u))) \in Row
  BY AssignedRows
<1>5. ASSUME UNCHANGED <<proved, wrong>>
      PROVE  /\ Sound(u)' /\ Sound(Bumped(u))' /\ Sound(WithTokens(u))'
             /\ Sound(WithoutRefresh(u))'
  BY <1>1, <1>5 DEF Sound, Row, Bumped, WithTokens, WithoutRefresh
<1>6. CASE Register(r)
  <2>1. ASSUME NEW p \in {"pending", "registered"}
        PROVE  NewUser(p, FALSE) \in Row /\ Sound(NewUser(p, FALSE))'
    <3>1. NewUser(p, FALSE) \in Row
      BY NewUserIsRow DEF Password
    <3>2. Sound(NewUser(p, FALSE))'
      BY <1>1, <1>6 DEF Sound, NewUser, Register
    <3> QED
      BY <3>1, <3>2
  <2>2. CASE Create(r, NewUser("registered", FALSE), "done")
    BY <1>1, <1>3, <1>6, <2>1, <2>2, CreateKeeps DEF Register
  <2>3. ASSUME NEW p \in {"pending", "registered"}, Create(r, NewUser(p, FALSE), "tokens")
        PROVE  Guarded'
    BY <1>1, <1>3, <1>6, <2>1, <2>3, CreateKeeps DEF Register
  <2> QED
    BY <1>6, <2>2, <2>3 DEF Register
<1>7. CASE Login(r)
  BY <1>1, <1>2, <1>3, <1>4, <1>5, <1>7, LoadKeeps DEF Login
<1>8. CASE LoginFails(r)
  <2>1. wrong' = wrong + 1 /\ proved' = proved /\ Load(r, Failed(u), {}, "done")
    BY <1>8 DEF LoginFails
  <2>2. Counted(u.failed) \in Nat /\ Counted(u.failed) <= wrong'
    BY <1>1, <2>1 DEF Counted, Sound
  <2>3. /\ Failed(u).failed = Counted(u.failed)
        /\ Failed(u).verified = u.verified /\ Failed(u).password = u.password
        /\ Failed(u).lock = u.lock \/ Counted(u.failed) >= LockAfter
    BY DEF Failed, Row
  <2>4. Sound(Failed(u))'
    BY <1>1, <2>1, <2>2, <2>3 DEF Sound
  <2> QED
    BY <1>1, <1>2, <1>3, <1>4, <2>1, <2>4, LoadKeeps
<1>9. CASE RefreshToken(r)
  BY <1>1, <1>2, <1>3, <1>4, <1>5, <1>9, LoadKeeps DEF RefreshToken
<1>10. CASE Authorize(r)
  BY <1>10, FrameKinds, GotoKeeps DEF Authorize, Good
<1>11. CASE Logout(r)
  <2> PICK f \in Frame : f = Saving(WithoutRefresh(WithoutCode(Bumped(u))), {}, "signOut")
    BY <1>2, <1>3, <1>4, BusyIsFrame DEF Saving
  <2>1. f.pc = "save" /\ f.then = "signOut"
          /\ f.entity = WithoutRefresh(WithoutCode(Bumped(u)))
    BY <1>2, <1>3, <1>4, BusyIsFrame DEF Saving
  <2>2. Sound(WithoutRefresh(WithoutCode(Bumped(u))))
    BY <1>1 DEF Sound, Row, WithoutRefresh, WithoutCode, Bumped
  <2>3. Good(f)
    BY <2>1, <2>2 DEF Good
  <2> QED
    BY <1>11, <2>3, GotoKeeps DEF Logout
<1>12. CASE SaveUser(r)
  <2>1. CASE Load(r, u, {}, "done")
    BY <1>1, <1>2, <1>3, <1>5, <1>12, <2>1, LoadKeeps DEF SaveUser
  <2>2. CASE Load(r, WithoutRefresh(u), {}, "done")
    BY <1>1, <1>2, <1>3, <1>4, <1>5, <1>12, <2>2, LoadKeeps DEF SaveUser
  <2> QED
    BY <1>12, <2>1, <2>2 DEF SaveUser
<1> QED
  BY <1>6, <1>7, <1>8, <1>9, <1>10, <1>11, <1>12 DEF ByPassword

LEMMA GuardedStep == Guarded /\ [Next]_vars => Guarded'
<1> SUFFICES ASSUME Guarded, [Next]_vars PROVE Guarded'
  OBVIOUS
<1>1. ASSUME NEW r \in CodeReq, ByCode(r) PROVE Guarded'
  BY <1>1, CodeStep DEF Req
<1>2. ASSUME NEW r \in PassReq, ByPassword(r) PROVE Guarded'
  BY <1>2, PasswordStep DEF Req
<1>3. ASSUME NEW r \in Req, Abort(r) PROVE Guarded'
  BY <1>3, FrameKinds, GotoKeeps DEF Abort, Good, Idle
<1>4. CASE UNCHANGED vars
  <2>1. Guarded' = Guarded
    BY <1>4 DEF Guarded, SessionsTypeOK, Sound, Good, vars
  <2> QED
    BY <2>1
<1> QED
  BY <1>1, <1>2, <1>3, <1>4, InsertStep, SaveReadStep, SaveWriteStep, SendStep,
     LockoutPassesStep DEF Next

\* The invariant holds in every state.
THEOREM AlwaysGuarded == Spec => []Guarded
  BY GuardedInit, GuardedStep, PTL DEF Spec

\* The row, the frames and the histories have their types.
THEOREM SessionsTypeCorrect == Spec => []SessionsTypeOK
<1>1. Guarded => SessionsTypeOK
  BY DEF Guarded
<1> QED
  BY <1>1, AlwaysGuarded, PTL

\* However the counts of failed attempts are overwritten, a lock stands for as
\* many wrong passwords.
THEOREM LockNeedsFailures == Spec => []LockedAfterFailures
<1>1. Guarded => LockedAfterFailures
  BY DEF Guarded, Sound, LockedAfterFailures
<1> QED
  BY <1>1, AlwaysGuarded, PTL

\* Every token handed out carries a version that the row had before.
THEOREM TokensWereStored == Spec => []NoFutureTokens
<1>1. Guarded => NoFutureTokens
  BY DEF Guarded, NoFutureTokens
<1> QED
  BY <1>1, AlwaysGuarded, PTL

\* No interleaving of the handlers verifies an account or chooses its password
\* before its phone or email was proved.
THEOREM PasswordsAreProved == Spec => []ProofBehindPassword
<1>1. Guarded => ProofBehindPassword
  BY DEF Guarded, Sound, ProofBehindPassword
<1> QED
  BY <1>1, AlwaysGuarded, PTL

-----------------------------------------------------------------------------
\* Going back of the version.  The history variable late holds the requests that
\* had loaded the account when the save of another one raised the version, until
\* they are done.
VARIABLE late

InHand(f) == f.pc \notin {"idle", "authorized"}

LateNext ==
  late' = {s \in Req : /\ InHand(req'[s])
                       /\ \/ s \in late
                          \/ user'.version > user.version /\ req'[s] = req[s]}

LateSpec == Init /\ late = {} /\ [][Next /\ LateNext]_<<vars, late>>

\* "Bump version to invalidate all accessTokens immediately": the version goes back,
\* and a token that was left behind with it, only in the save of a request that had
\* the account in hand while another one raised the version.
BackOnlyByLate ==
  [][user'.version < user.version => \E r \in late : SaveWrite(r)]_<<vars, late>>

\* What a request carries; on time, it is not behind the row.
Forward(f, onTime) ==
  /\ f.pc \notin {"idle", "insert"} => Exists
  /\ f.pc = "insert" => f.entity.version = 0
  /\ InHand(f) => f.entity.password # "absent"
  /\ InHand(f) /\ onTime => f.entity.version >= user.version

Ahead(r, onTime) ==
  /\ ~Exists => user.version = 0 /\ issued = {}
  /\ Forward(req[r], onTime)

\* A step of the row or of request r, and where it leaves the two.
Ascends == user'.version >= user.version

LEMMA AssignedPasswords ==
  ASSUME NEW e \in Row
  PROVE  /\ WithCode(e).password = e.password
         /\ WithoutCode(e).password = e.password
         /\ WithoutRefresh(e).password = e.password
         /\ Chosen(e).password = "chosen"
         /\ Bumped(e).password = e.password
         /\ Proven(e).password = e.password
         /\ WithTokens(e).password = e.password
         /\ Past(e).password = e.password
         /\ Failed(e).password = e.password
<1>1. /\ WithCode(e).password = e.password
      /\ WithoutCode(e).password = e.password
      /\ WithoutRefresh(e).password = e.password
  BY DEF Row, WithCode, WithoutCode, WithoutRefresh
<1>2. Chosen(e).password = "chosen" /\ Bumped(e).password = e.password
  BY DEF Row, Chosen, Bumped
<1>3. Proven(e).password = e.password /\ WithTokens(e).password = e.password
  BY DEF Row, Proven, WithoutCode, WithTokens
<1>4. Past(e).password = e.password /\ Failed(e).password = e.password
  BY DEF Row, Past, Failed
<1> QED
  BY <1>1, <1>2, <1>3, <1>4

\* A handler that loads the user keeps its version or raises it.
LEMMA LoadAhead ==
  ASSUME SessionsTypeOK, NEW r \in Req, NEW onTime \in BOOLEAN, Ahead(r, onTime), NEW e \in Row,
         NEW fresh \in SUBSET Columns, NEW then \in Then, Load(r, e, fresh, then),
         e.version >= user.version, e.password # "absent"
  PROVE  Ahead(r, onTime)' /\ (onTime => Ascends)
<1> PICK f \in Frame : f = Saving(e, fresh, then)
  BY BusyIsFrame DEF Saving
<1>1. f.pc = "save" /\ f.entity = e
  BY BusyIsFrame DEF Saving
<1>2. req'[r] = f /\ user' = user /\ issued' = issued /\ Exists
  BY DEF Load, SessionsTypeOK
<1>3. user.version \in Nat
  BY DEF SessionsTypeOK, Row
<1>4. Ascends
  BY <1>2, <1>3 DEF Ascends
<1>5. Forward(req[r], onTime)'
  BY <1>1, <1>2 DEF InHand, Forward, Exists
<1> QED
  BY <1>2, <1>4, <1>5 DEF Ahead, Exists

\* One that finds nobody starts from version 0, that of no row.
LEMMA CreateAhead ==
  ASSUME SessionsTypeOK, NEW r \in Req, NEW onTime \in BOOLEAN, Ahead(r, onTime), NEW e \in Row,
         NEW then \in Then, Create(r, e, then), e.version = 0, e.password # "absent"
  PROVE  Ahead(r, onTime)' /\ (onTime => Ascends)
<1> PICK f \in Frame : f = Busy("insert", e, {}, then)
  BY BusyIsFrame
<1>1. f.pc = "insert" /\ f.entity = e
  BY BusyIsFrame
<1>2. req'[r] = f /\ user' = user /\ issued' = issued /\ ~Exists
  BY DEF Create, SessionsTypeOK
<1>3. user.version = 0
  BY <1>2 DEF Ahead
<1>4. Ascends
  BY <1>2, <1>3 DEF Ascends
<1>5. Forward(req[r], onTime)'
  BY <1>1, <1>2, <1>3 DEF InHand, Forward, Exists
<1> QED
  BY <1>2, <1>4, <1>5 DEF Ahead, Exists

\* What a handler goes on with keeps the version it saved, or raises it.
LEMMA ContinueAhead ==
  ASSUME NEW e \in Row, NEW then \in Then, e.password # "absent",
         NEW f, f = Continue(e, then)
  PROVE  /\ f.pc \in {"idle", "save", "send"}
         /\ f.pc # "idle" => f.entity.version >= e.version /\ f.entity.password # "absent"
<1> USE DEF Saving
<1>1. {"otp"} \in SUBSET Columns /\ {"refresh"} \in SUBSET Columns /\ {} \in SUBSET Columns
  BY DEF Columns
<1>2. {"sms", "done", "signIn", "answer"} \subseteq Then
  BY DEF Then
<1>3. e.version \in Nat
  BY DEF Row
<1>4. CASE f = Idle
  BY <1>4 DEF Idle
<1>5. CASE f = Saving(WithCode(e), {"otp"}, "sms")
  <2>1. WithCode(e) \in Row /\ WithCode(e).version = e.version
    BY AssignedRows
  <2>2. WithCode(e).password = e.password
    BY AssignedPasswords
  <2> QED
    BY <1>1, <1>2, <1>3, <1>5, <2>1, <2>2, BusyIsFrame
<1>6. CASE f = Busy("send", e, {}, "done")
  BY <1>1, <1>2, <1>3, <1>6, BusyIsFrame
<1>7. CASE f = Saving(Bumped(Proven(e)), {}, "signIn")
  <2> PICK p \in Row : p = Proven(e) /\ p.version = e.version
    BY AssignedRows
  <2>1. p.password = e.password
    BY AssignedPasswords
  <2>2. Bumped(p) \in Row /\ Bumped(p).version = e.version + 1
    BY AssignedRows
  <2>3. Bumped(p).password = e.password
    BY <2>1, AssignedPasswords
  <2> QED
    BY <1>1, <1>2, <1>3, <1>7, <2>2, <2>3, BusyIsFrame
<1>8. CASE f = Saving(WithTokens(e), {"refresh"}, "answer")
  <2>1. WithTokens(e) \in Row /\ WithTokens(e).version = e.version
    BY AssignedRows
  <2>2. WithTokens(e).password = e.password
    BY AssignedPasswords
  <2> QED
    BY <1>1, <1>2, <1>3, <1>8, <2>1, <2>2, BusyIsFrame
<1> QED
  BY <1>4, <1>5, <1>6, <1>7, <1>8, ContinueKinds

\* The end of an insert or a save.
LEMMA FinishAhead ==
  ASSUME SessionsTypeOK, NEW r \in Req, NEW onTime \in BOOLEAN, Ahead(r, onTime), NEW e \in Row, NEW then \in Then,
         Finish(r, e, then), e.password # "absent", Exists', user'.version \in Nat,
         onTime => e.version >= user'.version /\ user'.version >= user.version
  PROVE  Ahead(r, onTime)' /\ (onTime => Ascends)
<1> PICK f \in Frame : f = Continue(e, then)
  BY ContinueIsFrame
<1>1. req'[r] = f
  BY DEF Finish, SessionsTypeOK
<1>2. /\ f.pc \in {"idle", "save", "send"}
      /\ f.pc # "idle" => f.entity.version >= e.version /\ f.entity.password # "absent"
  BY ContinueAhead
<1>3. Forward(req[r], onTime)'
  <2>1. f.entity.version \in Nat \/ f.pc = "idle"
    BY <1>2, FrameKinds DEF BusyFrame, Row
  <2>2. e.version \in Nat
    BY DEF Row
  <2> QED
    BY <1>1, <1>2, <2>1, <2>2 DEF InHand, Forward
<1> QED
  BY <1>3 DEF Ahead, Ascends

LEMMA StoreAhead ==
  ASSUME SessionsTypeOK, NEW r \in Req, NEW onTime \in BOOLEAN, Ahead(r, onTime),
         Insert(r) \/ SaveRead(r) \/ SaveWrite(r)
  PROVE  Ahead(r, onTime)' /\ (onTime => Ascends)
<1> PICK q \in BusyFrame : q = req[r]
  BY FrameKinds DEF Insert, SaveRead, SaveWrite, SessionsTypeOK
<1>1. /\ q.entity \in Row /\ q.then \in Then /\ q.cols \in SUBSET Columns
      /\ q.entity.version \in Nat /\ user.version \in Nat
  BY DEF BusyFrame, Row, SessionsTypeOK
<1>2. /\ q.entity.password # "absent"
      /\ onTime => q.entity.version >= user.version
      /\ q.pc # "insert" => Exists
      /\ q.pc = "insert" => q.entity.version = 0
  BY FrameKinds DEF Ahead, InHand, Forward
<1>3. ASSUME user' = user, issued' = issued, req'[r].pc = "idle"
      PROVE  Ahead(r, onTime)' /\ (onTime => Ascends)
  BY <1>1, <1>3 DEF Ahead, InHand, Forward, Ascends, Exists
<1>4. CASE Insert(r)
  <2>1. CASE Exists
    BY <1>3, <1>4, <2>1 DEF Insert, SessionsTypeOK, Idle
  <2>2. CASE ~Exists
    <3>1. user' = q.entity /\ Finish(r, q.entity, q.then)
      BY <1>4, <2>2 DEF Insert
    <3>2. Exists' /\ user'.version = q.entity.version
      BY <1>2, <3>1 DEF Exists
    <3> QED
      BY <1>1, <1>2, <3>1, <3>2, FinishAhead
  <2> QED
    BY <2>1, <2>2
<1>5. CASE SaveRead(r)
  <2> PICK cols \in SUBSET Columns :
        cols = q.cols \cup {c \in Columns : q.entity[c] # user[c]}
    BY <1>1
  <2>2. user' = user /\ q.pc = "save" /\ Exists /\ Exists'
    BY <1>2, <1>5 DEF SaveRead, rowVars, Exists
  <2>3. CASE cols = {}
    <3>1. Finish(r, q.entity, q.then)
      BY <1>5, <2>3 DEF SaveRead
    <3> QED
      BY <1>1, <1>2, <2>2, <3>1, FinishAhead
  <2>4. CASE cols # {}
    <3> PICK f \in Frame : f = Busy("write", q.entity, cols, q.then)
      BY <1>1, BusyIsFrame
    <3>1. f.pc = "write" /\ f.entity = q.entity /\ f.cols = cols
      BY <1>1, BusyIsFrame
    <3>2. req'[r] = f /\ issued' = issued
      BY <1>5, <2>4 DEF SaveRead, SessionsTypeOK
    <3>3. Forward(req[r], onTime)'
      BY <1>2, <2>2, <3>1, <3>2 DEF InHand, Forward
    <3> QED
      BY <1>1, <2>2, <3>2, <3>3 DEF Ahead, Ascends
  <2> QED
    BY <2>3, <2>4
<1>6. CASE SaveWrite(r)
  <2>1. user' = Written(q) /\ Finish(r, q.entity, q.then) /\ q.pc = "write"
    BY <1>6 DEF SaveWrite
  <2>2. user'.version \in {user.version, q.entity.version}
    BY <2>1 DEF Written
  <2>3. Exists'
    BY <1>2, <2>1 DEF Written, Exists
  <2> QED
    BY <1>1, <1>2, <2>1, <2>2, <2>3, FinishAhead
<1> QED
  BY <1>4, <1>5, <1>6

\* What a request by code assigns to the version: nothing, or one more.
LEMMA CodeAhead ==
  ASSUME SessionsTypeOK, NEW r \in Req, NEW onTime \in BOOLEAN, Ahead(r, onTime), ByCode(r)
  PROVE  Ahead(r, onTime)' /\ (onTime => Ascends)
<1> PICK u \in Row : u = user
  BY DEF SessionsTypeOK
<1>1. {"otp"} \in SUBSET Columns /\ {"password"} \in SUBSET Columns /\ {} \in SUBSET Columns
  BY DEF Columns
<1>2. {"sms", "code", "signup", "tokens", "signIn", "firebase", "signOut"} \subseteq Then
  BY DEF Then
<1>3. u.version \in Nat /\ u.version >= user.version
  BY DEF Row
<1>4. ASSUME Exists
      PROVE  /\ u.password # "absent" /\ WithCode(u).password # "absent"
             /\ Chosen(u).password # "absent" /\ Proven(u).password # "absent"
             /\ Bumped(Proven(u)).password # "absent"
             /\ Chosen(WithoutRefresh(WithoutCode(Bumped(u)))).password # "absent"
  BY <1>4, AssignedRows, AssignedPasswords DEF Exists
<1>5. /\ WithCode(u) \in Row /\ WithCode(u).version >= user.version
      /\ Chosen(u) \in Row /\ Chosen(u).version >= user.version
      /\ Proven(u) \in Row /\ Proven(u).version >= user.version
      /\ Bumped(Proven(u)) \in Row /\ Bumped(Proven(u)).version >= user.version
      /\ Chosen(WithoutRefresh(WithoutCode(Bumped(u)))) \in Row
      /\ Chosen(WithoutRefresh(WithoutCode(Bumped(u)))).version >= user.version
  BY <1>3, AssignedRows
<1>6. ASSUME NEW p \in {"random", "pending"}, NEW b \in BOOLEAN
      PROVE  /\ NewUser(p, b) \in Row /\ NewUser(p, b).version = 0
             /\ NewUser(p, b).password # "absent"
  BY NewUserIsRow DEF Password, NewUser
<1>7. CASE RequestOtp(r)
  <2>1. CASE Load(r, WithCode(u), {"otp"}, "sms")
    BY <1>1, <1>2, <1>4, <1>5, <2>1, LoadAhead DEF Load
  <2>2. CASE Create(r, NewUser("random", FALSE), "code")
    BY <1>2, <1>6, <2>2, CreateAhead
  <2> QED
    BY <1>7, <2>1, <2>2 DEF RequestOtp
<1>8. CASE ForgotPassword(r)
  BY <1>1, <1>2, <1>4, <1>5, <1>8, LoadAhead DEF ForgotPassword, Load
<1>9. CASE SignupSendOtp(r)
  <2>1. CASE Load(r, u, {}, "code")
    BY <1>1, <1>2, <1>3, <1>4, <2>1, LoadAhead DEF Load
  <2>2. CASE Create(r, NewUser("pending", FALSE), "code")
    BY <1>2, <1>6, <2>2, CreateAhead
  <2> QED
    BY <1>9, <2>1, <2>2 DEF SignupSendOtp
<1>10. CASE SignupVerifyOtp(r)
  BY <1>1, <1>2, <1>4, <1>5, <1>10, LoadAhead DEF SignupVerifyOtp, Load
<1>11. CASE SetPassword(r)
  BY <1>1, <1>2, <1>4, <1>5, <1>11, LoadAhead DEF SetPassword, Load
<1>12. CASE VerifyOtp(r)
  BY <1>1, <1>2, <1>4, <1>5, <1>12, LoadAhead DEF VerifyOtp, Load
<1>13. CASE VerifyFirebase(r)
  <2>1. CASE Load(r, Bumped(Proven(u)), {}, "signIn")
    BY <1>1, <1>2, <1>4, <1>5, <2>1, LoadAhead DEF Load
  <2>2. CASE Create(r, NewUser("random", TRUE), "firebase")
    BY <1>2, <1>6, <2>2, CreateAhead
  <2> QED
    BY <1>13, <2>1, <2>2 DEF VerifyFirebase
<1>14. CASE ResetPassword(r)
  BY <1>1, <1>2, <1>4, <1>5, <1>14, LoadAhead DEF ResetPassword, Load
<1> QED
  BY <1>7, <1>8, <1>9, <1>10, <1>11, <1>12, <1>13, <1>14 DEF ByCode

LEMMA PasswordAhead ==
  ASSUME SessionsTypeOK, NEW r \in Req, NEW onTime \in BOOLEAN, Ahead(r, onTime), ByPassword(r)
  PROVE  Ahead(r, onTime)' /\ (onTime => Ascends)
<1> PICK u \in Row : u = user
  BY DEF SessionsTypeOK
<1>1. {} \in SUBSET Columns /\ {"refresh"} \in SUBSET Columns
  BY DEF Columns
<1>2. {"tokens", "signIn", "answer", "signOut", "done"} \subseteq Then
  BY DEF Then
<1>3. u.version \in Nat /\ u.version >= user.version
  BY DEF Row
<1>4. ASSUME Exists
      PROVE  /\ u.password # "absent" /\ Bumped(u).password # "absent"
             /\ Failed(u).password # "absent" /\ WithTokens(u).password # "absent"
             /\ WithoutRefresh(u).password # "absent"
             /\ WithoutRefresh(WithoutCode(Bumped(u))).password # "absent"
  <2>1. /\ u.password # "absent" /\ Bumped(u).password # "absent"
        /\ Failed(u).password # "absent" /\ WithTokens(u).password # "absent"
        /\ WithoutRefresh(u).password # "absent"
    BY <1>4, AssignedPasswords DEF Exists
  <2>2. WithoutRefresh(WithoutCode(Bumped(u))).password = u.password
    BY DEF Row, WithoutRefresh, WithoutCode, Bumped
  <2> QED
    BY <1>4, <2>1, <2>2 DEF Exists
<1>5. /\ Bumped(u) \in Row /\ Bumped(u).version >= user.version
      /\ Failed(u) \in Row /\ Failed(u).version >= user.version
      /\ WithTokens(u) \in Row /\ WithTokens(u).version >= user.version
      /\ WithoutRefresh(u) \in Row /\ WithoutRefresh(u).version >= user.version
      /\ WithoutRefresh(WithoutCode(Bumped(u))) \in Row
      /\ WithoutRefresh(WithoutCode(Bumped(u))).version >= user.version
  BY <1>3, AssignedRows
<1>6. CASE Register(r)
  <2>1. ASSUME NEW p \in {"pending", "registered"}
        PROVE  /\ NewUser(p, FALSE) \in Row /\ NewUser(p, FALSE).version = 0
               /\ NewUser(p, FALSE).password # "absent"
    BY NewUserIsRow DEF Password, NewUser
  <2>2. CASE Create(r, NewUser("registered", FALSE), "done")
    BY <1>2, <2>1, <2>2, CreateAhead
  <2>3. ASSUME NEW p \in {"pending", "registered"}, Create(r, NewUser(p, FALSE), "tokens")
        PROVE  Ahead(r, onTime)' /\ (onTime => Ascends)
    BY <1>2, <2>1, <2>3, CreateAhead
  <2> QED
    BY <1>6, <2>2, <2>3 DEF Register
<1>7. CASE Login(r)
  BY <1>1, <1>2, <1>4, <1>5, <1>7, LoadAhead DEF Login, Load
<1>8. CASE LoginFails(r)
  BY <1>1, <1>2, <1>4, <1>5, <1>8, LoadAhead DEF LoginFails, Load
<1>9. CASE RefreshToken(r)
  BY <1>1, <1>2, <1>4, <1>5, <1>9, LoadAhead DEF RefreshToken, Load
<1>10. CASE Authorize(r)
  <2>1. Exists
    BY <1>10 DEF Authorize, Accepted, Ahead
  <2>2. /\ req'[r] = [pc |-> "authorized"] /\ user' = user /\ issued' = issued
    BY <1>10 DEF Authorize, SessionsTypeOK, rowVars, history
  <2> QED
    BY <1>3, <2>1, <2>2 DEF Ahead, InHand, Forward, Ascends, Exists
<1>11. CASE Logout(r)
  <2> PICK f \in Frame : f = Saving(WithoutRefresh(WithoutCode(Bumped(u))), {}, "signOut")
    BY <1>1, <1>2, <1>5, BusyIsFrame DEF Saving
  <2>1. f.pc = "save" /\ f.entity = WithoutRefresh(WithoutCode(Bumped(u)))
    BY <1>1, <1>2, <1>5, BusyIsFrame DEF Saving
  <2>2. Exists
    BY <1>11 DEF Logout, Ahead, InHand, Forward
  <2>3. req'[r] = f /\ user' = user /\ issued' = issued
    BY <1>11 DEF Logout, SessionsTypeOK, rowVars, history
  <2>4. Forward(req[r], onTime)'
    BY <1>4, <1>5, <2>1, <2>2, <2>3 DEF InHand, Forward, Exists
  <2> QED
    BY <1>3, <2>3, <2>4 DEF Ahead, Ascends, Exists
<1>12. CASE SaveUser(r)
  <2>1. CASE Load(r, u, {}, "done")
    BY <1>1, <1>2, <1>3, <1>4, <2>1, LoadAhead DEF Load
  <2>2. CASE Load(r, WithoutRefresh(u), {}, "done")
    BY <1>1, <1>2, <1>4, <1>5, <2>2, LoadAhead DEF Load
  <2> QED
    BY <1>12, <2>1, <2>2 DEF SaveUser
<1> QED
  BY <1>6, <1>7, <1>8, <1>9, <1>10, <1>11, <1>12 DEF ByPassword

\* The other steps: the code is sent, the clock, a request that stops.
LEMMA OtherAhead ==
  ASSUME SessionsTypeOK, NEW r \in Req, NEW onTime \in BOOLEAN, Ahead(r, onTime),
         Send(r) \/ Abort(r) \/ LockoutPasses \/ UNCHANGED vars
  PROVE  Ahead(r, onTime)' /\ (onTime => Ascends)
<1> PICK q \in Frame : q = req[r]
  BY DEF SessionsTypeOK
<1>1. user.version \in Nat /\ user \in Row
  BY DEF SessionsTypeOK, Row
<1>2. ASSUME user' = user, issued' = issued, req'[r].pc = "idle"
      PROVE  Ahead(r, onTime)' /\ (onTime => Ascends)
  BY <1>1, <1>2 DEF Ahead, InHand, Forward, Ascends, Exists
<1>3. CASE Send(r)
  <2>1. q \in BusyFrame /\ q.entity \in Row /\ Exists
    BY <1>3, FrameKinds DEF Send, BusyFrame, Ahead, InHand, Forward
  <2> PICK f \in Frame : f = Saving(WithoutCode(q.entity), {}, "done")
    BY <2>1, AssignedRows, BusyIsFrame DEF Saving, Columns, Then
  <2>2. {} \in SUBSET Columns /\ "done" \in Then
    BY DEF Then
  <2>3. f.pc = "save" /\ f.entity = WithoutCode(q.entity)
    BY <2>1, <2>2, AssignedRows, BusyIsFrame DEF Saving
  <2>4. user' = user /\ issued' = issued /\ (req'[r] = Idle \/ req'[r] = f)
    BY <1>3 DEF Send, SessionsTypeOK, rowVars, history
  <2>5. /\ WithoutCode(q.entity).version = q.entity.version
        /\ WithoutCode(q.entity).password = q.entity.password
    BY <2>1, AssignedRows, AssignedPasswords
  <2>6. CASE req'[r] = f
    <3>1. (onTime => q.entity.version >= user.version) /\ q.entity.password # "absent"
      BY <2>1, FrameKinds DEF Ahead, InHand, Forward
    <3>2. Forward(req[r], onTime)'
      BY <2>1, <2>3, <2>4, <2>5, <2>6, <3>1 DEF InHand, Forward, Exists
    <3> QED
      BY <1>1, <2>4, <3>2 DEF Ahead, Ascends, Exists
  <2>7. CASE req'[r] = Idle
    BY <1>2, <2>4, <2>7 DEF Idle
  <2> QED
    BY <2>4, <2>6, <2>7
<1>4. CASE Abort(r)
  BY <1>2, <1>4 DEF Abort, SessionsTypeOK, rowVars, history, Idle
<1>5. CASE LockoutPasses
  <2>1. user' = Past(user) /\ issued' = issued
    BY <1>5 DEF LockoutPasses, history
  <2>2. user'.version = user.version /\ user'.password = user.password
    BY <1>1, <2>1, AssignedRows, AssignedPasswords
  <2>3. CASE q.pc \in {"idle", "authorized"}
    <3>1. req'[r] = q
      BY <1>5, <2>3 DEF LockoutPasses
    <3> QED
      BY <1>1, <2>1, <2>2, <2>3, <3>1 DEF Ahead, InHand, Forward, Ascends, Exists
  <2>4. CASE q.pc \notin {"idle", "authorized"}
    <3>1. q \in BusyFrame /\ q.entity \in Row
      BY <2>4, FrameKinds DEF BusyFrame
    <3>2. req'[r] = [q EXCEPT !.entity = Past(q.entity)]
      BY <1>5, <2>4 DEF LockoutPasses
    <3> PICK f : f = [q EXCEPT !.entity = Past(q.entity)]
      OBVIOUS
    <3>3. /\ f.entity = Past(q.entity) /\ f.pc = q.pc /\ f.cols = q.cols
      BY <3>1 DEF BusyFrame
    <3>4. /\ Past(q.entity).version = q.entity.version
          /\ Past(q.entity).password = q.entity.password
      BY <3>1, AssignedRows, AssignedPasswords
    <3>5. Forward(q, onTime) /\ req'[r] = f
      BY <3>2 DEF Ahead
    <3>6. Forward(req[r], onTime)'
      BY <2>2, <3>3, <3>4, <3>5 DEF InHand, Forward, Exists
    <3> QED
      BY <1>1, <2>1, <2>2, <3>6 DEF Ahead, Ascends, Exists
  <2> QED
    BY <2>3, <2>4
<1>6. CASE UNCHANGED vars
  BY <1>1, <1>6 DEF Ahead, InHand, Forward, Ascends, Exists, vars
<1> QED
  BY <1>3, <1>4, <1>5, <1>6

\* A step of one request: what it does to the row and to the others.
LEMMA OneMoves ==
  ASSUME SessionsTypeOK, NEW r \in Req, Ahead(r, FALSE),
         \/ ByCode(r) \/ ByPassword(r)
         \/ Insert(r) \/ SaveRead(r) \/ SaveWrite(r) \/ Send(r) \/ Abort(r)
  PROVE  /\ \A s \in Req : s # r => req'[s] = req[s]
         /\ Exists => Exists'
         /\ user'.version < user.version => SaveWrite(r)
<1> USE DEF SessionsTypeOK, Finish, rowVars, history
<1>1. user.version \in Nat
  BY DEF Row
<1>2. CASE ByCode(r) \/ ByPassword(r)
  <2>1. user' = user /\ \E f : req' = [req EXCEPT ![r] = f]
    BY <1>2 DEF ByCode, ByPassword, RequestOtp, ForgotPassword, SignupSendOtp,
         SignupVerifyOtp, SetPassword, VerifyOtp, VerifyFirebase, ResetPassword,
         Register, Login, LoginFails, RefreshToken, Authorize, Logout, SaveUser,
         Load, Create
  <2> QED
    BY <1>1, <2>1 DEF Exists
<1>3. CASE SaveRead(r) \/ Send(r) \/ Abort(r)
  <2>1. user' = user /\ \E f : req' = [req EXCEPT ![r] = f]
    BY <1>3 DEF SaveRead, Send, Abort
  <2> QED
    BY <1>1, <2>1 DEF Exists
<1>4. CASE Insert(r)
  <2>1. \E f : req' = [req EXCEPT ![r] = f]
    BY <1>4 DEF Insert
  <2>2. CASE Exists
    <3>1. user' = user
      BY <1>4, <2>2 DEF Insert
    <3> QED
      BY <1>1, <2>1, <3>1 DEF Exists
  <2>3. CASE ~Exists
    <3>1. user' = req[r].entity /\ user'.version = 0 /\ user.version = 0
      BY <1>4, <2>3 DEF Insert, Ahead, InHand, Forward
    <3> QED
      BY <2>1, <2>3, <3>1
  <2> QED
    BY <2>2, <2>3
<1>5. CASE SaveWrite(r)
  <2>1. /\ user' = Written(req[r]) /\ req[r].pc = "write"
        /\ \E f : req' = [req EXCEPT ![r] = f]
    BY <1>5 DEF SaveWrite
  <2>3. user'.password \in {user.password, req[r].entity.password}
    BY <2>1 DEF Written
  <2>4. req[r].entity.password # "absent"
    BY <2>1 DEF Ahead, InHand, Forward
  <2> QED
    BY <1>5, <2>1, <2>3, <2>4 DEF Exists
<1> QED
  BY <1>2, <1>3, <1>4, <1>5

\* ... so a request is left behind only if it had the account in hand, which makes
\* it late.
LEMMA OthersAhead ==
  ASSUME SessionsTypeOK, SessionsTypeOK', LateNext, NEW r \in Req, NEW s \in Req, s # r,
         Ahead(r, FALSE), Ahead(r, FALSE)', Ahead(s, FALSE), s \in late \/ Ahead(s, TRUE),
         \/ ByCode(r) \/ ByPassword(r)
         \/ Insert(r) \/ SaveRead(r) \/ SaveWrite(r) \/ Send(r) \/ Abort(r)
  PROVE  Ahead(s, FALSE)' /\ (s \in late' \/ Ahead(s, TRUE)')
<1>1. req'[s] = req[s] /\ (Exists => Exists')
  BY OneMoves
<1> PICK q \in Frame : q = req[s]
  BY DEF SessionsTypeOK
<1>2. Ahead(s, FALSE)'
  BY <1>1 DEF Ahead, InHand, Forward
<1>3. CASE ~InHand(q)
  <2>1. Ahead(s, TRUE)'
    BY <1>1, <1>2, <1>3 DEF Ahead, Forward
  <2> QED
    BY <1>2, <2>1
<1>4. CASE InHand(q) /\ (s \in late \/ user'.version > user.version)
  <2>1. s \in late'
    BY <1>1, <1>4 DEF LateNext
  <2> QED
    BY <1>2, <2>1
<1>5. CASE InHand(q) /\ s \notin late /\ ~(user'.version > user.version)
  <2>1. /\ user.version \in Nat /\ user'.version \in Nat
        /\ q.entity.version \in Nat
    BY <1>5, FrameKinds DEF SessionsTypeOK, Row, InHand, BusyFrame
  <2>2. q.entity.version >= user.version
    BY <1>5 DEF Ahead, Forward
  <2>3. q.entity.version >= user'.version
    BY <1>5, <2>1, <2>2
  <2>4. Ahead(s, TRUE)'
    BY <1>1, <1>2, <2>3 DEF Ahead, Forward
  <2> QED
    BY <1>2, <2>4
<1> QED
  BY <1>3, <1>4, <1>5

\* However many requests of an account overlap and die, the version goes back only
\* in the save of a late one.  (That such a save brings a token back: the run of
\* KickedStayOut.)
THEOREM SessionsEnd == LateSpec => BackOnlyByLate
<1> DEFINE AllAhead == /\ \A s \in Req : Ahead(s, FALSE)
                       /\ \A s \in Req : s \in late \/ Ahead(s, TRUE)
<1>1. Init => AllAhead
  <2> SUFFICES ASSUME Init, NEW r \in Req PROVE Ahead(r, TRUE) /\ Ahead(r, FALSE)
    OBVIOUS
  <2>1. req[r] = Idle /\ issued = {}
    BY DEF Init
  <2>2. user.version = 0 /\ user.password = "absent"
    BY DEF Init, NewUser
  <2> QED
    BY <2>1, <2>2 DEF Ahead, InHand, Forward, Idle
<1>2. SessionsTypeOK /\ SessionsTypeOK' /\ AllAhead /\ Next /\ LateNext
      => AllAhead' /\ (user'.version < user.version => \E r \in late : SaveWrite(r))
  <2> SUFFICES ASSUME SessionsTypeOK, SessionsTypeOK', AllAhead, Next, LateNext
               PROVE  /\ AllAhead'
                      /\ user'.version < user.version => \E r \in late : SaveWrite(r)
    OBVIOUS
  <2>0. user.version \in Nat /\ user'.version \in Nat
    BY DEF SessionsTypeOK, Row
  <2>1. ASSUME NEW r \in Req,
               \/ ByCode(r) \/ ByPassword(r)
               \/ Insert(r) \/ SaveRead(r) \/ SaveWrite(r) \/ Send(r) \/ Abort(r)
        PROVE  /\ AllAhead'
               /\ user'.version < user.version => \E t \in late : SaveWrite(t)
    <3>1. ASSUME NEW b \in BOOLEAN, Ahead(r, b) PROVE Ahead(r, b)' /\ (b => Ascends)
      BY <2>1, <3>1, CodeAhead, PasswordAhead, StoreAhead, OtherAhead
    <3>2. Ahead(r, FALSE)' /\ (r \in late \/ (Ahead(r, TRUE)' /\ Ascends))
      BY <3>1
    <3>3. r \in late' \/ Ahead(r, TRUE)'
      BY <3>2 DEF LateNext, Ahead, Forward
    <3>4. ASSUME NEW s \in Req, s # r
          PROVE  Ahead(s, FALSE)' /\ (s \in late' \/ Ahead(s, TRUE)')
      BY <2>1, <3>2, <3>4, OthersAhead
    <3>5. user'.version < user.version => SaveWrite(r)
      BY <2>1, OneMoves
    <3>6. r \in late \/ Ascends
      BY <3>2
    <3>7. user'.version < user.version => r \in late
      BY ONLY <2>0, <3>6 DEF Ascends
    <3> QED
      BY <3>2, <3>3, <3>4, <3>5, <3>7
  <2>2. CASE LockoutPasses
    <3>1. ASSUME NEW s \in Req, NEW b \in BOOLEAN, Ahead(s, b) PROVE Ahead(s, b)'
      BY <2>2, <3>1, OtherAhead
    <3>2. user'.version = user.version
      BY <2>2, AssignedRows DEF LockoutPasses, SessionsTypeOK
    <3>3. ASSUME NEW s \in Req PROVE s \in late' \/ Ahead(s, TRUE)'
      <4>1. Ahead(s, FALSE)'
        BY <3>1
      <4>2. CASE s \in late
        BY <4>1, <4>2 DEF LateNext, Ahead, Forward
      <4>3. CASE s \notin late
        BY <3>1, <4>3
      <4> QED
        BY <4>2, <4>3
    <3>4. ~(user'.version < user.version)
      BY ONLY <2>0, <3>2
    <3>5. \A s \in Req : Ahead(s, FALSE)'
      BY <3>1
    <3> QED
      BY <3>3, <3>4, <3>5
  <2>3. CodeReq \subseteq Req /\ PassReq \subseteq Req
    BY DEF Req
  <2> QED
    BY <2>1, <2>2, <2>3 DEF Next
<1>3. AllAhead /\ UNCHANGED <<vars, late>> => AllAhead'
  BY DEF Ahead, InHand, Forward, Exists, vars
<1>4. LateSpec => Spec
  <2>1. [Next /\ LateNext]_<<vars, late>> => [Next]_vars
    OBVIOUS
  <2> QED
    BY <2>1, PTL DEF LateSpec, Spec
<1> QED
  BY <1>1, <1>2, <1>3, <1>4, SessionsTypeCorrect, PTL DEF LateSpec, BackOnlyByLate
=============================================================================
