------------------------------ MODULE Sessions ------------------------------
(***************************************************************************)
(* Sign-in of one account: AuthService, the check of an access token in    *)
(* JwtStrategy, and the handlers of UsersService that save the same row.   *)
(* Every handler loads the whole user, assigns a few columns and saves it; *)
(* handlers of different accounts share nothing.  Phone and email are one  *)
(* channel here, as the two sign-ups are the same protocol over either.    *)
(*                                                                         *)
(* Hashes are abstracted to what a caller can do with them: a stored code  *)
(* or refresh token is one that somebody holds and may present.  What is   *)
(* presented and not accepted changes nothing and is no action, except a   *)
(* wrong password.  Expiry only refuses, so a holder who comes late is one *)
(* who does not come.  So does isActive (and isBlocked, which no code      *)
(* sets): a deactivated user is one who does not come, and both are left   *)
(* out.                                                                    *)
(***************************************************************************)
EXTENDS Server, Naturals

CONSTANTS
  CodeReq,      \* requests by one-time code in flight together
  PassReq,      \* requests by password or token, and saves of others
  LockAfter,    \* 5 wrong passwords lock the account
  SaneFailures, \* a count above 20 is taken for corrupt
  MaxVersion,   \* bound: token versions (the reset above a billion is beyond it)
  MaxWrong      \* bound: wrong passwords given

ASSUME LockAssumption == LockAfter \in Nat /\ SaneFailures \in Nat
ASSUME SessionBoundsAssumption == MaxVersion \in Nat /\ MaxWrong \in Nat

VARIABLES
  user,    \* the row of the account
  req,     \* the locals of each request
  signup,  \* a signupToken was handed out
  proved,  \* history: a one-time code (or Firebase) ever proved the channel
  wrong,   \* history: wrong passwords given
  issued,  \* history: versions of the access tokens handed out
  stored   \* history: versions the row has had

Req == CodeReq \cup PassReq

rowVars == <<user, stored>>
history == <<signup, proved, wrong, issued>>
vars == <<user, stored, req, signup, proved, wrong, issued>>

\* absent: no row; pending: null, or the hash that stands for not chosen yet;
\* random: nobody knows it; registered: given with the registration; chosen:
\* after a proof.
Password == {"absent", "pending", "random", "registered", "chosen"}

Row ==
  [password : Password,
   otp      : BOOLEAN,                     \* otpHash
   refresh  : BOOLEAN,                     \* refreshTokenHash
   failed   : Nat,                         \* failedLoginAttempts
   lock     : {"none", "future", "past"},  \* lockoutUntil, against the clock
   version  : Nat,                         \* tokenVersion
   verified : BOOLEAN]                     \* phoneVerified, emailVerified

Columns ==
  {"password", "otp", "refresh", "failed", "lock", "version", "verified"}

\* What a handler does when its save is done.
Then ==
  {"code", "sms", "firebase", "signIn", "signOut", "tokens", "answer", "signup",
   "done"}

\* cols: columns that differ for sure (before the select), that will be written
\* (after it).
Frame ==
  [pc : {"idle", "authorized"}]
    \cup [pc     : {"insert", "send", "save", "write"},
          entity : Row,
          cols   : SUBSET Columns,
          then   : Then]

SessionsTypeOK ==
  /\ user \in Row
  /\ req \in [Req -> Frame]
  /\ signup \in BOOLEAN /\ proved \in BOOLEAN
  /\ wrong \in Nat
  /\ issued \subseteq Nat /\ stored \subseteq Nat

NewUser(password, verified) ==
  [password |-> password, otp |-> FALSE, refresh |-> FALSE, failed |-> 0,
   lock |-> "none", version |-> 0, verified |-> verified]

Idle == [pc |-> "idle"]

Init ==
  /\ user = NewUser("absent", FALSE)
  /\ req = [r \in Req |-> Idle]
  /\ signup = FALSE /\ proved = FALSE
  /\ wrong = 0
  /\ issued = {} /\ stored = {0}

-----------------------------------------------------------------------------
Exists == user.password # "absent"

\* passwordHash is absent or PENDING_PASSWORD_HASH: not registered yet.
Unset == user.password = "pending"

\* JwtStrategy.validate: the token's version is that of the row.
Accepted ==
  user.lock # "future" /\ user.version \in issued

Busy(pc, e, cols, then) ==
  [pc |-> pc, entity |-> e, cols |-> cols, then |-> then]

Saving(e, fresh, then) == Busy("save", e, fresh, then)

\* A code is stored (requestOtp, issueResetOtp) and cleared (clearResetOtp).
WithCode(e) == [e EXCEPT !.otp = TRUE]
WithoutCode(e) == [e EXCEPT !.otp = FALSE]

\* resetPassword, logout, deactivate: nobody can refresh.
WithoutRefresh(e) == [e EXCEPT !.refresh = FALSE]

Chosen(e) == [e EXCEPT !.password = "chosen"]

\* Every sign-in by code or password, sign-out and reset bumps the version.
Bumped(e) == [e EXCEPT !.version = e.version + 1]

\* verifyOtp, its Firebase path, signupVerifyOtp: the code is spent.
Proven(e) == [WithoutCode(e) EXCEPT !.verified = TRUE]

\* generateTokens.
WithTokens(e) == [e EXCEPT !.refresh = TRUE, !.failed = 0, !.lock = "none"]

\* What the handler goes on with when an insert or a save is done.
Continue(e, then) ==
  CASE then = "code" -> Saving(WithCode(e), {"otp"}, "sms")
    [] then = "sms" -> Busy("send", e, {}, "done")
    [] then = "firebase" -> Saving(Bumped(Proven(e)), {}, "signIn")
    [] then \in {"signIn", "tokens"} ->
         Saving(WithTokens(e), {"refresh"}, "answer")
    [] OTHER -> Idle

\* ... and what it has handed out by then.
Finish(r, e, then) ==
  /\ req' = [req EXCEPT ![r] = Continue(e, then)]
  /\ issued' = IF then = "answer" THEN issued \cup {e.version} ELSE issued
  /\ signup' = (signup \/ then = "signup")

\* The load of the user and the assignments up to the first save.
Load(r, e, fresh, then) ==
  /\ req[r].pc = "idle"
  /\ Exists
  /\ req' = [req EXCEPT ![r] = Saving(e, fresh, then)]
  /\ UNCHANGED <<user, signup, issued, stored>>

\* The load that finds nobody, and the insert it leads to.
Create(r, e, then) ==
  /\ req[r].pc = "idle"
  /\ ~Exists
  /\ req' = [req EXCEPT ![r] = Busy("insert", e, {}, then)]
  /\ UNCHANGED <<user, signup, issued, stored>>

-----------------------------------------------------------------------------
\* requestOtp: an unknown phone is registered with a random password.
RequestOtp(r) ==
  /\ \/ Load(r, WithCode(user), {"otp"}, "sms")
     \/ Create(r, NewUser("random", FALSE), "code")
  /\ UNCHANGED <<proved, wrong>>

\* forgotPassword, issueResetOtp: an unknown account gets the same answer.
ForgotPassword(r) ==
  /\ Load(r, WithCode(user), {"otp"}, "sms")
  /\ UNCHANGED <<proved, wrong>>

\* signupSendOtp, companySignupSendOtp: the pending row is saved before the code
\* is made.
SignupSendOtp(r) ==
  /\ \/ Unset /\ Load(r, user, {}, "code")
     \/ Create(r, NewUser("pending", FALSE), "code")
  /\ UNCHANGED <<proved, wrong>>

\* signupVerifyOtp, companySignupVerifyOtp: no tokens yet, but a signupToken.
SignupVerifyOtp(r) ==
  /\ user.otp /\ Unset
  /\ Load(r, Proven(user), {}, "signup")
  /\ proved' = TRUE
  /\ UNCHANGED wrong

\* Wrong on purpose: the signupToken is not asked for.
SetPasswordOfPending(r) ==
  /\ Unset
  /\ Load(r, Chosen(user), {"password"}, "tokens")
  /\ UNCHANGED <<proved, wrong>>

\* setPassword, companySignupSetPassword.  The version is not bumped.
SetPassword(r) ==
  /\ signup
  /\ Unset /\ user.verified
  /\ Load(r, Chosen(user), {"password"}, "tokens")
  /\ UNCHANGED <<proved, wrong>>

\* verifyOtp: single session, the version is bumped.
VerifyOtp(r) ==
  /\ user.otp
  /\ user.version < MaxVersion
  /\ Load(r, Bumped(Proven(user)), {}, "signIn")
  /\ proved' = TRUE
  /\ UNCHANGED wrong

\* verifyOtp with an ID token of Firebase, which has checked the phone.
VerifyFirebase(r) ==
  /\ user.version < MaxVersion
  /\ \/ Load(r, Bumped(Proven(user)), {}, "signIn")
     \/ Create(r, NewUser("random", TRUE), "firebase")
  /\ proved' = TRUE
  /\ UNCHANGED wrong

\* resetPassword: a new password, no code, no refresh token, no old session.
ResetPassword(r) ==
  /\ user.otp
  /\ user.version < MaxVersion
  /\ Load(r, Chosen(WithoutRefresh(WithoutCode(Bumped(user)))),
          {"password"}, "signOut")
  /\ proved' = TRUE
  /\ UNCHANGED wrong

\* register, with or without a password, and create of UsersService.
Register(r) ==
  /\ \/ \E p \in {"pending", "registered"} : Create(r, NewUser(p, FALSE), "tokens")
     \/ Create(r, NewUser("registered", FALSE), "done")
  /\ UNCHANGED <<proved, wrong>>

-----------------------------------------------------------------------------
\* login, up to the comparison of the password.
MayTry == user.lock # "future"

\* Wrong on purpose: the token is handed out before its version is saved.
LoginAnsweredEarly(r) ==
  /\ MayTry /\ user.password \in {"registered", "chosen"}
  /\ user.version < MaxVersion
  /\ req[r].pc = "idle"
  /\ req' = [req EXCEPT ![r] = Saving(Bumped(user), {}, "signIn")]
  /\ issued' = issued \cup {user.version + 1}
  /\ UNCHANGED <<user, signup, stored, proved, wrong>>

\* login: single session, the version is bumped.
Login(r) ==
  /\ MayTry /\ user.password \in {"registered", "chosen"}
  /\ user.version < MaxVersion
  /\ Load(r, Bumped(user), {}, "signIn")
  /\ UNCHANGED <<proved, wrong>>

\* Wrong on purpose: the attempts left, which nothing keeps above zero.
CountedDown(n) == n - 1

\* safeAttempts + 1.
Counted(n) == (IF n > SaneFailures THEN 0 ELSE n) + 1

\* Wrong on purpose: locked one attempt too early.
FailedOnce(e) ==
  LET n == Counted(e.failed) IN
  [e EXCEPT !.failed = n, !.lock = IF n + 1 >= LockAfter THEN "future" ELSE e.lock]

Failed(e) ==
  LET n == Counted(e.failed) IN
  [e EXCEPT !.failed = n, !.lock = IF n >= LockAfter THEN "future" ELSE e.lock]

\* login with a wrong password: counted in the loaded entity, and refused.
LoginFails(r) ==
  /\ MayTry /\ user.password \in {"random", "registered", "chosen"}
  /\ wrong < MaxWrong
  /\ Load(r, Failed(user), {}, "done")
  /\ wrong' = wrong + 1
  /\ UNCHANGED proved

\* refreshToken: the version is not looked at.
RefreshToken(r) ==
  /\ user.refresh
  /\ Load(r, WithTokens(user), {"refresh"}, "answer")
  /\ UNCHANGED <<proved, wrong>>

\* The guard of logout loads the user and checks the token ...
Authorize(r) ==
  /\ req[r].pc = "idle"
  /\ Accepted
  /\ req' = [req EXCEPT ![r] = [pc |-> "authorized"]]
  /\ UNCHANGED <<rowVars, history>>

\* ... and logout loads it again.  Its device tokens are those of Devices.
Logout(r) ==
  /\ req[r].pc = "authorized"
  /\ user.version < MaxVersion
  /\ req' = [req EXCEPT ![r] = 
               Saving(WithoutRefresh(WithoutCode(Bumped(user))), {}, "signOut")]
  /\ UNCHANGED <<rowVars, history>>

\* Handlers of UsersService, and of others that save a user: an edit of columns
\* that are not modelled, or a deactivation.
SaveUser(r) ==
  /\ \/ Load(r, user, {}, "done")
     \/ Load(r, WithoutRefresh(user), {}, "done")
  /\ UNCHANGED <<proved, wrong>>

-----------------------------------------------------------------------------
\* save of a new entity.  Its phone and email are unique: the second of two
\* inserts is refused.
Insert(r) ==
  /\ req[r].pc = "insert"
  /\ LET q == req[r] IN
     IF Exists
       THEN /\ req' = [req EXCEPT ![r] = Idle]
            /\ UNCHANGED <<user, signup, issued, stored>>
       ELSE /\ user' = q.entity
            /\ stored' = stored \cup {q.entity.version}
            /\ Finish(r, q.entity, q.then)
  /\ UNCHANGED <<proved, wrong>>

\* First half of save: the columns that differ from the row as it is now.
SaveRead(r) ==
  /\ req[r].pc = "save"
  /\ LET q == req[r]
         cols == q.cols \cup {c \in Columns : q.entity[c] # user[c]} IN
     IF cols = {}
       THEN Finish(r, q.entity, q.then)
       ELSE /\ req' = [req EXCEPT ![r] = Busy("write", q.entity, cols, q.then)]
            /\ UNCHANGED <<signup, issued>>
  /\ UNCHANGED <<rowVars, proved, wrong>>

\* The row with these columns of the entity.
Written(q) ==
  LET column(c, mine, theirs) == IF c \in q.cols THEN mine ELSE theirs IN
  [password |-> column("password", q.entity.password, user.password),
   otp      |-> column("otp", q.entity.otp, user.otp),
   refresh  |-> column("refresh", q.entity.refresh, user.refresh),
   failed   |-> column("failed", q.entity.failed, user.failed),
   lock     |-> column("lock", q.entity.lock, user.lock),
   version  |-> column("version", q.entity.version, user.version),
   verified |-> column("verified", q.entity.verified, user.verified)]

\* Second half of save: they are written.
SaveWrite(r) ==
  /\ req[r].pc = "write"
  /\ LET q == req[r] IN
     /\ user' = Written(q)
     /\ Finish(r, q.entity, q.then)
  /\ stored' = stored \cup {user'.version}
  /\ UNCHANGED <<proved, wrong>>

\* The code is sent; when the provider refuses, it is cleared in the entity.
Send(r) ==
  /\ req[r].pc = "send"
  /\ \E next \in {Idle, Saving(WithoutCode(req[r].entity), {}, "done")} :
       req' = [req EXCEPT ![r] = next]
  /\ UNCHANGED <<rowVars, history>>

\* The clock passes every lockoutUntil that was set.
Past(e) == [e EXCEPT !.lock = IF e.lock = "future" THEN "past" ELSE e.lock]

LockoutPasses ==
  /\ user.lock = "future"
  /\ user' = Past(user)
  /\ req' = [r \in Req |->
               IF req[r].pc \in {"idle", "authorized"}
                 THEN req[r]
                 ELSE [req[r] EXCEPT !.entity = Past(req[r].entity)]]
  /\ UNCHANGED <<stored, history>>

\* A repository call rejects or the process dies.
Abort(r) ==
  /\ Faults
  /\ req[r].pc # "idle"
  /\ req' = [req EXCEPT ![r] = Idle]
  /\ UNCHANGED <<rowVars, history>>

\* Requests by code.
ByCode(r) ==
  \/ RequestOtp(r) \/ ForgotPassword(r) \/ SignupSendOtp(r) \/ SignupVerifyOtp(r)
  \/ SetPassword(r) \/ VerifyOtp(r) \/ VerifyFirebase(r) \/ ResetPassword(r)

\* Requests by password or token, and of administrators.
ByPassword(r) ==
  \/ Register(r) \/ Login(r) \/ LoginFails(r) \/ RefreshToken(r)
  \/ Authorize(r) \/ Logout(r) \/ SaveUser(r)

Next ==
  \/ \E r \in CodeReq : ByCode(r)
  \/ \E r \in PassReq : ByPassword(r)
  \/ \E r \in Req : Insert(r) \/ SaveRead(r) \/ SaveWrite(r) \/ Send(r) \/ Abort(r)
  \/ LockoutPasses

Spec == Init /\ [][Next]_vars

-----------------------------------------------------------------------------
\* An account is locked only when so many wrong passwords were given: counts that
\* are lost, carried back or brought to the row twice never invent one.
LockedAfterFailures == user.lock # "none" => wrong >= LockAfter

\* A token carries a version that the row had: a sign-in that dies or is
\* overtaken leaves nobody with a token that a later sign-in would make valid.
NoFutureTokens == issued \subseteq stored

\* Without a proof of the phone or email nothing counts as verified, and no
\* password is set on a signed-up account or in place of a forgotten one.
ProofBehindPassword == user.verified \/ user.password = "chosen" => proved

\* "Bump version to invalidate all accessTokens immediately": a token handed out
\* whose version the row has left behind is never accepted again.  It holds while
\* the requests of an account do not overlap.
KickedStayOut ==
  [][user'.version \in issued => user'.version >= user.version]_vars
=============================================================================
