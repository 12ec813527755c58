---------------------------- MODULE AuthService ----------------------------
(***************************************************************************)
(* The auth service: every operation of the modules below, run by requests *)
(* that interleave statement by statement over one database, and what that *)
(* must guarantee.                                                         *)
(***************************************************************************)
EXTENDS Sessions, Security, Admin, Users

Step(r) ==
  \/ Authenticate(r)
  \/ SessionsStep(r)
  \/ SecurityStep(r)
  \/ AdminStep(r)
  \/ UsersStep(r)

Next ==
  \/ \E r \in Requests : Receive(r)
  \/ \E r \in Requests : Step(r)
  \/ \E r \in Requests : Abort(r)
  \/ DeadlockVictim
  \/ StatementDeadlock
  \/ Tick
  \/ Idle

Spec == Init /\ [][Next]_vars

\* A goroutine that can run its next statement runs it, and PostgreSQL breaks
\* every cycle of waits (deadlock_timeout).  Clients and the clock owe nothing.
Fairness ==
  /\ \A r \in Requests : WF_vars(Step(r))
  /\ WF_vars(DeadlockVictim)

FairSpec == Spec /\ Fairness

TypeOK ==
  /\ users \subseteq UserRow
  /\ sessions \subseteq SessionRow
  /\ tokens \subseteq TokenRow
  /\ bans \subseteq BanRow
  /\ now \in Nat
  /\ in \in [Requests -> Input \cup {NoInput}]
  /\ flow \in [Requests -> [time: Nat, bearer: SessionIds \cup {None},
                            session: FluxSession \cup {None}]]
  /\ pc \in [Requests -> Statements \cup {"new", "authn", "done"}]
  /\ loc \in [Requests -> Locals]
  /\ locks \in [Requests -> SUBSET Lockable]
  /\ resp \in [Requests -> Answers]

-----------------------------------------------------------------------------
(* Sessions and bans                                                       *)

\* Every session was opened with the password and the e-mail address its user
\* has now: a change of either, confirmed by token or by the old password,
\* leaves no session behind, whatever logins run beside it.
SessionsMatchCredentials ==
  \A s \in sessions, u \in users :
    u.id = s.user => s.cred = [pw |-> u.pw, email |-> u.email]

\* While a ban is active its user has no session: a login that read no ban
\* and a BanUser that deletes the sessions cannot slip past each other.
BannedUsersHaveNoSession ==
  \A b \in bans, s \in sessions : ActiveBan(b, now) => s.user # b.user

\* A login that has chosen its session number never trips over the unique
\* constraint or the foreign key: the number stays free and the user stays.
InsertNeverConflicts ==
  \A r \in Requests :
    in[r].op = "CreateSession" /\ pc[r] = "insert" => ~InsertConflicts(r)

\* However stale the f.Time a login or renewal computes with, no session lives
\* longer than SessionDuration from now, and none violates the CHECK
\* expires_at >= created_at.
SessionLifetimeBounded ==
  \A s \in sessions :
    s.created <= s.expires /\ s.expires <= now + SessionDuration

\* A session that was cleared, revoked or deleted never comes back: only the
\* insert of its own login adds it, and a renewal that was authenticated
\* before the revocation does not recreate it.
RevokedStaysRevoked ==
  [][\A q \in Ids(sessions') \ Ids(sessions) :
       q \in Requests /\ pc[q] = "insert" /\ pc'[q] = "done"]_vars

\* Two bans of one user cannot overwrite each other: an active ban is lifted
\* only by UnbanUser, by a BanUser with Replace or with its user.  It outlives
\* whoever imposed it.
SameBan(b, x) == [b EXCEPT !.by = None] = [x EXCEPT !.by = None]
ActiveBanKept ==
  [][\A b \in bans :
       ActiveBan(b, now) /\ (\A x \in bans' : ~SameBan(b, x)) =>
         \E r \in Requests :
           /\ pc[r] # "done" /\ pc'[r] = "done"
           /\ \/ in[r].op = "UnbanUser"
              \/ in[r].op = "BanUser" /\ in[r].replace
              \/ /\ in[r].op \in {"DeleteUsers", "deleteMyUser"}
                 /\ b.user \notin Ids(users')]_vars

\* Logins, bans and password changes never wait in a circle, not even two
\* administrators who ban each other: each locks one row of users, for NO KEY
\* UPDATE, and the foreign key banned_by asks for no more than the key; only
\* who holds a user's row deletes the user's sessions.  (With deletions, with
\* requests that clear sessions and with requests for tokens beside
\* confirmations they do wait in a circle.)
NeverDeadlocked ==
  \A r \in Requests, got \in HalfWay : ~OnCircle(r, got)

-----------------------------------------------------------------------------
(* Tokens                                                                  *)

\* A token is redeemed once: two requests that present it cannot both be told
\* that it worked.
TokenRedeemedOnce ==
  \A r, q \in Requests :
    /\ in[r].op \in ConfirmOps /\ in[q].op \in ConfirmOps
    /\ resp[r] = "ok" /\ resp[q] = "ok"
    /\ in[r].token = in[q].token
    => r = q

\* From getToken on, the token that a confirmation presented is there, with
\* the user it was read with: no saveToken replaces it, no deletion of the
\* user takes it, before the confirmation commits.
ConfirmationKeepsToken ==
  \A r \in Requests :
    in[r].op \in ConfirmOps /\ pc[r] \in {"lock_user", "write"} =>
      \E t \in tokens : /\ t.id = in[r].token /\ t.kind = KindOf(in[r].op)
                        /\ t.user = loc[r].user /\ t.email = loc[r].email

\* ErrUserNotFound after getToken cannot happen: DeleteUsers must cascade to
\* the locked token before it commits.
ConfirmationFindsUser ==
  \A r \in Requests :
    in[r].op \in ConfirmOps /\ pc[r] \in {"lock_user", "write"} =>
      loc[r].user \in Ids(users)

\* The request of the operation `op` that made token id.
MadeBy(id, ops) == in[id].op \in ops

\* A token does only what it was made for: it was made by a request for the
\* same kind of confirmation, never one for another kind.
TokensServeTheirKind ==
  \A r \in Requests :
    in[r].op \in ConfirmOps /\ resp[r] = "ok" =>
      /\ in[r].op = "ChangeEmailToken" => MadeBy(in[r].token, {"ChangeEmail"})
      /\ in[r].op = "ResetPasswordToken" => MadeBy(in[r].token, {"ResetPassword"})
      /\ in[r].op = "VerifyUserToken" =>
           MadeBy(in[r].token, {"VerifyUser", "CreateUser"})

\* VerifyUser never replaces a token of VerifyUser younger than WaitTime: two
\* requests of one user cannot both pass the check and both save a token.
\* (CreateUser saves a token for its caller without the lock of the row and
\* without a check, so it can come between and is left out here.)
VerificationThrottled ==
  [][\A t \in tokens \ tokens', x \in tokens' \ tokens :
       /\ t.kind = "verify_user" /\ in[t.id].op = "VerifyUser"
       /\ x.kind = "verify_user" /\ in[x.id].op = "VerifyUser"
       /\ t.user = x.user
       => now - t.created >= WaitTime]_vars

\* Nobody has an e-mail address other than the first one or one that a
\* ChangeEmail asked for, with a session of the same user and a password that
\* was not refused.
EmailsWereAskedFor ==
  \A u \in users :
    \/ \E v \in SeedUsers : v.id = u.id /\ v.email = u.email
    \/ u.id \in Requests /\ in[u.id].email = u.email
    \/ \E q \in Requests : /\ in[q].op = "ChangeEmail" /\ in[q].email = u.email
                           /\ HasSession(q) /\ Caller(q) = u.id
                           /\ resp[q] \in {"ok", "internal"}

-----------------------------------------------------------------------------
(* Users                                                                   *)

\* No row refers to a user that is gone: a deletion and a saveToken, a login
\* or a ban that reads the user before it cannot leave one behind, nor a ban
\* whose caller is deleted beside it.
ReferencesResolve ==
  /\ \A row \in sessions \cup tokens \cup bans : row.user \in Ids(users)
  /\ \A b \in bans : b.by \in Ids(users) \cup {None}

-----------------------------------------------------------------------------
(* Liveness                                                                *)

\* Every request is answered, though a confirmation and a deletion or a
\* request for a token lock the same rows in opposite orders.
EveryRequestAnswered ==
  \A r \in Requests : pc[r] # "new" ~> pc[r] = "done"

-----------------------------------------------------------------------------
(* What comments of the code say and the code does not do                  *)

\* "TODO: send user verification email with token" (user.go:250): the token
\* CreateUser makes verifies the user it creates.
NewUserGetsToken ==
  \A t \in tokens : in[t.id].op = "CreateUser" => t.user = t.id

\* 200 is "returned when execution is successful" (flux.go:31): a CreateUser
\* that answers it has created the user.
CreatedMeansStored ==
  [][\A r \in Requests :
       in[r].op = "CreateUser" /\ resp[r] = "none" /\ resp'[r] = "ok"
       => r \in Ids(users')]_vars
=============================================================================
