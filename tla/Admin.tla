------------------------------- MODULE Admin --------------------------------
(***************************************************************************)
(* auth/admin.go: changing a password or an e-mail                         *)
(* address, verifying a user, resetting a password, with the handlers of   *)
(* auth/api/admin.go.                                                      *)
(*                                                                         *)
(* A request with a token locks the token's row, then the user's row.  A   *)
(* request for a token locks the user's row (or none), then upserts the    *)
(* token's row.                                                            *)
(***************************************************************************)
EXTENDS Sessions, Tokens

\* The first statement of an operation on the caller's own row.  Without a
\* session, ChangeEmail and VerifyUser answer 401 and ChangePassword panics.
OwnStart(r) ==
  /\ in[r].op \in {"ChangePassword", "ChangeEmail", "VerifyUser"}
  /\ pc[r] = "call"
  /\ IF HasSession(r)
       THEN /\ loc' = [loc EXCEPT ![r].user = Caller(r)]
            /\ Goto(r, "lock_user")
            /\ UNCHANGED locks
       ELSE IF in[r].op = "ChangePassword"
              THEN Panic(r)
              ELSE Answer(r, "unauthorized")
  /\ UNCHANGED <<db, now, in, flow>>

\* SELECT ... FROM auth.users WHERE id = $1 FOR NO KEY UPDATE, and
\* validatePassword.  No handler maps ErrUserNotFound here: it is a 500.
OwnLock(r) ==
  /\ in[r].op \in {"ChangePassword", "ChangeEmail"} /\ pc[r] = "lock_user"
  /\ Granted(r)
  /\ \/ \E u \in users :
          /\ u.id = loc[r].user
          /\ IF u.pw = in[r].pw
               THEN /\ Hold(r, ForNoKeyUpdate(u.id))
                    /\ Goto(r, IF in[r].op = "ChangePassword" THEN "write"
                                                              ELSE "save_token")
                    /\ UNCHANGED loc
               ELSE Answer(r, "invalid_password")
     \/ loc[r].user \notin Ids(users) /\ Answer(r, "internal")
  /\ UNCHANGED <<db, now, in, flow>>

\* updateUserPassword, for a password bcrypt takes.
SetPassword(r) ==
  users' = {IF u.id = loc[r].user THEN [u EXCEPT !.pw = in[r].newPw]
                                  ELSE u : u \in users}

\* updateUserPassword, deleteUserSessions, Commit.
PasswordWrite(r) ==
  /\ in[r].op = "ChangePassword" /\ pc[r] = "write"
  /\ IF in[r].newPw \in LongPasswords
       THEN Answer(r, "internal") /\ UNCHANGED <<users, sessions>>
       ELSE /\ SetPassword(r)
            /\ deleteUserSessions(loc[r].user)
            /\ Commit(r)
  /\ UNCHANGED <<tokens, bans, now, in, flow>>

-----------------------------------------------------------------------------
\* With a token: SELECT email ... FOR NO KEY UPDATE of the token's user.
ConfirmLock(r) ==
  /\ in[r].op \in {"ChangeEmailToken", "ResetPasswordToken"}
  /\ pc[r] = "lock_user"
  /\ Granted(r)
  /\ IF loc[r].user \in Ids(users)
       THEN /\ Hold(r, ForNoKeyUpdate(loc[r].user))
            /\ Goto(r, "write")
            /\ UNCHANGED loc
       ELSE Answer(r, "internal")
  /\ UNCHANGED <<db, now, in, flow>>

\* Mutant: the address of the caller is updated, not that of the token's user.
CallerReaddressed(r) ==
  {IF HasSession(r) /\ u.id = Caller(r) THEN [u EXCEPT !.email = loc[r].email]
                                        ELSE u : u \in users}
Readdressed(r) ==
  {IF u.id = loc[r].user THEN [u EXCEPT !.email = loc[r].email]
                         ELSE u : u \in users}

\* UPDATE of the address, deleteToken, deleteUserSessions, Commit.
EmailWrite(r) ==
  /\ in[r].op = "ChangeEmailToken" /\ pc[r] = "write"
  /\ users' = Readdressed(r)
  /\ tokens' = WithoutToken(in[r].token)
  /\ deleteUserSessions(loc[r].user)
  /\ Commit(r)
  /\ UNCHANGED <<bans, now, in, flow>>

-----------------------------------------------------------------------------
VerifyLock(r) ==
  /\ in[r].op = "VerifyUser" /\ pc[r] = "lock_user"
  /\ Granted(r)
  /\ \/ \E u \in users :
          /\ u.id = loc[r].user
          /\ IF u.verified
               THEN Answer(r, "user_verified")
               ELSE /\ Hold(r, ForNoKeyUpdate(u.id))
                    /\ Goto(r, "check_token")
                    /\ UNCHANGED loc
     \/ loc[r].user \notin Ids(users) /\ Answer(r, "internal")
  /\ UNCHANGED <<db, now, in, flow>>

\* SELECT created_at of the token, without a lock; time.Since reads the clock,
\* not f.Time.
VerifyCheckToken(r) ==
  /\ in[r].op = "VerifyUser" /\ pc[r] = "check_token"
  /\ IF \E t \in tokens : /\ t.user = loc[r].user /\ t.kind = "verify_user"
                          /\ now - t.created < WaitTime
       THEN Answer(r, "try_later")
       ELSE Goto(r, "save_token") /\ UNCHANGED <<loc, locks>>
  /\ UNCHANGED <<db, now, in, flow>>

\* With a token: UPDATE of verified_at, which locks the row, deleteToken,
\* Commit.
VerifyWrite(r) ==
  /\ in[r].op = "VerifyUserToken" /\ pc[r] = "lock_user"
  /\ Granted(r)
  /\ users' = {IF u.id = loc[r].user THEN [u EXCEPT !.verified = TRUE]
                                     ELSE u : u \in users}
  /\ tokens' = WithoutToken(in[r].token)
  /\ Commit(r)
  /\ UNCHANGED <<sessions, bans, now, in, flow>>

-----------------------------------------------------------------------------
\* Without a token: the user is read and not locked; an unknown name is no
\* error.
ResetStart(r) ==
  /\ in[r].op = "ResetPassword" /\ pc[r] = "call"
  /\ \/ \E u \in users :
          /\ u.username = in[r].username
          /\ loc' = [loc EXCEPT ![r].user = u.id]
          /\ Goto(r, "save_token")
          /\ UNCHANGED locks
     \/ /\ \A u \in users : u.username # in[r].username
        /\ Answer(r, "ok")
  /\ UNCHANGED <<db, now, in, flow>>

\* With a token: updateUserPassword, deleteUserSessions, deleteToken, Commit.
ResetWrite(r) ==
  /\ in[r].op = "ResetPasswordToken" /\ pc[r] = "write"
  /\ IF in[r].newPw \in LongPasswords
       THEN Answer(r, "internal") /\ UNCHANGED <<users, sessions, tokens>>
       ELSE /\ SetPassword(r)
            /\ deleteUserSessions(loc[r].user)
            /\ tokens' = WithoutToken(in[r].token)
            /\ Commit(r)
  /\ UNCHANGED <<bans, now, in, flow>>

\* ChangePassword, ChangeEmail, VerifyUser and ResetPassword, by statement.
AdminStep(r) ==
  \/ OwnStart(r)
  \/ OwnLock(r)
  \/ PasswordWrite(r)
  \/ GetToken(r)
  \/ SaveToken(r)
  \/ ConfirmLock(r)
  \/ EmailWrite(r)
  \/ VerifyLock(r)
  \/ VerifyCheckToken(r)
  \/ VerifyWrite(r)
  \/ ResetStart(r)
  \/ ResetWrite(r)
=============================================================================
