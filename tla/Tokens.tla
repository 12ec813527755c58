------------------------------- MODULE Tokens -------------------------------
(***************************************************************************)
(* auth/token.go: the one token a user may have of each kind.              *)
(***************************************************************************)
EXTENDS AuthDB

\* ChangeEmail takes no token without an address.
Usable(r, t) == in[r].op = "ChangeEmailToken" => t.email # None

\* Mutant: getToken without FOR NO KEY UPDATE.
TokenForNothing(t) == {}
TokenForNoKeyUpdate(t) == {TokenLock(t.kind, t.user)}

\* getToken: SELECT ... WHERE id, kind, expires_at > f.Time FOR NO KEY UPDATE.
GetToken(r) ==
  /\ in[r].op \in ConfirmOps /\ pc[r] = "call"
  /\ Granted(r)
  /\ \/ \E t \in Presented(r) :
          /\ Usable(r, t)
          /\ loc' = [loc EXCEPT ![r].user = t.user, ![r].email = t.email]
          /\ Hold(r, TokenForNoKeyUpdate(t))
          /\ Goto(r, "lock_user")
     \/ /\ \A t \in Presented(r) : ~Usable(r, t)
        /\ Answer(r, "invalid_token")
  /\ UNCHANGED <<db, now, in, flow>>

\* saveToken: INSERT ... ON CONFLICT (user_id, kind) DO UPDATE replaces id,
\* times and meta of the row that is there.
Upsert(r, email) ==
  LET kind == KindOf(in[r].op) IN
  tokens' =
    {t \in tokens : ~(t.user = loc[r].user /\ t.kind = kind)}
    \cup {[id |-> r, user |-> loc[r].user, kind |-> kind,
           created |-> flow[r].time,
           expires |-> flow[r].time + TokenDuration[kind], email |-> email]}

\* Mutant: user_id without REFERENCES auth.users.
Unreferenced(r) == TRUE
Referenced(r) == loc[r].user \in Ids(users)

\* saveToken and Commit: the foreign key refuses a user that is gone.
SaveToken(r) ==
  /\ in[r].op \in {"ChangeEmail", "VerifyUser", "ResetPassword"}
  /\ pc[r] = "save_token"
  /\ Granted(r)
  /\ IF Referenced(r)
       THEN /\ Upsert(r, IF in[r].op = "ChangeEmail" THEN in[r].email ELSE None)
            /\ Commit(r)
       ELSE Answer(r, "internal") /\ UNCHANGED tokens
  /\ UNCHANGED <<users, sessions, bans, now, in, flow>>

\* Mutant: deleteToken is not called.
TokenKept(id) == tokens
\* deleteToken.
WithoutToken(id) == {t \in tokens : t.id # id}
=============================================================================
