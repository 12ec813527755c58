------------------------------- MODULE Users --------------------------------
(***************************************************************************)
(* auth/user.go: creating and deleting users, with the handlers of         *)
(* auth/api/user.go and api.deleteMyUser.                                  *)
(***************************************************************************)
EXTENDS Tokens

\* SELECT EXISTS outside the transaction, and hashPassword: an error of bcrypt
\* is dropped, and the handler answers 200 with an empty user.
UserStart(r) ==
  /\ in[r].op = "CreateUser" /\ pc[r] = "call"
  /\ IF \E u \in users : u.username = in[r].username
       THEN Answer(r, "exists")
     ELSE IF in[r].pw \in LongPasswords
       THEN Answer(r, "ok")
     ELSE Goto(r, "insert_user") /\ UNCHANGED <<loc, locks>>
  /\ UNCHANGED <<db, now, in, flow>>

\* Mutant: username without UNIQUE.
NoEntry(n) == {}
\* The entry of the unique index that an open transaction has inserted.
EntryOf(n) == {NameLock(n)}

\* INSERT INTO auth.users waits for whoever inserts or deletes the same
\* username; the unique constraint refuses one that is there now.  Then the
\* verification token is made for f.Session.User, a panic without a session.
UserInsert(r) ==
  /\ in[r].op = "CreateUser" /\ pc[r] = "insert_user"
  /\ Granted(r)
  /\ IF HasSession(r) /\ \A u \in users : u.username # in[r].username
       THEN /\ Hold(r, EntryOf(in[r].username))
            /\ loc' = [loc EXCEPT ![r].user = Caller(r)]
            /\ Goto(r, "save_token")
       ELSE Answer(r, "internal")
  /\ UNCHANGED <<db, now, in, flow>>

NewUser(r) ==
  [id |-> r, username |-> in[r].username, email |-> in[r].email,
   pw |-> in[r].pw, verified |-> FALSE, lastLogin |-> -1]

\* saveToken, whose foreign key is the caller, and Commit of both rows.
UserSaveToken(r) ==
  /\ in[r].op = "CreateUser" /\ pc[r] = "save_token"
  /\ Granted(r)
  /\ IF Referenced(r)
       THEN /\ users' = users \cup {NewUser(r)}
            /\ Upsert(r, None)
            /\ Commit(r)
       ELSE Answer(r, "internal") /\ UNCHANGED <<users, tokens>>
  /\ UNCHANGED <<sessions, bans, now, in, flow>>

-----------------------------------------------------------------------------
\* DELETE FROM auth.users WHERE id IN (...): one statement that locks the rows
\* one after the other, in an order nothing fixes, and then cascades.
Targets(r) ==
  IF in[r].op = "DeleteUsers" THEN in[r].ids ELSE {Caller(r)}

\* The rows still to be locked once `done` are.
Remaining(r, done) ==
  {u \in Targets(r) \cap Ids(users) : UserLock(u) \notin done}

NextRow(r, done) ==
  IF Remaining(r, done) = {}
    THEN Goto(r, "cascade") /\ UNCHANGED loc
    ELSE /\ \E u \in Remaining(r, done) : loc' = [loc EXCEPT ![r].user = u]
         /\ Goto(r, "lock_rows")

\* No ids is a validation error; deleteMyUser panics without a session.
DeleteStart(r) ==
  /\ in[r].op \in {"DeleteUsers", "deleteMyUser"} /\ pc[r] = "call"
  /\ IF in[r].op = "deleteMyUser" /\ ~HasSession(r)
       THEN Panic(r)
     ELSE IF Targets(r) = {}
       THEN Answer(r, "validation")
     ELSE NextRow(r, {}) /\ UNCHANGED locks
  /\ UNCHANGED <<db, now, in, flow>>

\* A row somebody else deleted while this waited is skipped.
DeleteLockRow(r) ==
  /\ in[r].op \in {"DeleteUsers", "deleteMyUser"} /\ pc[r] = "lock_rows"
  /\ Granted(r)
  /\ LET row == {UserLock(loc[r].user), KeyLock(loc[r].user)}
         got == IF loc[r].user \in Ids(users) THEN row ELSE {}
     IN  Hold(r, got) /\ NextRow(r, locks[r] \cup got)
  /\ UNCHANGED <<db, now, in, flow>>

Survive(rows, gone) == {row \in rows : row.user \notin gone}
\* ON DELETE SET NULL of banned_by.
BannerGone(rows, gone) ==
  {IF b.by \in gone THEN [b EXCEPT !.by = None] ELSE b : b \in rows}

\* Once it has the rows that refer to the users, all is gone.
DeleteCascade(r) ==
  /\ in[r].op \in {"DeleteUsers", "deleteMyUser"} /\ pc[r] = "cascade"
  /\ Granted(r)
  /\ users' = {u \in users : u.id \notin Deleted(r)}
  /\ sessions' = Survive(sessions, Deleted(r))
  /\ tokens' = Survive(tokens, Deleted(r))
  /\ bans' = BannerGone(Survive(bans, Deleted(r)), Deleted(r))
  /\ Commit(r)
  /\ UNCHANGED <<now, in, flow>>

UsersStep(r) ==
  \/ UserStart(r)
  \/ UserInsert(r)
  \/ UserSaveToken(r)
  \/ DeleteStart(r)
  \/ DeleteLockRow(r)
  \/ DeleteCascade(r)
=============================================================================
