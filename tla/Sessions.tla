------------------------------ MODULE Sessions ------------------------------
(***************************************************************************)
(* auth/session.go: logging in, renewing and clearing sessions, with the   *)
(* handlers of auth/api/session.go and auth/api/me.go that call them.      *)
(***************************************************************************)
EXTENDS AuthDB

\* SELECT ... FROM auth.users WHERE username = $1 FOR NO KEY UPDATE finds the
\* row in its snapshot.
LoginFind(r) ==
  /\ in[r].op = "CreateSession" /\ pc[r] = "call"
  /\ \/ \E u \in users :
          /\ u.username = in[r].username
          /\ loc' = [loc EXCEPT ![r].user = u.id]
          /\ Goto(r, "lock_user")
          /\ UNCHANGED locks
     \/ /\ \A u \in users : u.username # in[r].username
        /\ Answer(r, "invalid_credentials")
  /\ UNCHANGED <<db, now, in, flow>>

\* The same statement gets the row's lock and reads it again; then
\* validatePassword compares.
LoginLock(r) ==
  /\ in[r].op = "CreateSession" /\ pc[r] = "lock_user"
  /\ Granted(r)
  /\ \/ \E u \in users :
          /\ u.id = loc[r].user
          /\ u.pw = in[r].pw
          /\ loc' = [loc EXCEPT ![r].cred = [pw |-> u.pw, email |-> u.email]]
          /\ Hold(r, ForNoKeyUpdate(u.id))
          /\ Goto(r, "check_ban")
     \/ /\ \A u \in users : u.id = loc[r].user => u.pw # in[r].pw
        /\ Answer(r, "invalid_credentials")
  /\ UNCHANGED <<db, now, in, flow>>

LoginCheckBan(r) ==
  /\ in[r].op = "CreateSession" /\ pc[r] = "check_ban"
  /\ IF \E b \in bans : b.user = loc[r].user /\ ActiveBan(b, flow[r].time)
       THEN Answer(r, "user_banned")
       ELSE Goto(r, "count") /\ UNCHANGED <<loc, locks>>
  /\ UNCHANGED <<db, now, in, flow>>

\* SELECT COUNT(id): sessions that have expired count too.
LoginCount(r) ==
  /\ in[r].op = "CreateSession" /\ pc[r] = "count"
  /\ IF Cardinality(SessionsOf(loc[r].user)) >= MaxSessions
       THEN Answer(r, "session_limit")
       ELSE Goto(r, "number") /\ UNCHANGED <<loc, locks>>
  /\ UNCHANGED <<db, now, in, flow>>

\* Mutant: generate_series(0, $1).
NumbersFromZero(u) == (0 .. MaxSessions) \ {s.num : s \in SessionsOf(u)}
\* Mutant: numbers of sessions that have expired are taken for free.
FreeOfLive(u) ==
  (1 .. MaxSessions) \ {s.num : s \in {x \in SessionsOf(u) : x.expires > now}}
FreeNumbers(u) == (1 .. MaxSessions) \ {s.num : s \in SessionsOf(u)}

\* generate_series EXCEPT the numbers in use, ORDER BY 1 LIMIT 1.
LoginNumber(r) ==
  /\ in[r].op = "CreateSession" /\ pc[r] = "number"
  /\ \/ \E n \in FreeNumbers(loc[r].user) :
          /\ \A m \in FreeNumbers(loc[r].user) : n <= m
          /\ loc' = [loc EXCEPT ![r].num = n]
          /\ Goto(r, "insert")
          /\ UNCHANGED locks
     \/ /\ FreeNumbers(loc[r].user) = {}
        /\ Answer(r, "session_limit")
  /\ UNCHANGED <<db, now, in, flow>>

NewSession(r) ==
  [id |-> r, user |-> loc[r].user, num |-> loc[r].num,
   created |-> flow[r].time, expires |-> flow[r].time + SessionDuration,
   cred |-> loc[r].cred]

\* What the constraints of auth.sessions refuse: a number in use, a user that
\* is gone.
InsertConflicts(r) ==
  \/ \E s \in SessionsOf(loc[r].user) : s.num = loc[r].num
  \/ loc[r].user \notin Ids(users)

\* INSERT INTO auth.sessions, the update of last_login_at, the commit.
LoginInsert(r) ==
  /\ in[r].op = "CreateSession" /\ pc[r] = "insert"
  /\ IF InsertConflicts(r)
       THEN Answer(r, "internal") /\ UNCHANGED <<users, sessions>>
       ELSE /\ sessions' = sessions \cup {NewSession(r)}
            /\ users' = {IF u.id = loc[r].user
                           THEN [u EXCEPT !.lastLogin = flow[r].time]
                           ELSE u : u \in users}
            /\ Commit(r)
  /\ UNCHANGED <<tokens, bans, now, in, flow>>

CreateSession(r) ==
  \/ LoginFind(r)
  \/ LoginLock(r)
  \/ LoginCheckBan(r)
  \/ LoginCount(r)
  \/ LoginNumber(r)
  \/ LoginInsert(r)

\* Mutant: the duration is added to the old expiry.
Prolonged(r, s) == [s EXCEPT !.expires = @ + SessionDuration]
Renewed(r, s) == [s EXCEPT !.expires = flow[r].time + SessionDuration]

\* Mutant: an upsert of the row the request was authenticated with.
RenewOrInsert(r) ==
  LET same == {s \in sessions : s.id = flow[r].session.id} IN
  (sessions \ same) \cup
  IF same # {}
    THEN {Renewed(r, s) : s \in same}
    ELSE {[id |-> flow[r].session.id, user |-> u.id, num |-> 1,
           created |-> flow[r].time, expires |-> flow[r].time + SessionDuration,
           cred |-> [pw |-> u.pw, email |-> u.email]] :
          u \in {x \in users : x.id = Caller(r)}}
RenewedSessions(r) ==
  {IF s.id = flow[r].session.id THEN Renewed(r, s) ELSE s : s \in sessions}

\* One UPDATE by session id, outside a transaction.  The handler reads
\* f.Session.ID and panics without a session.
RenewSession(r) ==
  /\ in[r].op = "RenewSession" /\ pc[r] = "call"
  /\ IF HasSession(r)
       THEN /\ sessions' = RenewedSessions(r)
            /\ IF flow[r].session.id \in Ids(sessions)
                 THEN Commit(r)
                 ELSE Answer(r, "unauthorized")
       ELSE Panic(r) /\ UNCHANGED sessions
  /\ UNCHANGED <<users, tokens, bans, now, in, flow>>

\* DELETE FROM auth.sessions with the filters that were given.  A list that
\* is empty and not nil passes the validation when there is a user id, and
\* then makes IN (), which PostgreSQL refuses.
ClearRows(r, ids, user) ==
  IF ids \in {None, {}} /\ user = None
    THEN Answer(r, "validation") /\ UNCHANGED sessions
  ELSE IF ids = {}
    THEN Answer(r, "internal") /\ UNCHANGED sessions
  ELSE sessions' = sessions \ Matching(ids, user) /\ Commit(r)

ClearSessions(r) ==
  /\ in[r].op = "ClearSessions" /\ pc[r] = "call"
  /\ ClearRows(r, in[r].ids, ClearsOf(r))
  /\ UNCHANGED <<users, tokens, bans, now, in, flow>>

\* api.logout clears sessions of the caller only.
Logout(r) ==
  /\ in[r].op = "logout" /\ pc[r] = "call"
  /\ IF HasSession(r)
       THEN ClearRows(r, in[r].ids, ClearsOf(r))
       ELSE Panic(r) /\ UNCHANGED sessions
  /\ UNCHANGED <<users, tokens, bans, now, in, flow>>

\* Called by the operations that must leave the user no session.
deleteUserSessions(u) == sessions' = {s \in sessions : s.user # u}

SessionsStep(r) ==
  \/ CreateSession(r)
  \/ RenewSession(r)
  \/ ClearSessions(r)
  \/ Logout(r)
=============================================================================
