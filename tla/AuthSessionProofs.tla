-------------------------- MODULE AuthSessionProofs --------------------------
(***************************************************************************)
(* Sessions, credentials and bans, for any number of requests and users.   *)
(*                                                                         *)
(* A login knows something of its user from the moment it holds the row:   *)
(* the credentials, then that no ban is active, then that its number is    *)
(* free.  Whoever could make one of these false must hold the same row, so *)
(* they still hold when the session is inserted (LoginKnows).  A BanUser   *)
(* without Replace knows in the same way that there is no ban to overwrite *)
(* (BanKnows).                                                             *)
(***************************************************************************)
EXTENDS AuthLockProofs

\* The ids users get are new: whoever made the user has ended.
UserIdsFresh ==
  /\ \A u, v \in users : u.id = v.id => u = v
  /\ \A u \in users : u.id \in Requests => pc[u.id] = "done"

FlowsArePast == \A r \in Requests : flow[r].time <= now

CredentialsKnown(r) ==
  \A u \in users : u.id = loc[r].user => loc[r].cred = [pw |-> u.pw, email |-> u.email]
NoBanKnown(r) ==
  \A b \in bans : b.user = loc[r].user => ~ActiveBan(b, flow[r].time)
NumberKnown(r) ==
  \A s \in sessions : s.user = loc[r].user => s.num # loc[r].num

LoginKnows ==
  \A r \in Requests :
    in[r].op = "CreateSession" =>
      /\ pc[r] \in {"check_ban", "count", "number", "insert"} => CredentialsKnown(r)
      /\ pc[r] \in {"count", "number", "insert"} => NoBanKnown(r)
      /\ pc[r] = "insert" => NumberKnown(r)

BanKnows ==
  \A r \in Requests :
    in[r].op = "BanUser" /\ ~in[r].replace /\ pc[r] = "upsert_ban" => NoBanKnown(r)

\* The session a request was authenticated with was there when it arrived.
BearersAreOld ==
  /\ \A s \in sessions :
       s.created <= now /\ (s.id \in Requests => pc[s.id] = "done")
  /\ \A r \in Requests : resp[r] # "none" => pc[r] = "done"
  /\ \A r \in Requests :
       pc[r] = "authn" \/ HasSession(r) =>
         /\ flow[r].bearer \in Requests => pc[flow[r].bearer] = "done"
         /\ \A s \in sessions :
              s.id = flow[r].bearer => s.created <= flow[r].time
         /\ HasSession(r) => flow[r].session.id = flow[r].bearer

SessionInv ==
  /\ LockInv
  /\ UserIdsFresh
  /\ ReferencesResolve
  /\ FlowsArePast
  /\ BearersAreOld
  /\ LoginKnows
  /\ BanKnows
  /\ SessionsMatchCredentials
  /\ BannedUsersHaveNoSession
  /\ SessionLifetimeBounded

-----------------------------------------------------------------------------
(* What a statement does to the tables                                     *)

LEMMA HandlerRuns ==
  ASSUME NEW r \in Requests, HandlerStep(r)
  PROVE  pc[r] \notin {"new", "done"}
<1>1. CASE SessionsStep(r)
  BY <1>1 DEF SessionsStep, CreateSession, LoginFind, LoginLock, LoginCheckBan,
              LoginCount, LoginNumber, LoginInsert, RenewSession, ClearSessions,
              Logout
<1>2. CASE SecurityStep(r)
  BY <1>2 DEF SecurityStep, BanUser, BanStart, BanLockUser, BanCheck, BanUpsert,
              UnbanUser
<1>3. CASE AdminStep(r)
  BY <1>3 DEF AdminStep, OwnStart, OwnLock, PasswordWrite, GetToken, SaveToken,
              ConfirmLock, EmailWrite, VerifyLock, VerifyCheckToken,
              VerifyWrite, ResetStart, ResetWrite
<1>4. CASE UsersStep(r)
  BY <1>4 DEF UsersStep, UserStart, UserInsert, UserSaveToken, DeleteStart,
              DeleteLockRow, DeleteCascade
<1>5. CASE Rollback(r)
  BY <1>5 DEF Rollback
<1> QED
  BY <1>1, <1>2, <1>3, <1>4, <1>5 DEF HandlerStep

\* The actions that write, and the tables they may write.
LEMMA WhoWrites ==
  ASSUME NEW r \in Requests, HandlerStep(r)
  PROVE  /\ \/ LoginInsert(r) \/ PasswordWrite(r) \/ ResetWrite(r) \/ EmailWrite(r)
            \/ VerifyWrite(r) \/ UserSaveToken(r) \/ DeleteCascade(r)
            \/ UNCHANGED users
         /\ \/ LoginInsert(r) \/ RenewSession(r) \/ sessions' \subseteq sessions
         /\ \/ BanUpsert(r) \/ UnbanUser(r) \/ DeleteCascade(r) \/ UNCHANGED bans
         /\ \/ SaveToken(r) \/ UserSaveToken(r) \/ EmailWrite(r) \/ VerifyWrite(r)
            \/ ResetWrite(r) \/ DeleteCascade(r) \/ UNCHANGED tokens
BY DEF HandlerStep, Rollback, db,
       SessionsStep, CreateSession, LoginFind, LoginLock, LoginCheckBan,
       LoginCount, LoginNumber, LoginInsert, RenewSession, ClearSessions, Logout,
       ClearRows, Matching, SecurityStep, BanUser, BanStart, BanLockUser, BanCheck,
       BanUpsert, UnbanUser, AdminStep, OwnStart, OwnLock, PasswordWrite,
       GetToken, SaveToken, ConfirmLock, EmailWrite, VerifyLock,
       VerifyCheckToken, VerifyWrite, ResetStart, ResetWrite,
       UsersStep, UserStart, UserInsert, UserSaveToken, DeleteStart,
       DeleteLockRow, DeleteCascade, deleteUserSessions, Survive

\* A session after the step was there before, at most with another expiry, or
\* is the one a login inserts.
LEMMA SessionsEffect ==
  ASSUME Typed, NEW r \in Requests, HandlerStep(r), NEW s \in sessions'
  PROVE  \/ s \in sessions
         \/ RenewSession(r) /\ HasSession(r) /\ \E x \in sessions :
              /\ s.id = x.id /\ s.user = x.user /\ s.num = x.num
              /\ s.cred = x.cred /\ s.created = x.created
              /\ x.id = flow[r].session.id
              /\ s.expires = flow[r].time + SessionDuration
         \/ LoginInsert(r) /\ ~InsertConflicts(r) /\ s = NewSession(r)
<1>1. CASE LoginInsert(r)
  BY <1>1 DEF LoginInsert
<1>2. CASE RenewSession(r)
  <2>1. CASE ~HasSession(r)
    BY <1>2, <2>1 DEF RenewSession
  <2>2. CASE HasSession(r)
    <3>1. PICK x \in sessions :
            s = IF x.id = flow[r].session.id THEN Renewed(r, x) ELSE x
      BY <1>2, <2>2 DEF RenewSession, RenewedSessions
    <3>2. x \in SessionRow
      BY DEF Typed, TypeOK
    <3> QED
      BY <1>2, <2>2, <3>1, <3>2 DEF Renewed, SessionRow
  <2> QED
    BY <2>1, <2>2
<1>3. CASE sessions' \subseteq sessions
  BY <1>3
<1> QED
  BY <1>1, <1>2, <1>3, WhoWrites

\* A user after the step was there before or is the one CreateUser makes; and
\* who changes a password or an address has locked the row and leaves the
\* user no session.
LEMMA UsersEffect ==
  ASSUME LockInv, NEW r \in Requests, HandlerStep(r), NEW v \in users'
  PROVE  \/ UserSaveToken(r) /\ v = NewUser(r)
         \/ \E u \in users :
              /\ u.id = v.id /\ u.username = v.username
              /\ \/ u.pw = v.pw /\ u.email = v.email
                 \/ /\ UserLock(v.id) \in locks[r]
                    /\ \A s \in sessions' : s.user # v.id
<1> USE DEF LockInv
<1>1. CASE LoginInsert(r)
  BY <1>1 DEF LoginInsert, Typed, TypeOK, UserRow
<1>2. CASE PasswordWrite(r) \/ ResetWrite(r)
  <2>1. UserLock(loc[r].user) \in locks[r]
    BY <1>2 DEF PasswordWrite, ResetWrite, HoldsUser, PastUserLock
  <2>2. CASE UNCHANGED users
    BY <2>2
  <2>3. CASE SetPassword(r) /\ deleteUserSessions(loc[r].user)
    BY <2>1, <2>3 DEF SetPassword, deleteUserSessions, Typed, TypeOK, UserRow
  <2> QED
    BY <1>2, <2>2, <2>3 DEF PasswordWrite, ResetWrite
<1>3. CASE EmailWrite(r)
  <2>1. UserLock(loc[r].user) \in locks[r]
    BY <1>3 DEF EmailWrite, HoldsUser, PastUserLock
  <2>2. users' = Readdressed(r) /\ deleteUserSessions(loc[r].user)
    BY <1>3 DEF EmailWrite
  <2> QED
    BY <2>1, <2>2 DEF Readdressed, deleteUserSessions, Typed, TypeOK, UserRow
<1>4. CASE VerifyWrite(r)
  BY <1>4 DEF VerifyWrite, Typed, TypeOK, UserRow
<1>5. CASE UserSaveToken(r)
  BY <1>5 DEF UserSaveToken
<1>6. CASE DeleteCascade(r)
  BY <1>6 DEF DeleteCascade
<1>7. CASE UNCHANGED users
  BY <1>7
<1> QED
  BY <1>1, <1>2, <1>3, <1>4, <1>5, <1>6, <1>7, WhoWrites

\* A ban after the step was there before, perhaps with its banned_by, and then
\* neither it nor its banned_by names a user that the step deletes; or it is
\* the one BanUser stores, which leaves its user no session.
Outlives(b, x, r) ==
  /\ SameBan(b, x)
  /\ b.user = x.user /\ b.bannedAt = x.bannedAt /\ b.unbannedAt = x.unbannedAt
  /\ b.by \in {x.by, None}
  /\ DeleteCascade(r) => b.user \notin Deleted(r) /\ b.by \notin Deleted(r) \ {None}

LEMMA BansEffect ==
  ASSUME LockInv, NEW r \in Requests, HandlerStep(r), NEW b \in bans'
  PROVE  \/ \E x \in bans : Outlives(b, x, r)
         \/ /\ BanUpsert(r) /\ b.user = loc[r].user /\ b.by = Caller(r)
            /\ {Caller(r), loc[r].user} \subseteq Ids(users)
            /\ UserLock(b.user) \in locks[r]
            /\ \A s \in sessions' : s.user # b.user
<1>1. CASE BanUpsert(r)
  <2>1. ~DeleteCascade(r)
    BY <1>1 DEF BanUpsert, DeleteCascade
  <2>2. CASE b \in bans
    BY <2>1, <2>2 DEF Outlives, SameBan
  <2>3. CASE b \notin bans
    BY <1>1, <2>3
    DEF BanUpsert, deleteUserSessions, NewBan, LockInv, HoldsUser, PastUserLock
  <2> QED
    BY <2>2, <2>3
<1>2. CASE ~DeleteCascade(r) /\ (UnbanUser(r) \/ UNCHANGED bans)
  BY <1>2 DEF UnbanUser, Outlives, SameBan
<1>3. CASE DeleteCascade(r)
  <2>1. PICK x \in Survive(bans, Deleted(r)) :
          b = IF x.by \in Deleted(r) THEN [x EXCEPT !.by = None] ELSE x
    BY <1>3 DEF DeleteCascade, BannerGone
  <2>2. x \in bans /\ x \in BanRow /\ x.user \notin Deleted(r)
    BY <2>1 DEF Survive, LockInv, Typed, TypeOK
  <2> QED
    BY <2>1, <2>2 DEF Outlives, SameBan, BanRow
<1> QED
  BY <1>1, <1>2, <1>3, WhoWrites

\* A token after the step was there before or is the one saveToken stores.
LEMMA TokensEffect ==
  ASSUME NEW r \in Requests, HandlerStep(r), NEW t \in tokens'
  PROVE  \/ t \in tokens
         \/ /\ SaveToken(r) \/ UserSaveToken(r)
            /\ t.id = r /\ t.user = loc[r].user /\ loc[r].user \in Ids(users)
            /\ t.kind = KindOf(in[r].op) /\ t.created = flow[r].time
            /\ in[r].op = "ChangeEmail" => t.email = in[r].email
<1>1. CASE SaveToken(r) \/ UserSaveToken(r)
  BY <1>1 DEF Referenced, SaveToken, UserSaveToken, Upsert
<1>2. CASE EmailWrite(r) \/ VerifyWrite(r) \/ ResetWrite(r)
  BY <1>2 DEF EmailWrite, VerifyWrite, ResetWrite, WithoutToken
<1>3. CASE DeleteCascade(r)
  BY <1>3 DEF DeleteCascade, Survive
<1>4. CASE UNCHANGED tokens
  BY <1>4
<1> QED
  BY <1>1, <1>2, <1>3, <1>4, WhoWrites

-----------------------------------------------------------------------------
(* What a statement keeps                                                  *)

LEMMA UserIdsStayFresh ==
  ASSUME SessionInv, NEW r \in Requests, HandlerStep(r)
  PROVE  UserIdsFresh'
<1> USE DEF SessionInv, LockInv
<1>1. OthersKept(r) /\ pc[r] \notin {"new", "done"}
  BY HandlerEffect, HandlerRuns
<1>2. UserSaveToken(r) => pc'[r] = "done"
  BY WritesEffect DEF Ends
<1>3. ASSUME NEW v \in users', v.id \in Requests PROVE pc'[v.id] = "done"
  <2>1. CASE UserSaveToken(r) /\ v = NewUser(r)
    BY <1>2, <2>1 DEF NewUser
  <2>2. ASSUME NEW u \in users, u.id = v.id PROVE pc'[v.id] = "done"
    BY <1>1, <1>3, <2>2 DEF UserIdsFresh, OthersKept
  <2> QED
    BY <2>1, <2>2, UsersEffect
<1>4. ASSUME NEW v \in users', NEW w \in users', v.id = w.id PROVE v = w
  <2>1. CASE LoginInsert(r)
    <3> DEFINE F(u) == IF u.id = loc[r].user THEN [u EXCEPT !.lastLogin = flow[r].time] ELSE u
    <3>1. \A u \in users : F(u).id = u.id
      BY DEF Typed, TypeOK, UserRow
    <3>2. users' = {F(u) : u \in users} \/ users' = users
      BY <2>1 DEF LoginInsert
    <3> HIDE DEF F
    <3> QED
      BY <1>4, <3>1, <3>2 DEF UserIdsFresh
  <2>2. CASE PasswordWrite(r) \/ ResetWrite(r)
    <3> DEFINE F(u) == IF u.id = loc[r].user THEN [u EXCEPT !.pw = in[r].newPw] ELSE u
    <3>1. \A u \in users : F(u).id = u.id
      BY DEF Typed, TypeOK, UserRow
    <3>2. users' = {F(u) : u \in users} \/ users' = users
      BY <2>2 DEF PasswordWrite, ResetWrite, SetPassword
    <3> HIDE DEF F
    <3> QED
      BY <1>4, <3>1, <3>2 DEF UserIdsFresh
  <2>3. CASE EmailWrite(r)
    <3> DEFINE F(u) == IF u.id = loc[r].user THEN [u EXCEPT !.email = loc[r].email] ELSE u
    <3>1. \A u \in users : F(u).id = u.id
      BY DEF Typed, TypeOK, UserRow
    <3>2. users' = {F(u) : u \in users} \/ users' = users
      BY <2>3 DEF EmailWrite, Readdressed
    <3> HIDE DEF F
    <3> QED
      BY <1>4, <3>1, <3>2 DEF UserIdsFresh
  <2>4. CASE VerifyWrite(r)
    <3> DEFINE F(u) == IF u.id = loc[r].user THEN [u EXCEPT !.verified = TRUE] ELSE u
    <3>1. \A u \in users : F(u).id = u.id
      BY DEF Typed, TypeOK, UserRow
    <3>2. users' = {F(u) : u \in users} \/ users' = users
      BY <2>4 DEF VerifyWrite
    <3> HIDE DEF F
    <3> QED
      BY <1>4, <3>1, <3>2 DEF UserIdsFresh
  <2>5. CASE UserSaveToken(r)
    <3>1. \A u \in users : u.id # r
      BY <1>1 DEF UserIdsFresh
    <3>2. NewUser(r).id = r
      BY DEF NewUser
    <3>3. users' = users \/ users' = users \cup {NewUser(r)}
      BY <2>5 DEF UserSaveToken
    <3> QED
      BY <1>4, <3>1, <3>2, <3>3 DEF UserIdsFresh
  <2>6. CASE DeleteCascade(r) \/ UNCHANGED users
    BY <1>4, <2>6 DEF DeleteCascade, UserIdsFresh
  <2> QED
    BY <2>1, <2>2, <2>3, <2>4, <2>5, <2>6, WhoWrites
<1> QED
  BY <1>3, <1>4 DEF UserIdsFresh

LEMMA ReferencesStay ==
  ASSUME SessionInv, NEW r \in Requests, HandlerStep(r)
  PROVE  ReferencesResolve'
<1> USE DEF SessionInv, LockInv
<1>1. ASSUME NEW row \in sessions' \cup tokens' \cup bans'
      PROVE  row.user \in Ids(users)
  <2>1. CASE row \in sessions'
    BY <2>1, SessionsEffect DEF InsertConflicts, NewSession, ReferencesResolve
  <2>2. CASE row \in tokens'
    BY <2>2, TokensEffect DEF ReferencesResolve
  <2>3. CASE row \in bans'
    BY <2>3, BansEffect DEF Outlives, ReferencesResolve
  <2> QED
    BY <2>1, <2>2, <2>3
<1>2. ASSUME NEW b \in bans' PROVE b.by \in Ids(users) \cup {None}
  BY BansEffect DEF Outlives, ReferencesResolve
<1>3. CASE DeleteCascade(r)
  <2>1. ASSUME NEW u \in Ids(users) \ Deleted(r) PROVE u \in Ids(users')
    <3>1. UserLock(u) \notin locks[r]
      BY <2>1 DEF Deleted, Ids, Typed, TypeOK, UserRow
    <3> QED
      BY <3>1, UsersStay
  <2>2. ASSUME NEW row \in sessions' \cup tokens' PROVE row.user \notin Deleted(r)
    BY <1>3 DEF DeleteCascade, Survive
  <2>3. ASSUME NEW b \in bans'
        PROVE  b.user \notin Deleted(r) /\ b.by \notin Deleted(r) \ {None}
    BY <1>3, BansEffect DEF Outlives, DeleteCascade, BanUpsert
  <2> QED
    BY <1>1, <1>2, <2>1, <2>2, <2>3 DEF ReferencesResolve
<1>4. CASE ~DeleteCascade(r)
  BY <1>1, <1>2, <1>4, UsersStay DEF ReferencesResolve
<1> QED
  BY <1>3, <1>4

LEMMA BearersStayOld ==
  ASSUME SessionInv, NEW r \in Requests, HandlerStep(r)
  PROVE  BearersAreOld'
<1> USE DEF SessionInv, LockInv
<1>1. /\ OthersKept(r) /\ UNCHANGED <<now, in, flow>>
      /\ pc[r] \notin {"new", "done"}
      /\ pc'[r] = "done" \/ (pc'[r] \in Statements /\ UNCHANGED resp)
  BY HandlerEffect, HandlerRuns DEF Ends, Takes
<1>2. now \in Nat /\ \A q \in Requests : flow[q].time \in Nat /\ flow[q].time <= now
  BY DEF Typed, TypeOK, FlowsArePast
<1>3. ASSUME NEW s \in sessions'
      PROVE  \/ \E x \in sessions : s.id = x.id /\ s.created = x.created
             \/ LoginInsert(r) /\ s.id = r /\ s.created = flow[r].time
  BY SessionsEffect DEF NewSession
<1>4. LoginInsert(r) => pc'[r] = "done"
  BY WritesEffect DEF Ends
<1>5. ASSUME NEW s \in sessions'
      PROVE  s.created <= now' /\ (s.id \in Requests => pc'[s.id] = "done")
  BY <1>1, <1>2, <1>3, <1>4 DEF BearersAreOld, OthersKept
<1>6. ASSUME NEW q \in Requests, resp'[q] # "none" PROVE pc'[q] = "done"
  <2>1. CASE q # r
    BY <1>1, <1>6, <2>1 DEF BearersAreOld, OthersKept
  <2>2. CASE q = r /\ pc'[r] # "done"
    BY <1>1, <1>6, <2>2 DEF BearersAreOld
  <2> QED
    BY <2>1, <2>2
<1>7. ASSUME NEW q \in Requests, pc'[q] = "authn" \/ HasSession(q)'
      PROVE  /\ flow'[q].bearer \in Requests => pc'[flow'[q].bearer] = "done"
             /\ \A s \in sessions' :
                  s.id = flow'[q].bearer => s.created <= flow'[q].time
             /\ HasSession(q)' => flow'[q].session.id = flow'[q].bearer
  <2>1. pc[q] = "authn" \/ HasSession(q)
    BY <1>1, <1>7 DEF OthersKept, HasSession, Statements
  <2>2. flow[q].bearer # r
    BY <1>1, <2>1 DEF BearersAreOld
  <2> QED
    BY <1>1, <1>3, <2>1, <2>2 DEF BearersAreOld, OthersKept, HasSession
<1> QED
  BY <1>5, <1>6, <1>7 DEF BearersAreOld

LEMMA CredentialsStay ==
  ASSUME SessionInv, NEW r \in Requests, HandlerStep(r)
  PROVE  SessionsMatchCredentials'
<1> USE DEF SessionInv, LockInv
<1> SUFFICES ASSUME NEW s \in sessions', NEW v \in users', v.id = s.user
             PROVE  s.cred = [pw |-> v.pw, email |-> v.email]
  BY DEF SessionsMatchCredentials
<1>1. s.user \in Ids(users)
  BY SessionsEffect DEF InsertConflicts, NewSession, ReferencesResolve
<1>2. v.id # r
  BY <1>1, HandlerRuns DEF UserIdsFresh, Ids
<1>3. PICK u \in users : u.id = v.id /\ u.pw = v.pw /\ u.email = v.email
  BY <1>2, UsersEffect DEF NewUser
<1>4. CASE \E x \in sessions : s.user = x.user /\ s.cred = x.cred
  BY <1>3, <1>4 DEF SessionsMatchCredentials
<1>5. CASE LoginInsert(r) /\ s = NewSession(r)
  BY <1>3, <1>5 DEF LoginInsert, NewSession, LoginKnows, CredentialsKnown
<1> QED
  BY <1>4, <1>5, SessionsEffect

LEMMA BansStayEffective ==
  ASSUME SessionInv, NEW r \in Requests, HandlerStep(r)
  PROVE  BannedUsersHaveNoSession'
<1> USE DEF SessionInv, LockInv
<1> SUFFICES ASSUME NEW b \in bans', NEW s \in sessions', ActiveBan(b, now'),
                    s.user = b.user
             PROVE  FALSE
  BY DEF BannedUsersHaveNoSession
<1>1. now' = now
  BY HandlerEffect
<1>2. PICK x \in bans : x.user = b.user /\ ActiveBan(x, now)
  BY <1>1, BansEffect DEF Outlives, ActiveBan
<1>3. CASE \E y \in sessions : s.user = y.user
  BY <1>2, <1>3 DEF BannedUsersHaveNoSession
<1>4. CASE LoginInsert(r) /\ s = NewSession(r)
  <2>1. ~ActiveBan(x, flow[r].time)
    BY <1>2, <1>4 DEF LoginInsert, NewSession, LoginKnows, NoBanKnown
  <2> QED
    BY <1>2, <2>1 DEF ActiveBan, FlowsArePast, Typed, TypeOK, BanRow
<1> QED
  BY <1>3, <1>4, SessionsEffect

LEMMA LifetimesStayBounded ==
  ASSUME SessionInv, NEW r \in Requests, HandlerStep(r)
  PROVE  SessionLifetimeBounded'
<1> USE DEF SessionInv, LockInv
<1> SUFFICES ASSUME NEW s \in sessions'
             PROVE  s.created <= s.expires /\ s.expires <= now' + SessionDuration
  BY DEF SessionLifetimeBounded
<1>1. /\ now' = now /\ now \in Nat /\ SessionDuration \in Nat
      /\ flow[r].time \in Nat /\ flow[r].time <= now
  BY HandlerEffect, ConfigAssumption DEF Typed, TypeOK, FlowsArePast
<1>2. CASE s \in sessions
  BY <1>1, <1>2 DEF SessionLifetimeBounded
<1>3. ASSUME RenewSession(r), HasSession(r), NEW x \in sessions, s.created = x.created,
             x.id = flow[r].session.id, s.expires = flow[r].time + SessionDuration
      PROVE  s.created <= s.expires /\ s.expires <= now' + SessionDuration
  <2>1. x.created <= flow[r].time /\ x.created \in Nat
    BY <1>3 DEF BearersAreOld, Typed, TypeOK, SessionRow
  <2> QED
    BY <1>1, <1>3, <2>1
<1>4. CASE s = NewSession(r)
  BY <1>1, <1>4 DEF NewSession
<1> QED
  BY <1>2, <1>3, <1>4, SessionsEffect

-----------------------------------------------------------------------------
(* What a login and a ban know, while others run                           *)

\* Whatever q knows of the user it has locked survives a step of r.
LEMMA KnowledgeStays ==
  ASSUME SessionInv, NEW r \in Requests, HandlerStep(r),
         NEW q \in Requests \ {r}, PastUserLock(q)
  PROVE  /\ CredentialsKnown(q) => CredentialsKnown(q)'
         /\ NoBanKnown(q) => NoBanKnown(q)'
         /\ NumberKnown(q) => NumberKnown(q)'
<1> USE DEF SessionInv, LockInv
<1>1. /\ loc'[q] = loc[q] /\ flow'[q] = flow[q] /\ in'[q] = in[q]
  BY HandlerEffect DEF OthersKept
<1>2. UserLock(loc[q].user) \in locks[q] /\ loc[q].user \in UserIds
  BY LockShapes DEF HoldsUser, Typed, TypeOK
<1>3. UserLock(loc[q].user) \notin locks[r] /\ loc[q].user \in Ids(users)
  BY <1>2 DEF LocksExclusive, LockedUsersStay
<1>4. ASSUME CredentialsKnown(q) PROVE CredentialsKnown(q)'
  <2> SUFFICES ASSUME NEW v \in users', v.id = loc[q].user
               PROVE  loc[q].cred = [pw |-> v.pw, email |-> v.email]
    BY <1>1 DEF CredentialsKnown
  <2>1. v.id # r
    BY <1>3, HandlerRuns DEF UserIdsFresh, Ids
  <2>2. PICK u \in users : u.id = v.id /\ u.pw = v.pw /\ u.email = v.email
    BY <1>3, <2>1, UsersEffect DEF NewUser
  <2> QED
    BY <1>4, <2>2 DEF CredentialsKnown
<1>5. ASSUME NoBanKnown(q) PROVE NoBanKnown(q)'
  BY <1>1, <1>3, <1>5, BansEffect DEF Outlives, NoBanKnown, ActiveBan
<1>6. ASSUME NumberKnown(q) PROVE NumberKnown(q)'
  <2> SUFFICES ASSUME NEW s \in sessions', s.user = loc[q].user
               PROVE  s.num # loc[q].num
    BY <1>1 DEF NumberKnown
  <2>1. CASE LoginInsert(r) /\ s = NewSession(r)
    <3>1. UserLock(loc[r].user) \in locks[r]
      BY <2>1 DEF LoginInsert, HoldsUser, PastUserLock
    <3> QED
      BY <1>3, <2>1, <3>1 DEF NewSession
  <2>2. CASE \E x \in sessions : s.user = x.user /\ s.num = x.num
    BY <1>6, <2>2 DEF NumberKnown
  <2> QED
    BY <2>1, <2>2, SessionsEffect
<1> QED
  BY <1>4, <1>5, <1>6

\* What a login learns with its own steps.
LEMMA LoginLearns ==
  ASSUME SessionInv, NEW r \in Requests, HandlerStep(r), in[r].op = "CreateSession",
         pc'[r] \in {"check_ban", "count", "number", "insert"}
  PROVE  /\ CredentialsKnown(r)'
         /\ pc'[r] \in {"count", "number", "insert"} => NoBanKnown(r)'
         /\ pc'[r] = "insert" => NumberKnown(r)'
<1> USE DEF SessionInv, LockInv
<1>1. LoginLock(r) \/ LoginCheckBan(r) \/ LoginCount(r) \/ LoginNumber(r)
  <2>1. SessionsStep(r) \/ Rollback(r)
    BY DEF HandlerStep, SecurityStep, BanUser, BanStart, BanLockUser, BanCheck,
           BanUpsert, UnbanUser, AdminStep, OwnStart, OwnLock, PasswordWrite,
           GetToken, ConfirmOps, SaveToken, ConfirmLock, EmailWrite, VerifyLock,
           VerifyCheckToken, VerifyWrite, ResetStart, ResetWrite,
           UsersStep, UserStart, UserInsert, UserSaveToken, DeleteStart,
           DeleteLockRow, DeleteCascade
  <2>2. ~Rollback(r) /\ ~LoginInsert(r)
    BY WritesEffect DEF Rollback, Answer, Ends, Typed, TypeOK
  <2>3. ~LoginFind(r)
    BY DEF LoginFind, Goto, Answer, Typed, TypeOK
  <2> QED
    BY <2>1, <2>2, <2>3
    DEF SessionsStep, CreateSession, RenewSession, ClearSessions, Logout
<1>2. UNCHANGED <<db, flow>> /\ pc'[r] # "done"
  BY <1>1 DEF LoginLock, LoginCheckBan, LoginCount, LoginNumber
<1>3. CASE LoginLock(r)
  <2>1. PICK u \in users :
          /\ u.id = loc[r].user
          /\ loc' = [loc EXCEPT ![r].cred = [pw |-> u.pw, email |-> u.email]]
          /\ Goto(r, "check_ban")
    BY <1>2, <1>3 DEF LoginLock, Answer, Typed, TypeOK
  <2>2. /\ loc'[r].cred = [pw |-> u.pw, email |-> u.email]
        /\ loc'[r].user = u.id /\ pc'[r] = "check_ban"
    BY <2>1 DEF Goto, Typed, TypeOK, Locals
  <2> QED
    BY <1>2, <2>2 DEF db, CredentialsKnown, UserIdsFresh
<1>4. CASE LoginCheckBan(r)
  <2>1. /\ UNCHANGED loc /\ pc'[r] = "count" /\ pc[r] = "check_ban"
        /\ NoBanKnown(r)
    BY <1>2, <1>4 DEF LoginCheckBan, Goto, Answer, Typed, TypeOK, NoBanKnown
  <2> QED
    BY <1>2, <2>1 DEF db, LoginKnows, CredentialsKnown, NoBanKnown, ActiveBan
<1>5. CASE LoginCount(r)
  <2>1. UNCHANGED loc /\ pc'[r] = "number" /\ pc[r] = "count"
    BY <1>2, <1>5 DEF LoginCount, Goto, Answer, Typed, TypeOK
  <2> QED
    BY <1>2, <2>1 DEF db, LoginKnows, CredentialsKnown, NoBanKnown, ActiveBan
<1>6. CASE LoginNumber(r)
  <2>1. PICK n \in FreeNumbers(loc[r].user) : loc' = [loc EXCEPT ![r].num = n]
    BY <1>2, <1>6 DEF LoginNumber, Answer, Typed, TypeOK
  <2>2. /\ loc'[r].num = n /\ loc'[r].user = loc[r].user
        /\ loc'[r].cred = loc[r].cred /\ pc[r] = "number"
    BY <1>6, <2>1 DEF LoginNumber, Typed, TypeOK, Locals
  <2>3. NumberKnown(r)'
    BY <1>2, <2>1, <2>2 DEF db, NumberKnown, FreeNumbers, SessionsOf
  <2>4. CredentialsKnown(r)' /\ NoBanKnown(r)'
    BY <1>2, <1>6, <2>2
    DEF LoginNumber, db, LoginKnows, CredentialsKnown, NoBanKnown, ActiveBan
  <2> QED
    BY <2>3, <2>4
<1> QED
  BY <1>1, <1>3, <1>4, <1>5, <1>6

\* What a ban without Replace learns.
LEMMA BanLearns ==
  ASSUME SessionInv, NEW r \in Requests, HandlerStep(r), in[r].op = "BanUser",
         ~in[r].replace, pc'[r] = "upsert_ban"
  PROVE  NoBanKnown(r)'
<1> USE DEF SessionInv, LockInv
<1>1. BanCheck(r)
  <2>1. SecurityStep(r) \/ Rollback(r)
    BY DEF HandlerStep, SessionsStep, CreateSession, LoginFind, LoginLock,
           LoginCheckBan, LoginCount, LoginNumber, LoginInsert, RenewSession,
           ClearSessions, Logout, AdminStep, OwnStart, OwnLock, PasswordWrite,
           GetToken, ConfirmOps, SaveToken, ConfirmLock, EmailWrite, VerifyLock,
           VerifyCheckToken, VerifyWrite, ResetStart, ResetWrite,
           UsersStep, UserStart, UserInsert, UserSaveToken, DeleteStart,
           DeleteLockRow, DeleteCascade
  <2>2. ~Rollback(r) /\ ~BanUpsert(r)
    BY WritesEffect DEF Rollback, Answer, Ends, Typed, TypeOK
  <2>3. ~BanStart(r) /\ ~BanLockUser(r)
    BY DEF BanStart, BanLockUser, Goto, Answer, Typed, TypeOK
  <2> QED
    BY <2>1, <2>2, <2>3 DEF SecurityStep, BanUser, UnbanUser
<1>2. UNCHANGED <<db, flow, loc>> /\ ~BanExists(r)
  BY <1>1, BanCheckEffect DEF BanCheck
<1> QED
  BY <1>2 DEF db, BanExists, NoBanKnown, ActiveBan

LEMMA KnowledgeKept ==
  ASSUME SessionInv, NEW r \in Requests, HandlerStep(r)
  PROVE  LoginKnows' /\ BanKnows'
<1> USE DEF SessionInv, LockInv
<1>1. ASSUME NEW q \in Requests \ {r}
      PROVE  pc'[q] = pc[q] /\ in'[q] = in[q]
  BY HandlerEffect DEF OthersKept
<1>2. in' = in
  BY HandlerEffect
<1>3. LoginKnows'
  <2> SUFFICES ASSUME NEW q \in Requests, in[q].op = "CreateSession",
                      pc'[q] \in {"check_ban", "count", "number", "insert"}
               PROVE  /\ CredentialsKnown(q)'
                      /\ pc'[q] \in {"count", "number", "insert"} => NoBanKnown(q)'
                      /\ pc'[q] = "insert" => NumberKnown(q)'
    BY <1>2 DEF LoginKnows
  <2>1. CASE q = r
    BY <2>1, LoginLearns
  <2>2. CASE q # r
    BY <1>1, <2>2, KnowledgeStays DEF LoginKnows, PastUserLock
  <2> QED
    BY <2>1, <2>2
<1>4. BanKnows'
  <2> SUFFICES ASSUME NEW q \in Requests, in[q].op = "BanUser", ~in[q].replace,
                      pc'[q] = "upsert_ban"
               PROVE  NoBanKnown(q)'
    BY <1>2 DEF BanKnows
  <2>1. CASE q = r
    BY <2>1, BanLearns
  <2>2. CASE q # r
    BY <1>1, <2>2, KnowledgeStays DEF BanKnows, PastUserLock
  <2> QED
    BY <2>1, <2>2
<1> QED
  BY <1>3, <1>4

-----------------------------------------------------------------------------
(* The invariant                                                           *)

LEMMA InitSessions == Init => SessionInv
<1> SUFFICES ASSUME Init PROVE SessionInv
  OBVIOUS
<1>1. LockInv
  BY InitLocks
<1>2. UserIdsFresh
  BY SeedAssumption DEF Init, UserIdsFresh, Accounts
<1>3. ReferencesResolve
  BY SeedAssumption DEF Init, ReferencesResolve, Ids
<1>4. ASSUME NEW s \in sessions, NEW v \in users, v.id = s.user
      PROVE  s.cred = [pw |-> v.pw, email |-> v.email]
  <2>1. PICK u \in SeedUsers :
          u.id = s.user /\ s.cred = [pw |-> u.pw, email |-> u.email]
    BY SeedAssumption DEF Init
  <2>2. u = v
    BY <1>4, <2>1, SeedAssumption DEF Init
  <2> QED
    BY <2>1, <2>2
<1>5. BearersAreOld
  BY SeedAssumption DEF Init, BearersAreOld, HasSession
<1>6. SessionLifetimeBounded
  BY SeedAssumption, ConfigAssumption DEF Init, SessionLifetimeBounded
<1>7. /\ FlowsArePast /\ LoginKnows /\ BanKnows /\ BannedUsersHaveNoSession
  BY DEF Init, FlowsArePast, LoginKnows, BanKnows, BannedUsersHaveNoSession
<1> QED
  BY <1>1, <1>2, <1>3, <1>4, <1>5, <1>6, <1>7
  DEF SessionInv, SessionsMatchCredentials

\* A request that arrives or is authenticated changes no table and knows
\* nothing yet.
LEMMA ReceiveSessions ==
  ASSUME SessionInv, LockInv', NEW r \in Requests, Receive(r)
  PROVE  SessionInv'
<1> USE DEF SessionInv
<1>1. /\ UNCHANGED <<users, sessions, tokens, bans, now, loc, locks, resp>>
      /\ pc[r] = "new" /\ pc'[r] \in {"call", "authn"}
      /\ \A q \in Requests \ {r} : /\ pc'[q] = pc[q] /\ in'[q] = in[q]
                                   /\ flow'[q] = flow[q]
      /\ flow'[r].time = now /\ flow'[r].session = None
      /\ pc'[r] = "authn" => flow'[r].bearer \in KnownSessions
  BY DEF NewFlow, Receive, Goto, db, LockInv, Typed, TypeOK
<1>2. UserIdsFresh' /\ ReferencesResolve' /\ SessionsMatchCredentials'
  BY <1>1 DEF UserIdsFresh, ReferencesResolve, SessionsMatchCredentials, Ids
<1>3. BannedUsersHaveNoSession' /\ SessionLifetimeBounded'
  BY <1>1 DEF BannedUsersHaveNoSession, SessionLifetimeBounded, ActiveBan
<1>4. FlowsArePast'
  BY <1>1 DEF FlowsArePast, LockInv, Typed, TypeOK
<1>5. LoginKnows' /\ BanKnows'
  BY <1>1 DEF LoginKnows, BanKnows, CredentialsKnown, NoBanKnown, NumberKnown, ActiveBan
<1>6. BearersAreOld'
  <2>1. \A s \in sessions : s.created <= now /\ (s.id \in Requests => pc'[s.id] = "done")
    BY <1>1 DEF BearersAreOld
  <2>2. \A q \in Requests : resp[q] # "none" => pc'[q] = "done"
    BY <1>1 DEF BearersAreOld
  <2>3. ASSUME pc'[r] = "authn", flow'[r].bearer \in Requests
        PROVE  pc'[flow'[r].bearer] = "done"
    BY <1>1, <2>1, <2>2, <2>3, SeedAssumption DEF KnownSessions, Ids
  <2> QED
    BY <1>1, <2>1, <2>2, <2>3 DEF BearersAreOld, HasSession
<1> QED
  BY <1>2, <1>3, <1>4, <1>5, <1>6

LEMMA AuthenticateSessions ==
  ASSUME SessionInv, LockInv', NEW r \in Requests, Authenticate(r)
  PROVE  SessionInv'
<1> USE DEF SessionInv
<1>1. /\ UNCHANGED <<users, sessions, tokens, bans, now, in>>
      /\ pc[r] = "authn" /\ pc'[r] \in {"call", "done"}
      /\ \A q \in Requests \ {r} :
           /\ pc'[q] = pc[q] /\ flow'[q] = flow[q] /\ loc'[q] = loc[q]
           /\ resp'[q] = resp[q]
      /\ flow'[r].time = flow[r].time /\ flow'[r].bearer = flow[r].bearer
      /\ \/ flow'[r].session = flow[r].session
         \/ flow'[r].session.id = flow[r].bearer
      /\ pc'[r] = "done" \/ UNCHANGED resp
  BY DEF Authenticate, Goto, Answer, db, LockInv, Typed, TypeOK
<1>2. UserIdsFresh' /\ ReferencesResolve' /\ SessionsMatchCredentials'
  BY <1>1 DEF UserIdsFresh, ReferencesResolve, SessionsMatchCredentials, Ids
<1>3. BannedUsersHaveNoSession' /\ SessionLifetimeBounded'
  BY <1>1 DEF BannedUsersHaveNoSession, SessionLifetimeBounded, ActiveBan
<1>4. FlowsArePast'
  BY <1>1 DEF FlowsArePast
<1>5. LoginKnows' /\ BanKnows'
  BY <1>1 DEF LoginKnows, BanKnows, CredentialsKnown, NoBanKnown, NumberKnown, ActiveBan
<1>6. BearersAreOld'
  BY <1>1 DEF BearersAreOld, HasSession
<1> QED
  BY <1>2, <1>3, <1>4, <1>5, <1>6

LEMMA HandlerSessions ==
  ASSUME SessionInv, LockInv', NEW r \in Requests, HandlerStep(r)
  PROVE  SessionInv'
<1>1. FlowsArePast'
  BY HandlerEffect DEF FlowsArePast, SessionInv, LockInv
<1> QED
  BY <1>1, UserIdsStayFresh, ReferencesStay, BearersStayOld, CredentialsStay,
     BansStayEffective, LifetimesStayBounded, KnowledgeKept
  DEF SessionInv

LEMMA TickSessions ==
  ASSUME SessionInv, LockInv', Tick
  PROVE  SessionInv'
<1> USE DEF SessionInv
<1>1. /\ UNCHANGED <<users, sessions, tokens, bans, in, flow, pc, loc, resp>>
      /\ now' = now + 1 /\ now \in Nat
  BY DEF Tick, db, LockInv, Typed, TypeOK
<1>2. UserIdsFresh' /\ ReferencesResolve' /\ SessionsMatchCredentials'
  BY <1>1 DEF UserIdsFresh, ReferencesResolve, SessionsMatchCredentials, Ids
<1>3. BannedUsersHaveNoSession'
  BY <1>1 DEF BannedUsersHaveNoSession, ActiveBan, LockInv, Typed, TypeOK, BanRow
<1>4. SessionLifetimeBounded'
  BY <1>1, ConfigAssumption
  DEF SessionLifetimeBounded, LockInv, Typed, TypeOK, SessionRow
<1>5. FlowsArePast'
  BY <1>1 DEF FlowsArePast, LockInv, Typed, TypeOK
<1>6. LoginKnows' /\ BanKnows'
  BY <1>1 DEF LoginKnows, BanKnows, CredentialsKnown, NoBanKnown, NumberKnown, ActiveBan
<1>7. BearersAreOld'
  BY <1>1 DEF BearersAreOld, HasSession, LockInv, Typed, TypeOK, SessionRow
<1> QED
  BY <1>2, <1>3, <1>4, <1>5, <1>6, <1>7

LEMMA NextSessions == SessionInv /\ [Next]_vars => SessionInv'
<1> SUFFICES ASSUME SessionInv, [Next]_vars PROVE SessionInv'
  OBVIOUS
<1>1. LockInv'
  BY NextLocks DEF SessionInv
<1>2. CASE \E r \in Requests : Receive(r) \/ Authenticate(r) \/ HandlerStep(r)
  BY <1>1, <1>2, ReceiveSessions, AuthenticateSessions, HandlerSessions
<1>3. CASE UNCHANGED vars
  BY <1>1, <1>3
  DEF vars, db, SessionInv, UserIdsFresh, ReferencesResolve, FlowsArePast,
      BearersAreOld, HasSession, LoginKnows, BanKnows, CredentialsKnown,
      NoBanKnown, NumberKnown, ActiveBan, SessionsMatchCredentials,
      BannedUsersHaveNoSession, SessionLifetimeBounded, Ids
<1> QED
  BY <1>1, <1>2, <1>3, TickSessions, NextCases

\* The invariant behind the theorems of this module.
THEOREM Session == Spec => []SessionInv
BY InitSessions, NextSessions, PTL DEF Spec

\* No session survives a change of its user's password or address, however a
\* login runs beside the change.
THEOREM SessionsMatch == Spec => []SessionsMatchCredentials
BY Session, PTL DEF SessionInv

\* No session exists while a ban of its user is active.
THEOREM BansAreEffective == Spec => []BannedUsersHaveNoSession
BY Session, PTL DEF SessionInv

\* No session lives longer than SessionDuration from now.
THEOREM LifetimesAreBounded == Spec => []SessionLifetimeBounded
BY Session, PTL DEF SessionInv

\* No session, token or ban refers to a user that is gone, nor does a banned_by.
THEOREM ReferencesAlwaysResolve == Spec => []ReferencesResolve
BY Session, PTL DEF SessionInv

\* The insert of a login violates no constraint.
THEOREM InsertsSucceed == Spec => []InsertNeverConflicts
<1>1. SessionInv => InsertNeverConflicts
  <2> SUFFICES ASSUME SessionInv, NEW r \in Requests, in[r].op = "CreateSession",
                      pc[r] = "insert"
               PROVE  ~InsertConflicts(r)
    BY DEF InsertNeverConflicts
  <2>1. UserLock(loc[r].user) \in locks[r] /\ loc[r].user \in UserIds
    BY LockShapes DEF SessionInv, LockInv, HoldsUser, PastUserLock, Typed, TypeOK
  <2>2. loc[r].user \in Ids(users)
    BY <2>1 DEF SessionInv, LockInv, LockedUsersStay
  <2>3. NumberKnown(r)
    BY DEF SessionInv, LoginKnows
  <2> QED
    BY <2>2, <2>3 DEF InsertConflicts, NumberKnown, SessionsOf
<1> QED
  BY <1>1, Session, PTL

-----------------------------------------------------------------------------
(* Action properties                                                       *)

\* A session appears only by the insert of its own login: what was revoked
\* stays revoked.
THEOREM RevocationIsFinal == Spec => RevokedStaysRevoked
<1>1. ASSUME SessionInv, [Next]_vars, NEW q \in Ids(sessions') \ Ids(sessions)
      PROVE  q \in Requests /\ pc[q] = "insert" /\ pc'[q] = "done"
  <2>1. PICK s \in sessions' : s.id = q /\ \A x \in sessions : x.id # q
    BY <1>1 DEF Ids
  <2>2. PICK r \in Requests : HandlerStep(r)
    BY <1>1, <2>1, NextCases DEF Receive, Authenticate, Tick, vars, db
  <2>3. LoginInsert(r) /\ s = NewSession(r)
    BY <1>1, <2>1, <2>2, SessionsEffect DEF SessionInv, LockInv
  <2> QED
    BY <1>1, <2>1, <2>3, WritesEffect DEF LoginInsert, NewSession, Ends, SessionInv, LockInv
<1>2. SessionInv /\ [Next]_vars =>
        [\A q \in Ids(sessions') \ Ids(sessions) :
           q \in Requests /\ pc[q] = "insert" /\ pc'[q] = "done"]_vars
  BY <1>1
<1> QED
  BY <1>2, Session, PTL DEF Spec, RevokedStaysRevoked

\* An active ban is lifted only on purpose or with its user: no BanUser without
\* Replace overwrites the ban of another, and the deletion of whoever imposed
\* one leaves it as long as it was.
THEOREM ActiveBansAreKept == Spec => ActiveBanKept
<1>1. ASSUME SessionInv, [Next]_vars, NEW b \in bans, ActiveBan(b, now),
             \A x \in bans' : ~SameBan(b, x)
      PROVE  \E r \in Requests :
               /\ pc[r] # "done" /\ pc'[r] = "done"
               /\ \/ in[r].op = "UnbanUser"
                  \/ in[r].op = "BanUser" /\ in[r].replace
                  \/ /\ in[r].op \in {"DeleteUsers", "deleteMyUser"}
                     /\ b.user \notin Ids(users')
  <2> USE DEF SessionInv, LockInv
  <2>1. b \notin bans' /\ b \in BanRow
    BY <1>1 DEF SameBan, Typed, TypeOK
  <2>2. PICK r \in Requests : HandlerStep(r)
    BY <1>1, <2>1, NextCases DEF Receive, Authenticate, Tick, vars, db
  <2>3. BanUpsert(r) \/ UnbanUser(r) \/ DeleteCascade(r)
    BY <2>1, <2>2, <1>1, WhoWrites
  <2>4. pc[r] # "done" /\ pc'[r] = "done"
    BY <1>1, <2>2, <2>3, HandlerRuns, WritesEffect DEF Ends
  <2>5. CASE BanUpsert(r)
    <3>1. b.user = loc[r].user /\ in[r].op = "BanUser" /\ pc[r] = "upsert_ban"
      BY <1>1, <2>1, <2>5 DEF BanUpsert
    <3>2. ActiveBan(b, flow[r].time)
      BY <1>1, <2>1 DEF ActiveBan, FlowsArePast, Typed, TypeOK, BanRow
    <3>3. in[r].replace
      BY <1>1, <3>1, <3>2 DEF BanKnows, NoBanKnown
    <3> QED
      BY <2>4, <3>1, <3>3
  <2>6. CASE DeleteCascade(r)
    <3> DEFINE kept == IF b.by \in Deleted(r) THEN [b EXCEPT !.by = None] ELSE b
    <3>1. SameBan(b, kept)
      BY <2>1 DEF SameBan, BanRow
    <3>2. b.user \in Deleted(r)
      BY <1>1, <2>6, <3>1 DEF DeleteCascade, BannerGone, Survive
    <3>3. b.user \notin Ids(users')
      BY <2>6, <3>2 DEF DeleteCascade, Ids
    <3> QED
      BY <2>4, <2>6, <3>3 DEF DeleteCascade
  <2> QED
    BY <2>3, <2>4, <2>5, <2>6 DEF UnbanUser
<1>2. SessionInv /\ [Next]_vars =>
        [\A b \in bans :
           ActiveBan(b, now) /\ (\A x \in bans' : ~SameBan(b, x)) =>
             \E r \in Requests :
               /\ pc[r] # "done" /\ pc'[r] = "done"
               /\ \/ in[r].op = "UnbanUser"
                  \/ in[r].op = "BanUser" /\ in[r].replace
                  \/ /\ in[r].op \in {"DeleteUsers", "deleteMyUser"}
                     /\ b.user \notin Ids(users')]_vars
  BY <1>1
<1> QED
  BY <1>2, Session, PTL DEF Spec, ActiveBanKept

-----------------------------------------------------------------------------
(* How long a ban lasts, for the refinement of Accounts: what the local    *)
(* variables of BanUser say of its input, and what a product in 64 bits    *)
(* leaves of one that fits.                                                *)

\* BanUser bans the user it was asked to.
BansWhomAsked ==
  \A r \in Requests :
    in[r].op = "BanUser" /\ pc[r] \in {"lock_user", "check_ban", "upsert_ban"} =>
      loc[r].user = in[r].user

\* Ban b is what r asked for.
AskedFor(b, r) ==
  /\ in[r].op = "BanUser" /\ in[r].user = b.user /\ flow[r].time = b.bannedAt
  /\ in[r].duration < 0 => b.unbannedAt = b.bannedAt
  /\ in[r].duration > 0 /\ in[r].duration * Second < DurationLimit =>
       b.unbannedAt = b.bannedAt + in[r].duration * Second

BanInv ==
  /\ Typed
  /\ BansWhomAsked

-----------------------------------------------------------------------------
\* A product that fits is what it was.
LEMMA Int64Fits ==
  ASSUME NEW n \in Int, 0 <= n, n < DurationLimit
  PROVE  Int64(n) = n
<1>1. DurationLimit \in Nat \ {0}
  BY ConfigAssumption
<1>2. (n + DurationLimit) % (2 * DurationLimit) = n + DurationLimit
  BY <1>1
<1> QED
  BY <1>1, <1>2 DEF Int64

\* Of a handler's steps, BanUser runs its own or is rolled back.
LEMMA BanSteps ==
  ASSUME NEW r \in Requests, HandlerStep(r), in[r].op = "BanUser"
  PROVE  BanUser(r) \/ Rollback(r)
<1>1. SecurityStep(r) \/ Rollback(r)
  BY DEF HandlerStep, SessionsStep, CreateSession, LoginFind, LoginLock,
         LoginCheckBan, LoginCount, LoginNumber, LoginInsert, RenewSession,
         ClearSessions, Logout, AdminStep, OwnStart, OwnLock, PasswordWrite,
         GetToken, ConfirmOps, SaveToken, ConfirmLock, EmailWrite, VerifyLock,
         VerifyCheckToken, VerifyWrite, ResetStart, ResetWrite,
         UsersStep, UserStart, UserInsert, UserSaveToken, DeleteStart,
         DeleteLockRow, DeleteCascade
<1> QED
  BY <1>1 DEF SecurityStep, UnbanUser

LEMMA WhomStaysAsked ==
  ASSUME BanInv, NEW r \in Requests, HandlerStep(r)
  PROVE  BansWhomAsked'
<1> SUFFICES ASSUME NEW q \in Requests, in'[q].op = "BanUser",
                    pc'[q] \in {"lock_user", "check_ban", "upsert_ban"}
             PROVE  loc'[q].user = in'[q].user
  BY DEF BansWhomAsked
<1>1. OthersKept(r) /\ in' = in
  BY HandlerEffect DEF BanInv
<1>2. CASE q # r
  BY <1>1, <1>2 DEF OthersKept, BanInv, BansWhomAsked
<1>3. CASE q = r
  <2>1. BanUser(r) /\ ~BanUpsert(r)
    BY <1>1, <1>3, BanSteps, WritesEffect
    DEF Ends, BanInv, Rollback, Answer, Typed, TypeOK
  <2>2. CASE BanStart(r)
    BY <1>3, <2>2 DEF BanStart, Answer, BanInv, Typed, TypeOK, Locals
  <2>3. CASE BanLockUser(r) \/ BanCheck(r)
    <3>1. pc[r] \in {"lock_user", "check_ban"} /\ in[r].op = "BanUser"
      BY <2>3 DEF BanLockUser, BanCheck
    <3>2. UNCHANGED loc
      BY <1>3, <2>3 DEF BanLockUser, BanCheck, Answer, BanInv, Typed, TypeOK
    <3> QED
      BY <1>1, <1>3, <3>1, <3>2 DEF BanInv, BansWhomAsked
  <2> QED
    BY <2>1, <2>2, <2>3 DEF BanUser
<1> QED
  BY <1>2, <1>3

\* The ban that a BanUser writes is what was asked for.
LEMMA NewBanAsked ==
  ASSUME BanInv, NEW r \in Requests, BanUpsert(r)
  PROVE  AskedFor(NewBan(r), r)
<1>1. in[r].op = "BanUser" /\ loc[r].user = in[r].user
  BY DEF BanUpsert, BanInv, BansWhomAsked
<1>2. in[r].duration \in Int /\ flow[r].time \in Int
  BY <1>1, InputFields DEF BanInv, Typed, TypeOK, NoInput
<1>3. Second \in Nat \ {0} /\ DurationLimit \in Nat \ {0}
  BY ConfigAssumption
<1>4. ASSUME in[r].duration > 0, in[r].duration * Second < DurationLimit
      PROVE  Duration(in[r].duration) = in[r].duration * Second
  <2>1. in[r].duration * Second \in Int /\ 0 <= in[r].duration * Second
    BY <1>2, <1>3, <1>4
  <2> QED
    BY <1>4, <2>1, Int64Fits DEF Duration
<1> QED
  BY <1>1, <1>2, <1>4 DEF AskedFor, NewBan

-----------------------------------------------------------------------------
LEMMA InitBans == Init => BanInv
<1>1. Init => BansWhomAsked
  BY DEF Init, BansWhomAsked
<1> QED
  BY <1>1, InitTyped DEF BanInv

LEMMA NextBans == BanInv /\ [Next]_vars => BanInv'
<1> SUFFICES ASSUME BanInv, [Next]_vars PROVE BanInv'
  OBVIOUS
<1>1. Typed'
  BY NextTyped DEF BanInv
<1>2. CASE \E r \in Requests : HandlerStep(r)
  BY <1>1, <1>2, WhomStaysAsked DEF BanInv
<1>3. ASSUME NEW r \in Requests, Receive(r) \/ Authenticate(r)
      PROVE  BanInv'
  <2>1. /\ pc'[r] \in {"call", "authn", "done"}
        /\ \A q \in Requests \ {r} : /\ pc'[q] = pc[q] /\ in'[q] = in[q]
                                     /\ loc'[q] = loc[q]
    BY <1>3 DEF Receive, Authenticate, Goto, Answer, db, BanInv, Typed, TypeOK
  <2>2. BansWhomAsked'
    BY <2>1 DEF BanInv, BansWhomAsked
  <2> QED
    BY <1>1, <2>2 DEF BanInv
<1>4. CASE Tick \/ UNCHANGED vars
  BY <1>1, <1>4 DEF Tick, vars, db, BanInv, BansWhomAsked
<1> QED
  BY <1>2, <1>3, <1>4, NextCases
=============================================================================
