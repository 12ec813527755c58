------------------------- MODULE AuthRefinementProofs ------------------------
(***************************************************************************)
(* AuthService implements Accounts, for any number of requests and users.  *)
(*                                                                         *)
(* A request takes effect with its last statement, on conditions it read   *)
(* with earlier ones.  Knows(r) is what r has established by the statement *)
(* it runs next and what still holds then: because it has locked the row   *)
(* or the name it read, or because what it read never changes (a username, *)
(* the expiry of a token, the ids there were).  With it each last          *)
(* statement is a step of Accounts, and every other one a refusal or a     *)
(* stutter.                                                                *)
(***************************************************************************)
EXTENDS AuthRefinement, AuthTokenProofs

Loggings == {"lock_user", "check_ban", "count", "number", "insert"}
OwnOps == {"ChangePassword", "ChangeEmail", "VerifyUser"}

\* An id that no request has yet to mint.
OldId(u) == u \in Requests => pc[u] = "done"

\* The progress of a request from arrival to answer.
Arrived(r) ==
  /\ pc[r] # "done" => resp[r] = "none"
  /\ pc[r] = "new" => in[r] = NoInput
  /\ pc[r] # "new" => in[r] \in Input
  /\ pc[r] \in {"new", "authn"} => ~HasSession(r)
  /\ pc[r] \in Statements /\ flow[r].bearer # None => HasSession(r)
  /\ pc[r] \in {"new", "authn", "call", "done"} => locks[r] = {}
  /\ HasSession(r) => OldId(Caller(r))

\* The user a handler works on has the name it was asked for.
NameKnown(r) ==
  /\ OldId(loc[r].user)
  /\ \A u \in users : u.id = loc[r].user => u.username = in[r].username
\* It has the password that was presented, and is not verified.
PasswordKnown(r) == \A u \in users : u.id = loc[r].user => u.pw = in[r].pw
UnverifiedKnown(r) == \A u \in users : u.id = loc[r].user => ~u.verified

LoginNames(r) ==
  in[r].op = "CreateSession" =>
    /\ pc[r] \in Loggings => NameKnown(r)
    /\ pc[r] \in Loggings \ {"lock_user"} => loc[r].cred.pw = in[r].pw

OwnKnows(r) ==
  in[r].op \in OwnOps =>
    /\ pc[r] \in {"lock_user", "write", "check_token", "save_token"} =>
         HasSession(r) /\ loc[r].user = Caller(r)
    /\ in[r].op = "ChangePassword" /\ pc[r] = "write" => PasswordKnown(r)
    /\ in[r].op = "ChangeEmail" /\ pc[r] = "save_token" => PasswordKnown(r)
    /\ in[r].op = "VerifyUser" /\ pc[r] \in {"check_token", "save_token"} =>
         UnverifiedKnown(r)

ResetKnows(r) ==
  in[r].op = "ResetPassword" /\ pc[r] = "save_token" => NameKnown(r)

\* A creation that has inserted its name holds the entry of the index.
CreateKnows(r) ==
  in[r].op = "CreateUser" =>
    /\ pc[r] \in {"insert_user", "save_token"} => in[r].pw \notin LongPasswords
    /\ pc[r] = "save_token" =>
         /\ HasSession(r) /\ loc[r].user = Caller(r)
         /\ NameLock(in[r].username) \in locks[r]
         /\ \A u \in users : u.username # in[r].username

ConfirmKnows(r) ==
  Confirming(r) =>
    \A t \in tokens : t.id = in[r].token => t.expires > flow[r].time

\* A deletion locks users it was asked to delete, and before the cascade all
\* of them that there are.
DeleteKnows(r) ==
  /\ in[r].op = "DeleteUsers" => \A u \in in[r].ids : OldId(u)
  /\ in[r].op \in DeleteOps /\ pc[r] \in {"lock_rows", "cascade"} =>
       /\ in[r].op = "deleteMyUser" => HasSession(r)
       /\ Targets(r) # {}
       /\ \A u \in UserIds : UserLock(u) \in locks[r] => u \in Targets(r)
       /\ pc[r] = "lock_rows" => loc[r].user \in Targets(r)
       /\ pc[r] = "cascade" =>
            \A u \in Targets(r) \cap Ids(users) : UserLock(u) \in locks[r]

Knows(r) ==
  /\ Arrived(r)
  /\ LoginNames(r)
  /\ OwnKnows(r)
  /\ ResetKnows(r)
  /\ CreateKnows(r)
  /\ ConfirmKnows(r)
  /\ DeleteKnows(r)

AtomicInv ==
  /\ TokenInv
  /\ BanInv
  /\ \A r \in Requests : Knows(r)

-----------------------------------------------------------------------------
(* What others do                                                          *)

\* A request that moves leaves no id to be minted that was not.
LEMMA IdsStayOld ==
  ASSUME NEW r \in Requests, OthersKept(r), pc[r] # "done", NEW u, OldId(u)
  PROVE  OldId(u)'
BY DEF OthersKept, OldId

\* Only a VerifyUserToken, which waits for whoever has locked the row, changes
\* whether a user is verified.
LEMMA VerifiedEffect ==
  ASSUME Typed, NEW r \in Requests, HandlerStep(r), NEW v \in users'
  PROVE  \/ UserSaveToken(r) /\ v = NewUser(r)
         \/ \E u \in users :
              /\ u.id = v.id
              /\ u.verified = v.verified \/ (VerifyWrite(r) /\ v.id = loc[r].user)
<1>1. CASE LoginInsert(r)
  BY <1>1 DEF LoginInsert, Typed, TypeOK, UserRow
<1>2. CASE PasswordWrite(r) \/ ResetWrite(r)
  BY <1>2 DEF PasswordWrite, ResetWrite, SetPassword, Typed, TypeOK, UserRow
<1>3. CASE EmailWrite(r)
  <2>1. users' = Readdressed(r)
    BY <1>3 DEF EmailWrite
  <2> QED
    BY <2>1 DEF Readdressed, Typed, TypeOK, UserRow
<1>4. CASE VerifyWrite(r)
  BY <1>4 DEF VerifyWrite, Typed, TypeOK, UserRow
<1>5. CASE UserSaveToken(r)
  BY <1>5 DEF UserSaveToken
<1>6. CASE DeleteCascade(r) \/ UNCHANGED users
  BY <1>6 DEF DeleteCascade
<1> QED
  BY <1>1, <1>2, <1>3, <1>4, <1>5, <1>6, WhoWrites

\* A user with an old id was there before under its name, and with its
\* password and verified or not if another request has locked its row.
LEMMA OldUsersStay ==
  ASSUME AtomicInv, NEW r \in Requests, HandlerStep(r), NEW v \in users', OldId(v.id)
  PROVE  \E u \in users :
           /\ u.id = v.id /\ u.username = v.username
           /\ \A q \in Requests \ {r} :
                UserLock(v.id) \in locks[q] => u.pw = v.pw /\ u.verified = v.verified
<1> USE DEF AtomicInv, TokenInv, SessionInv, LockInv
<1>1. v # NewUser(r)
  BY HandlerRuns DEF NewUser, OldId
<1>2. PICK u \in users :
        /\ u.id = v.id /\ u.username = v.username
        /\ \/ u.pw = v.pw
           \/ UserLock(v.id) \in locks[r]
  BY <1>1, UsersEffect
<1>3. \/ u.verified = v.verified
      \/ VerifyWrite(r) /\ v.id = loc[r].user
  BY <1>1, <1>2, VerifiedEffect DEF UserIdsFresh
<1>4. VerifyWrite(r) /\ v.id = loc[r].user =>
        \A q \in Requests \ {r} : UserLock(v.id) \notin locks[q]
  <2>1. VerifyWrite(r) => pc[r] = "lock_user" /\ Granted(r)
    BY DEF VerifyWrite
  <2>2. pc[r] = "lock_user" => UserLock(loc[r].user) \in Wants(r)
    BY DEF Wants, First
  <2> QED
    BY <2>1, <2>2 DEF Granted, Waits
<1>5. ASSUME NEW q \in Requests \ {r}, UserLock(v.id) \in locks[q]
      PROVE  u.pw = v.pw /\ u.verified = v.verified
  BY <1>2, <1>3, <1>4, <1>5 DEF LocksExclusive
<1> QED
  BY <1>2, <1>5

LEMMA OthersKnowNames ==
  ASSUME AtomicInv, NEW r \in Requests, HandlerStep(r), NEW q \in Requests \ {r}
  PROVE  /\ Arrived(q)' /\ LoginNames(q)' /\ ResetKnows(q)'
<1> USE DEF AtomicInv, TokenInv, SessionInv, LockInv
<1>1. /\ OthersKept(r) /\ UNCHANGED <<now, in, flow>> /\ pc[r] # "done"
      /\ pc'[q] = pc[q] /\ loc'[q] = loc[q] /\ locks'[q] = locks[q]
      /\ resp'[q] = resp[q]
  BY HandlerEffect, HandlerRuns DEF OthersKept
<1>2. Arrived(q) /\ LoginNames(q) /\ ResetKnows(q)
  BY DEF Knows
<1>3. Arrived(q)'
  BY <1>1, <1>2, IdsStayOld DEF Arrived, HasSession, Caller
<1>4. NameKnown(q) => NameKnown(q)'
  BY <1>1, IdsStayOld, OldUsersStay DEF NameKnown
<1> QED
  BY <1>1, <1>2, <1>3, <1>4 DEF LoginNames, ResetKnows

LEMMA OthersKnowTheirUser ==
  ASSUME AtomicInv, NEW r \in Requests, HandlerStep(r), NEW q \in Requests \ {r}
  PROVE  OwnKnows(q)'
<1> USE DEF AtomicInv, TokenInv, SessionInv, LockInv
<1>1. /\ UNCHANGED <<now, in, flow>>
      /\ pc'[q] = pc[q] /\ loc'[q] = loc[q] /\ locks'[q] = locks[q]
  BY HandlerEffect DEF OthersKept
<1>2. Arrived(q) /\ OwnKnows(q)
  BY DEF Knows
<1>3. ASSUME PastUserLock(q), OldId(loc[q].user)
      PROVE  /\ PasswordKnown(q) => PasswordKnown(q)'
             /\ UnverifiedKnown(q) => UnverifiedKnown(q)'
  <2>1. UserLock(loc[q].user) \in locks[q]
    BY <1>3 DEF HoldsUser
  <2> QED
    BY <1>1, <1>3, <2>1, OldUsersStay DEF PasswordKnown, UnverifiedKnown
<1> SUFFICES ASSUME in[q].op \in OwnOps,
                    pc[q] \in {"lock_user", "write", "check_token", "save_token"}
             PROVE  OwnKnows(q)'
  BY <1>1 DEF OwnKnows
<1>4. HasSession(q) /\ loc[q].user = Caller(q) /\ OldId(loc[q].user)
  BY <1>2 DEF Arrived, OwnKnows
<1>5. HasSession(q)' /\ loc'[q].user = Caller(q)'
  BY <1>1, <1>4 DEF HasSession, Caller
<1>6. /\ in[q].op = "ChangePassword" /\ pc[q] = "write" => PasswordKnown(q)'
      /\ in[q].op = "ChangeEmail" /\ pc[q] = "save_token" => PasswordKnown(q)'
      /\ in[q].op = "VerifyUser" /\ pc[q] \in {"check_token", "save_token"} =>
           UnverifiedKnown(q)'
  BY <1>2, <1>3, <1>4 DEF OwnKnows, PastUserLock
<1> QED
  BY <1>1, <1>5, <1>6 DEF OwnKnows

LEMMA OthersKnowTheirRows ==
  ASSUME AtomicInv, NEW r \in Requests, HandlerStep(r), NEW q \in Requests \ {r}
  PROVE  CreateKnows(q)' /\ ConfirmKnows(q)' /\ DeleteKnows(q)'
<1> USE DEF AtomicInv, TokenInv, SessionInv, LockInv
<1>1. /\ OthersKept(r) /\ UNCHANGED <<now, in, flow>> /\ pc[r] # "done"
      /\ pc'[q] = pc[q] /\ loc'[q] = loc[q] /\ locks'[q] = locks[q]
  BY HandlerEffect, HandlerRuns DEF OthersKept
<1>2. Arrived(q) /\ CreateKnows(q) /\ ConfirmKnows(q) /\ DeleteKnows(q)
  BY DEF Knows
<1>3. CreateKnows(q)'
  <2>1. ASSUME in[q].op = "CreateUser", pc[q] = "save_token", NEW v \in users'
        PROVE  v.username # in[q].username
    <3>1. CASE UserSaveToken(r) /\ v = NewUser(r)
      <4>1. NameLock(in[r].username) \in locks[r]
        BY <3>1 DEF UserSaveToken, Knows, CreateKnows
      <4>2. NameLock(in[q].username) \in locks[q]
        BY <1>2, <2>1 DEF CreateKnows
      <4>3. in[r].username # in[q].username
        BY <4>1, <4>2 DEF LocksExclusive
      <4> QED
        BY <3>1, <4>3 DEF NewUser
    <3>2. CASE \E u \in users : u.username = v.username
      BY <1>2, <2>1, <3>2 DEF CreateKnows
    <3> QED
      BY <2>1, <3>1, <3>2, UsersEffect
  <2> QED
    BY <1>1, <1>2, <2>1 DEF CreateKnows, HasSession, Caller
<1>4. ConfirmKnows(q)'
  <2> SUFFICES ASSUME Confirming(q), NEW t \in tokens', t.id = in[q].token
               PROVE  t.expires > flow[q].time
    BY <1>1 DEF ConfirmKnows, Confirming
  <2>1. pc[in[q].token] = "done"
    BY DEF Confirming, ConfirmationKeepsToken, TokenIdsFresh
  <2>2. t \in tokens
    BY <1>1, <2>1, TokensEffect
  <2> QED
    BY <1>2, <2>2 DEF ConfirmKnows
<1>5. DeleteKnows(q)'
  <2>1. in[q].op = "DeleteUsers" => \A u \in in[q].ids : OldId(u) /\ OldId(u)'
    BY <1>1, <1>2, IdsStayOld DEF DeleteKnows
  <2>2. Targets(q)' = Targets(q) /\ HasSession(q)' = HasSession(q)
    BY <1>1 DEF Targets, Caller, HasSession
  <2>3. ASSUME in[q].op \in DeleteOps, pc[q] = "cascade",
               NEW u \in Targets(q) \cap Ids(users')
        PROVE  UserLock(u) \in locks[q]
    <3>1. OldId(u)
      BY <1>2, <2>1, <2>3 DEF DeleteKnows, DeleteOps, Targets, Arrived
    <3>2. u \in Ids(users)
      BY <2>3, <3>1, OldUsersStay DEF Ids
    <3> QED
      BY <1>2, <2>3, <3>2 DEF DeleteKnows
  <2> QED
    BY <1>1, <1>2, <2>1, <2>2, <2>3 DEF DeleteKnows
<1> QED
  BY <1>3, <1>4, <1>5

-----------------------------------------------------------------------------
(* What a request learns with its own steps                                *)

\* A request that is answered keeps nothing.
LEMMA EndsKnowing ==
  ASSUME AtomicInv, NEW r \in Requests, HandlerStep(r), Ends(r)
  PROVE  Knows(r)'
<1> USE DEF AtomicInv, TokenInv, SessionInv, LockInv
<1>1. /\ OthersKept(r) /\ UNCHANGED <<now, in, flow>> /\ pc[r] \notin {"new", "done"}
      /\ pc'[r] = "done" /\ locks'[r] = {}
  BY HandlerEffect, HandlerRuns DEF Ends
<1>2. Arrived(r) /\ DeleteKnows(r)
  BY DEF Knows
<1>3. Arrived(r)'
  BY <1>1, <1>2, IdsStayOld DEF Arrived, HasSession, Caller, Statements
<1>4. DeleteKnows(r)'
  BY <1>1, <1>2, IdsStayOld DEF DeleteKnows
<1> QED
  BY <1>1, <1>3, <1>4
  DEF Knows, LoginNames, Loggings, OwnKnows, ResetKnows, CreateKnows, ConfirmKnows,
      Confirming

LEMMA ProceedsArrived ==
  ASSUME AtomicInv, NEW r \in Requests, HandlerStep(r), pc'[r] # "done"
  PROVE  Arrived(r)'
<1> USE DEF AtomicInv, TokenInv, SessionInv, LockInv
<1>1. /\ pc[r] \in Statements /\ pc'[r] \in Statements \ {"call"}
      /\ UNCHANGED <<db, now, in, flow, resp>> /\ OthersKept(r) /\ pc[r] # "done"
  BY Proceeding, HandlerEffect, HandlerRuns
<1>2. Arrived(r)
  BY DEF Knows
<1> QED
  BY <1>1, <1>2, IdsStayOld DEF Arrived, HasSession, Caller, Statements

\* A user that a statement finds has an old id.
LEMMA FoundIsOld ==
  ASSUME AtomicInv, NEW u \in users
  PROVE  OldId(u.id)
BY DEF AtomicInv, TokenInv, SessionInv, UserIdsFresh, OldId

LEMMA LoginLearnsNames ==
  ASSUME AtomicInv, NEW r \in Requests, HandlerStep(r), pc'[r] # "done"
  PROVE  LoginNames(r)'
<1> USE DEF AtomicInv, TokenInv, SessionInv, LockInv
<1>1. /\ UNCHANGED <<db, now, in, flow, resp>> /\ OthersKept(r) /\ pc[r] # "done"
  BY Proceeding, HandlerEffect, HandlerRuns
<1> SUFFICES ASSUME in[r].op = "CreateSession"
             PROVE  /\ NameKnown(r)'
                    /\ pc'[r] # "lock_user" => loc'[r].cred.pw = in[r].pw
  BY <1>1 DEF LoginNames, Loggings
<1>2. LoginNames(r)
  BY DEF Knows
<1>3. CASE LoginFind(r)
  <2>1. PICK u \in users : /\ u.username = in[r].username
                           /\ loc' = [loc EXCEPT ![r].user = u.id]
                           /\ Goto(r, "lock_user")
    BY <1>3 DEF LoginFind, Answer, Goto, Typed, TypeOK
  <2>2. loc'[r].user = u.id /\ pc'[r] = "lock_user"
    BY <2>1 DEF Goto, Typed, TypeOK, Locals
  <2>3. \A v \in users : v.id = u.id => v = u
    BY DEF UserIdsFresh
  <2>4. OldId(u.id)'
    BY <1>1, FoundIsOld, IdsStayOld
  <2> QED
    BY <1>1, <2>1, <2>2, <2>3, <2>4 DEF NameKnown, db
<1>4. CASE LoginLock(r)
  <2>1. PICK u \in users : u.pw = in[r].pw
               /\ loc' = [loc EXCEPT ![r].cred = [pw |-> u.pw, email |-> u.email]]
    BY <1>4 DEF LoginLock, Answer, Goto, Typed, TypeOK
  <2>2. loc'[r].user = loc[r].user /\ loc'[r].cred.pw = in[r].pw
    BY <2>1 DEF Typed, TypeOK, Locals
  <2>3. NameKnown(r)
    BY <1>2, <1>4 DEF LoginLock, LoginNames, Loggings
  <2> QED
    BY <1>1, <2>2, <2>3, IdsStayOld DEF NameKnown, db
<1>5. CASE LoginCheckBan(r) \/ LoginCount(r) \/ LoginNumber(r)
  <2>1. loc'[r].user = loc[r].user /\ loc'[r].cred = loc[r].cred
    BY <1>5
    DEF LoginCheckBan, LoginCount, LoginNumber, Answer, Goto, Typed, TypeOK, Locals
  <2>2. NameKnown(r) /\ loc[r].cred.pw = in[r].pw
    BY <1>2, <1>5 DEF LoginCheckBan, LoginCount, LoginNumber, LoginNames, Loggings
  <2> QED
    BY <1>1, <2>1, <2>2, IdsStayOld DEF NameKnown, db
<1> QED
  BY <1>3, <1>4, <1>5, Proceeding
  DEF BanStart, BanLockUser, BanCheck, OwnStart, OwnLock, VerifyLock,
      VerifyCheckToken, GetToken, ConfirmLock, ResetStart, UserStart, UserInsert,
      DeleteStart, DeleteLockRow, ConfirmOps

LEMMA OwnLearns ==
  ASSUME AtomicInv, NEW r \in Requests, HandlerStep(r), pc'[r] # "done"
  PROVE  OwnKnows(r)'
<1> USE DEF AtomicInv, TokenInv, SessionInv, LockInv
<1>1. UNCHANGED <<db, now, in, flow, resp>>
  BY Proceeding
<1> SUFFICES ASSUME in[r].op \in OwnOps
             PROVE  OwnKnows(r)'
  BY <1>1 DEF OwnKnows
<1>2. OwnKnows(r)
  BY DEF Knows
<1>3. CASE OwnStart(r)
  <2>1. /\ HasSession(r) /\ pc'[r] = "lock_user"
        /\ loc' = [loc EXCEPT ![r].user = Caller(r)]
    BY <1>3 DEF OwnStart, Panic, Answer, Goto, Typed, TypeOK
  <2>2. loc'[r].user = Caller(r)
    BY <2>1 DEF Typed, TypeOK, Locals
  <2> QED
    BY <1>1, <2>1, <2>2 DEF OwnKnows, HasSession, Caller
<1>4. CASE OwnLock(r) \/ VerifyLock(r)
  <2>1. PICK u \in users :
          /\ u.id = loc[r].user /\ pc[r] = "lock_user" /\ UNCHANGED loc
          /\ \/ /\ in[r].op = "ChangePassword" /\ u.pw = in[r].pw
                /\ pc'[r] = "write"
             \/ /\ in[r].op = "ChangeEmail" /\ u.pw = in[r].pw
                /\ pc'[r] = "save_token"
             \/ /\ in[r].op = "VerifyUser" /\ ~u.verified
                /\ pc'[r] = "check_token"
    BY <1>4 DEF OwnLock, VerifyLock, Answer, Goto, Typed, TypeOK
  <2>2. \A v \in users : v.id = u.id => v = u
    BY DEF UserIdsFresh
  <2>3. HasSession(r) /\ loc[r].user = Caller(r)
    BY <1>2, <2>1 DEF OwnKnows
  <2> QED
    BY <1>1, <2>1, <2>2, <2>3
    DEF OwnKnows, HasSession, Caller, PasswordKnown, UnverifiedKnown, db
<1>5. CASE VerifyCheckToken(r)
  <2>1. in[r].op = "VerifyUser" /\ pc[r] = "check_token" /\ UNCHANGED loc
    BY <1>5 DEF VerifyCheckToken, Answer, Goto, Typed, TypeOK
  <2>2. HasSession(r) /\ loc[r].user = Caller(r) /\ UnverifiedKnown(r)
    BY <1>2, <2>1 DEF OwnKnows, OwnOps
  <2> QED
    BY <1>1, <2>1, <2>2 DEF OwnKnows, HasSession, Caller, UnverifiedKnown, db
<1> QED
  BY <1>3, <1>4, <1>5, Proceeding
  DEF LoginFind, LoginLock, LoginCheckBan, LoginCount, LoginNumber, BanStart,
      BanLockUser, BanCheck, GetToken, ConfirmLock, ResetStart, UserStart,
      UserInsert, DeleteStart, DeleteLockRow, ConfirmOps, OwnOps

LEMMA ResetLearns ==
  ASSUME AtomicInv, NEW r \in Requests, HandlerStep(r), pc'[r] # "done"
  PROVE  ResetKnows(r)'
<1> USE DEF AtomicInv, TokenInv, SessionInv, LockInv
<1>1. /\ UNCHANGED <<db, now, in, flow, resp>> /\ OthersKept(r) /\ pc[r] # "done"
  BY Proceeding, HandlerEffect, HandlerRuns
<1>2. CASE in[r].op # "ResetPassword"
  BY <1>1, <1>2 DEF ResetKnows
<1>3. CASE ResetStart(r)
  <2>1. PICK u \in users : u.username = in[r].username
                           /\ loc' = [loc EXCEPT ![r].user = u.id]
    BY <1>3 DEF ResetStart, Answer, Goto, Typed, TypeOK
  <2>2. loc'[r].user = u.id
    BY <2>1 DEF Typed, TypeOK, Locals
  <2>3. \A v \in users : v.id = u.id => v = u
    BY DEF UserIdsFresh
  <2>4. OldId(u.id)'
    BY <1>1, FoundIsOld, IdsStayOld
  <2> QED
    BY <1>1, <2>1, <2>2, <2>3, <2>4 DEF ResetKnows, NameKnown, db
<1> QED
  BY <1>2, <1>3, Proceeding
  DEF LoginFind, LoginLock, LoginCheckBan, LoginCount, LoginNumber, BanStart,
      BanLockUser, BanCheck, OwnStart, OwnLock, VerifyLock, VerifyCheckToken,
      GetToken, ConfirmLock, UserStart, UserInsert, DeleteStart, DeleteLockRow,
      ConfirmOps

LEMMA CreateLearns ==
  ASSUME AtomicInv, NEW r \in Requests, HandlerStep(r), pc'[r] # "done"
  PROVE  CreateKnows(r)'
<1> USE DEF AtomicInv, TokenInv, SessionInv, LockInv
<1>1. UNCHANGED <<db, now, in, flow, resp>>
  BY Proceeding
<1>2. CreateKnows(r)
  BY DEF Knows
<1>3. CASE in[r].op # "CreateUser"
  BY <1>1, <1>3 DEF CreateKnows
<1>4. CASE UserStart(r)
  <2>1. in[r].pw \notin LongPasswords /\ pc'[r] = "insert_user"
    BY <1>4 DEF UserStart, Answer, Goto, Typed, TypeOK
  <2> QED
    BY <1>1, <2>1 DEF CreateKnows
<1>5. CASE UserInsert(r)
  <2>1. /\ HasSession(r) /\ \A u \in users : u.username # in[r].username
        /\ Hold(r, {NameLock(in[r].username)})
        /\ loc' = [loc EXCEPT ![r].user = Caller(r)]
        /\ in[r].op = "CreateUser" /\ pc[r] = "insert_user"
    BY <1>5 DEF UserInsert, EntryOf, Answer, Typed, TypeOK
  <2>2. loc'[r].user = Caller(r) /\ NameLock(in[r].username) \in locks'[r]
    BY <2>1 DEF Hold, Typed, TypeOK, Locals
  <2>3. in[r].pw \notin LongPasswords
    BY <1>2, <2>1 DEF CreateKnows
  <2> QED
    BY <1>1, <2>1, <2>2, <2>3 DEF CreateKnows, HasSession, Caller, db
<1> QED
  BY <1>3, <1>4, <1>5, Proceeding
  DEF LoginFind, LoginLock, LoginCheckBan, LoginCount, LoginNumber, BanStart,
      BanLockUser, BanCheck, OwnStart, OwnLock, VerifyLock, VerifyCheckToken,
      GetToken, ConfirmLock, ResetStart, DeleteStart, DeleteLockRow, ConfirmOps

LEMMA ConfirmLearns ==
  ASSUME AtomicInv, NEW r \in Requests, HandlerStep(r), pc'[r] # "done"
  PROVE  ConfirmKnows(r)'
<1> USE DEF AtomicInv, TokenInv, SessionInv, LockInv
<1>1. UNCHANGED <<db, now, in, flow, resp>>
  BY Proceeding
<1>2. ConfirmKnows(r)
  BY DEF Knows
<1>3. CASE ~Confirming(r)'
  BY <1>3 DEF ConfirmKnows
<1>4. CASE GetToken(r)
  <2>1. PICK t \in Presented(r) : TRUE
    BY <1>4, GetTokenEffect
  <2>2. \A x \in tokens : x.id = in[r].token => x = t
    BY DEF Presented, TokenIdsFresh
  <2> QED
    BY <1>1, <2>2 DEF ConfirmKnows, Presented, db
<1>5. CASE Confirming(r)
  BY <1>1, <1>2, <1>5 DEF ConfirmKnows, db
<1> QED
  BY <1>3, <1>4, <1>5, ConfirmationEffect

LEMMA DeleteLearns ==
  ASSUME AtomicInv, NEW r \in Requests, HandlerStep(r), pc'[r] # "done"
  PROVE  DeleteKnows(r)'
<1> USE DEF AtomicInv, TokenInv, SessionInv, LockInv
<1>1. /\ UNCHANGED <<db, now, in, flow, resp>> /\ OthersKept(r) /\ pc[r] # "done"
  BY Proceeding, HandlerEffect, HandlerRuns
<1>2. DeleteKnows(r) /\ Arrived(r)
  BY DEF Knows
<1>3. in[r].op = "DeleteUsers" => \A u \in in[r].ids : OldId(u)'
  BY <1>1, <1>2, IdsStayOld DEF DeleteKnows
<1>4. /\ Targets(r)' = Targets(r) /\ HasSession(r)' = HasSession(r)
      /\ Ids(users)' = Ids(users)
  BY <1>1 DEF Targets, Caller, HasSession, db
<1>5. CASE in[r].op \notin DeleteOps
  BY <1>1, <1>3, <1>5 DEF DeleteKnows
<1>6. ASSUME in[r].op \in DeleteOps,
             NEW got \in SUBSET {UserLock(loc[r].user), KeyLock(loc[r].user)},
             pc[r] = "call" => got = {},
             got # {} => loc[r].user \in Targets(r),
             locks'[r] = locks[r] \cup got, NextRow(r, locks'[r]),
             in[r].op = "deleteMyUser" => HasSession(r), Targets(r) # {},
             \A u \in UserIds : UserLock(u) \in locks[r] => u \in Targets(r)
      PROVE  DeleteKnows(r)'
  <2>1. \A u \in UserIds : UserLock(u) \in locks'[r] => u \in Targets(r)
    BY <1>6, LockShapes
  <2>2. pc'[r] = "lock_rows" => loc'[r].user \in Targets(r)
    BY <1>6 DEF NextRow, Remaining, Goto, Typed, TypeOK, Locals
  <2>3. pc'[r] = "cascade" =>
          \A u \in Targets(r) \cap Ids(users) : UserLock(u) \in locks'[r]
    BY <1>6 DEF NextRow, Remaining, Goto, Typed, TypeOK
  <2> QED
    BY <1>1, <1>3, <1>4, <1>6, <2>1, <2>2, <2>3 DEF DeleteKnows
<1>7. CASE DeleteStart(r)
  <2>1. /\ pc[r] = "call" /\ in[r].op \in DeleteOps
        /\ in[r].op = "deleteMyUser" => HasSession(r)
        /\ Targets(r) # {} /\ NextRow(r, {}) /\ UNCHANGED locks
    BY <1>7 DEF DeleteStart, DeleteOps, Panic, Answer, Typed, TypeOK
  <2>2. locks[r] = {}
    BY <1>2, <2>1 DEF Arrived
  <2> QED
    BY <1>6, <2>1, <2>2
<1>8. CASE DeleteLockRow(r)
  <2> DEFINE got == IF loc[r].user \in Ids(users)
                      THEN {UserLock(loc[r].user), KeyLock(loc[r].user)} ELSE {}
  <2>1. /\ pc[r] = "lock_rows" /\ in[r].op \in DeleteOps
        /\ Hold(r, got) /\ NextRow(r, locks[r] \cup got)
    BY <1>8 DEF DeleteLockRow, DeleteOps
  <2>2. locks'[r] = locks[r] \cup got
    BY <2>1 DEF Hold, Typed, TypeOK
  <2>3. /\ in[r].op = "deleteMyUser" => HasSession(r)
        /\ Targets(r) # {} /\ loc[r].user \in Targets(r)
        /\ \A u \in UserIds : UserLock(u) \in locks[r] => u \in Targets(r)
    BY <1>2, <2>1 DEF DeleteKnows
  <2> QED
    BY <1>6, <2>1, <2>2, <2>3
<1> QED
  BY <1>5, <1>7, <1>8, Proceeding
  DEF LoginFind, LoginLock, LoginCheckBan, LoginCount, LoginNumber, BanStart,
      BanLockUser, BanCheck, OwnStart, OwnLock, VerifyLock, VerifyCheckToken,
      GetToken, ConfirmLock, ResetStart, UserStart, UserInsert, ConfirmOps, DeleteOps

LEMMA HandlerKnows ==
  ASSUME AtomicInv, NEW r \in Requests, HandlerStep(r), NEW q \in Requests
  PROVE  Knows(q)'
<1>1. CASE q # r
  BY <1>1, OthersKnowNames, OthersKnowTheirUser, OthersKnowTheirRows DEF Knows
<1>2. CASE q = r /\ pc'[r] # "done"
  BY <1>2, ProceedsArrived, LoginLearnsNames, OwnLearns, ResetLearns, CreateLearns,
     ConfirmLearns, DeleteLearns
  DEF Knows
<1>3. CASE q = r /\ pc'[r] = "done"
  <2>1. Typed
    BY DEF AtomicInv, TokenInv, SessionInv, LockInv
  <2>2. Ends(r)
    BY <1>3, <2>1, HandlerEffect DEF Takes, Statements
  <2> QED
    BY <1>3, <2>2, EndsKnowing
<1> QED
  BY <1>1, <1>2, <1>3

-----------------------------------------------------------------------------
(* The invariant                                                           *)

\* Arrival and authentication touch no row, and others know what they knew.
LEMMA UndisturbedKnow ==
  ASSUME AtomicInv, NEW r \in Requests, OthersKept(r), pc[r] # "done",
         UNCHANGED <<users, tokens>>, NEW q \in Requests \ {r}
  PROVE  Knows(q)'
<1>1. /\ pc'[q] = pc[q] /\ loc'[q] = loc[q] /\ locks'[q] = locks[q]
      /\ in'[q] = in[q] /\ flow'[q] = flow[q] /\ resp'[q] = resp[q]
  BY DEF OthersKept
<1>2. Knows(q)
  BY DEF AtomicInv
<1>3. Arrived(q)' /\ LoginNames(q)' /\ ResetKnows(q)'
  BY <1>1, <1>2, IdsStayOld
  DEF Knows, Arrived, LoginNames, ResetKnows, NameKnown, HasSession, Caller
<1>4. OwnKnows(q)' /\ CreateKnows(q)' /\ ConfirmKnows(q)'
  BY <1>1, <1>2
  DEF Knows, OwnKnows, PasswordKnown, UnverifiedKnown, CreateKnows, ConfirmKnows,
      Confirming, HasSession, Caller
<1>5. DeleteKnows(q)'
  <2>1. /\ Targets(q)' = Targets(q) /\ HasSession(q)' = HasSession(q)
        /\ Ids(users)' = Ids(users)
    BY <1>1 DEF Targets, Caller, HasSession
  <2> QED
    BY <1>1, <1>2, <2>1, IdsStayOld DEF Knows, DeleteKnows
<1> QED
  BY <1>3, <1>4, <1>5 DEF Knows

LEMMA ReceiveKnows ==
  ASSUME AtomicInv, NEW r \in Requests, Receive(r), NEW q \in Requests
  PROVE  Knows(q)'
<1> USE DEF AtomicInv, TokenInv, SessionInv, LockInv
<1>1. PICK i \in Input, b \in KnownSessions \cup {None} :
        /\ Presentable(i) /\ in' = [in EXCEPT ![r] = i]
        /\ flow' = [flow EXCEPT ![r] = NewFlow(b)]
        /\ Goto(r, IF b = None THEN "call" ELSE "authn")
  BY DEF Receive, Requested
<1>2. /\ UNCHANGED <<db, now, loc, locks, resp>> /\ pc[r] = "new"
      /\ OthersKept(r)
  BY <1>1 DEF Receive, Goto, OthersKept, Typed, TypeOK
<1>3. CASE q # r
  BY <1>2, <1>3, UndisturbedKnow DEF db
<1>4. CASE q = r
  <2>1. /\ in'[r] = i /\ flow'[r] = NewFlow(b)
        /\ pc'[r] = (IF b = None THEN "call" ELSE "authn")
    BY <1>1 DEF Goto, Typed, TypeOK
  <2>2. locks[r] = {} /\ resp[r] = "none"
    BY <1>2 DEF Knows, Arrived
  <2>3. Arrived(r)'
    BY <1>2, <2>1, <2>2 DEF Arrived, NewFlow, HasSession, Statements
  <2>4. i.op = "DeleteUsers" => \A u \in i.ids : OldId(u)'
    <3>1. i.op = "DeleteUsers" => i \in DeleteInput
      BY DEF Input, LoginInput, BareInput, ClearInput, LogoutInput, BanInput,
             UnbanInput, PasswordInput, EmailInput, TokenInput, ResetInput,
             ForgotInput, UserInput
    <3>2. \A u \in KnownUsers : OldId(u)
      BY SeedAssumption, FoundIsOld DEF KnownUsers, Ids, OldId
    <3> QED
      BY <1>1, <1>2, <3>1, <3>2, IdsStayOld DEF Presentable
  <2>5. DeleteKnows(r)'
    BY <2>1, <2>4 DEF DeleteKnows
  <2> QED
    BY <1>4, <2>1, <2>3, <2>5
    DEF Knows, LoginNames, Loggings, OwnKnows, ResetKnows, CreateKnows, ConfirmKnows,
        Confirming
<1> QED
  BY <1>3, <1>4

LEMMA AuthenticateKnows ==
  ASSUME AtomicInv, NEW r \in Requests, Authenticate(r), NEW q \in Requests
  PROVE  Knows(q)'
<1> USE DEF AtomicInv, TokenInv, SessionInv, LockInv
<1>1. /\ UNCHANGED <<db, now, in>> /\ pc[r] = "authn" /\ OthersKept(r)
  BY DEF Authenticate, Goto, Answer, OthersKept, Typed, TypeOK
<1>2. CASE q # r
  BY <1>1, <1>2, UndisturbedKnow DEF db
<1>3. CASE q = r
  <2>1. Arrived(r) /\ DeleteKnows(r)
    BY DEF Knows
  <2>2. \/ pc'[r] = "done" /\ locks'[r] = {} /\ UNCHANGED flow
        \/ /\ pc'[r] = "call" /\ UNCHANGED <<locks, resp>>
           /\ \E s \in sessions : flow'[r].session = [id |-> s.id, user |-> s.user]
    BY DEF Authenticate, Goto, Answer, Typed, TypeOK
  <2>3. \A s \in sessions : OldId(s.user)
    BY FoundIsOld DEF ReferencesResolve, Ids
  <2>4. ASSUME pc'[r] = "done", locks'[r] = {}, UNCHANGED flow
        PROVE  Arrived(r)'
    BY <1>1, <2>1, <2>4, IdsStayOld DEF Arrived, HasSession, Caller, Statements
  <2>5. ASSUME NEW s \in sessions, flow'[r].session = [id |-> s.id, user |-> s.user],
               pc'[r] = "call", UNCHANGED <<locks, resp>>
        PROVE  Arrived(r)'
    <3>1. [id |-> s.id, user |-> s.user] \in FluxSession
      BY DEF FluxSession, Typed, TypeOK, SessionRow
    <3>2. HasSession(r)' /\ Caller(r)' = s.user
      BY <2>5, <3>1, NilAssumption DEF HasSession, Caller
    <3>3. OldId(Caller(r))'
      BY <1>1, <2>3, <3>2, IdsStayOld DEF OldId
    <3> QED
      BY <1>1, <2>1, <2>5, <3>2, <3>3 DEF Arrived, Statements
  <2>6. Arrived(r)'
    BY <2>2, <2>4, <2>5
  <2>7. DeleteKnows(r)'
    <3>1. in[r].op = "DeleteUsers" => \A u \in in[r].ids : OldId(u)'
      BY <1>1, <2>1, IdsStayOld DEF DeleteKnows
    <3> QED
      BY <1>1, <2>2, <3>1 DEF DeleteKnows
  <2> QED
    BY <1>3, <2>2, <2>6, <2>7
    DEF Knows, LoginNames, Loggings, OwnKnows, ResetKnows, CreateKnows, ConfirmKnows,
        Confirming
<1> QED
  BY <1>2, <1>3

LEMMA InitAtomic == Init => AtomicInv
<1> SUFFICES ASSUME Init PROVE AtomicInv
  OBVIOUS
<1>1. ASSUME NEW r \in Requests PROVE Knows(r)
  <2>1. /\ pc[r] = "new" /\ in[r] = NoInput /\ resp[r] = "none" /\ locks[r] = {}
        /\ flow[r].session = None /\ flow[r].bearer = None
    BY DEF Init
  <2> QED
    BY <2>1
    DEF Knows, Arrived, HasSession, LoginNames, Loggings, OwnKnows, OwnOps, ResetKnows,
        CreateKnows, ConfirmKnows, Confirming, DeleteKnows, DeleteOps, NoInput,
        Statements
<1> QED
  BY <1>1, InitTokens, InitBans DEF AtomicInv

LEMMA NextAtomic == AtomicInv /\ [Next]_vars => AtomicInv'
<1> SUFFICES ASSUME AtomicInv, [Next]_vars PROVE AtomicInv'
  OBVIOUS
<1>1. TokenInv' /\ BanInv'
  BY NextTokens, NextBans DEF AtomicInv
<1>2. CASE \E r \in Requests : Receive(r) \/ Authenticate(r) \/ HandlerStep(r)
  BY <1>1, <1>2, ReceiveKnows, AuthenticateKnows, HandlerKnows DEF AtomicInv
<1>3. CASE Tick \/ UNCHANGED vars
  <2>1. UNCHANGED <<users, tokens, in, flow, pc, loc, locks, resp>>
    BY <1>3 DEF Tick, vars, db
  <2>2. ASSUME NEW r \in Requests PROVE Knows(r)'
    <3>1. Knows(r)
      BY DEF AtomicInv
    <3> QED
      BY <2>1, <3>1
      DEF Knows, Arrived, HasSession, Caller, OldId, LoginNames, NameKnown,
          OwnKnows, PasswordKnown, UnverifiedKnown, ResetKnows, CreateKnows,
          ConfirmKnows, Confirming, DeleteKnows, Targets, Ids
  <2> QED
    BY <1>1, <2>2 DEF AtomicInv
<1> QED
  BY <1>2, <1>3, NextCases

\* The invariant behind the refinement.
THEOREM Knowledge == Spec => []AtomicInv
BY InitAtomic, NextAtomic, PTL DEF Spec

-----------------------------------------------------------------------------
(* Arrival, refusal, commit                                                *)

\* Only a request that has not arrived asks for nothing.
LEMMA InputNamed == ASSUME NEW i \in Input PROVE i.op # "none"
BY DEF Input, LoginInput, BareInput, ClearInput, LogoutInput, BanInput,
       UnbanInput, PasswordInput, EmailInput, TokenInput, ResetInput,
       ForgotInput, UserInput, DeleteInput

\* What Accounts says of a commit that AuthService makes.
LEMMA CommitServes ==
  ASSUME Typed, NEW r \in Requests, Commit(r), UNCHANGED <<now, in, flow>>
  PROVE  Atomic!Served(r)
BY DEF Commit, Answer, Atomic!Served, Typed, TypeOK

\* A request between its arrival and its answer, as Accounts sees it.
LEMMA Waiting ==
  ASSUME AtomicInv, NEW r \in Requests, pc[r] \in Statements \cup {"authn"}
  PROVE  /\ in[r] \in Input /\ in[r].op # "none" /\ resp[r] = "none"
         /\ pc[r] \in Statements =>
              \A ops : in[r].op \in ops => Atomic!Asks(r, ops)
BY InputNamed
DEF AtomicInv, Knows, Arrived, Statements, HasSession, Atomic!Asks, Atomic!Known

\* An answer other than "ok" that changes no row is a refusal.
LEMMA AnswerRefuses ==
  ASSUME AtomicInv, NEW r \in Requests, pc[r] \in Statements \cup {"authn"},
         NEW a \in Answers \ {"none", "ok"}, Answer(r, a),
         UNCHANGED <<db, now, in, flow>>
  PROVE  Atomic!Refuse(r)
<1>1. resp'[r] = a /\ resp' = [resp EXCEPT ![r] = a]
  BY DEF Answer, AtomicInv, TokenInv, SessionInv, LockInv, Typed, TypeOK
<1> QED
  BY <1>1, Waiting DEF Atomic!Refuse, Atomic!tables, db

-----------------------------------------------------------------------------
(* The last statement of each operation is its effect in Accounts, or a    *)
(* refusal.                                                                *)

\* What the login read of the password, the bans and the numbers in use is
\* true of the rows at the insert.
LEMMA LogsIn ==
  ASSUME AtomicInv, NEW r \in Requests, LoginInsert(r)
  PROVE  Atomic!Takes(r)
<1> USE DEF AtomicInv, TokenInv, SessionInv, LockInv
<1>1. in[r].op = "CreateSession" /\ pc[r] = "insert"
  BY DEF LoginInsert
<1>2. UserLock(loc[r].user) \in locks[r] /\ loc[r].user \in Ids(users)
  BY <1>1, LockShapes DEF HoldsUser, PastUserLock, LockedUsersStay, Typed, TypeOK
<1>3. PICK u \in users : u.id = loc[r].user
  BY <1>2 DEF Ids
<1>4. NumberKnown(r) /\ NoBanKnown(r) /\ CredentialsKnown(r)
  BY <1>1 DEF LoginKnows
<1>5. ~InsertConflicts(r)
  BY <1>2, <1>4 DEF InsertConflicts, NumberKnown, SessionsOf
<1>6. /\ sessions' = sessions \cup {NewSession(r)}
      /\ users' = {IF v.id = loc[r].user THEN [v EXCEPT !.lastLogin = flow[r].time]
                                         ELSE v : v \in users}
      /\ Commit(r) /\ UNCHANGED <<tokens, bans, now, in, flow>>
  BY <1>5 DEF LoginInsert
<1>7. u.username = in[r].username /\ u.pw = in[r].pw
  <2>1. NameKnown(r) /\ loc[r].cred.pw = in[r].pw
    BY <1>1 DEF Knows, LoginNames, Loggings
  <2>2. loc[r].cred = [pw |-> u.pw, email |-> u.email]
    BY <1>3, <1>4 DEF CredentialsKnown
  <2> QED
    BY <1>3, <2>1, <2>2 DEF NameKnown
<1>8. ~Atomic!Banned(u.id)
  BY <1>3, <1>4
  DEF NoBanKnown, ActiveBan, FlowsArePast, Atomic!Banned, Typed, TypeOK, BanRow
<1>9. /\ loc[r].num \in 1 .. MaxSessions
      /\ \A s \in sessions : s.user = u.id => s.num # loc[r].num
  BY <1>1, <1>3, <1>4 DEF NumberKnown, Typed, FilledIn
<1>10. NewSession(r) = [id |-> r, user |-> u.id, num |-> loc[r].num,
                        created |-> flow[r].time,
                        expires |-> flow[r].time + SessionDuration,
                        cred |-> [pw |-> u.pw, email |-> u.email]]
  BY <1>3, <1>4 DEF NewSession, CredentialsKnown
<1>11. users' = {IF v.id = u.id THEN [v EXCEPT !.lastLogin = flow[r].time]
                                ELSE v : v \in users}
  BY <1>3, <1>6
<1>12. Atomic!Asks(r, {"CreateSession"})
  BY <1>1, Waiting DEF Statements
<1>13. Atomic!LogIn(r)
  BY <1>6, <1>7, <1>8, <1>9, <1>10, <1>11, <1>12 DEF Atomic!LogIn
<1> QED
  BY <1>6, <1>13, CommitServes DEF Atomic!Takes

LEMMA RenewsOrRefuses ==
  ASSUME AtomicInv, NEW r \in Requests, RenewSession(r)
  PROVE  Atomic!Takes(r) \/ Atomic!Refuse(r)
<1> USE DEF AtomicInv, TokenInv, SessionInv, LockInv
<1>1. in[r].op = "RenewSession" /\ pc[r] = "call" /\ "call" \in Statements
      /\ UNCHANGED <<users, tokens, bans, now, in, flow>>
  BY DEF RenewSession, Statements
<1>2. CASE ~HasSession(r)
  <2>1. Answer(r, "internal") /\ UNCHANGED <<db, now, in, flow>>
    BY <1>1, <1>2 DEF RenewSession, Panic, db
  <2> QED
    BY <1>1, <2>1, AnswerRefuses DEF Answers
<1>3. CASE HasSession(r) /\ flow[r].session.id \notin Ids(sessions)
  <2>1. sessions' = sessions /\ Answer(r, "unauthorized")
    BY <1>3 DEF RenewSession, RenewedSessions, Ids
  <2> QED
    BY <1>1, <2>1, AnswerRefuses DEF Answers, db
<1>4. CASE HasSession(r) /\ flow[r].session.id \in Ids(sessions)
  <2>1. sessions' = RenewedSessions(r) /\ Commit(r)
    BY <1>4 DEF RenewSession
  <2>2. Atomic!Asks(r, {"RenewSession"})
    BY <1>1, Waiting
  <2>3. Atomic!Renew(r)
    BY <1>1, <1>4, <2>1, <2>2
    DEF Atomic!Renew, Atomic!Known, HasSession, RenewedSessions, Renewed, Ids
  <2> QED
    BY <1>1, <2>1, <2>3, CommitServes DEF Atomic!Takes
<1> QED
  BY <1>2, <1>3, <1>4

LEMMA ClearsOrRefuses ==
  ASSUME AtomicInv, NEW r \in Requests, ClearSessions(r) \/ Logout(r)
  PROVE  Atomic!Takes(r) \/ Atomic!Refuse(r)
<1> USE DEF AtomicInv, TokenInv, SessionInv, LockInv
<1>1. /\ in[r].op \in {"ClearSessions", "logout"} /\ pc[r] = "call" /\ "call" \in Statements
      /\ UNCHANGED <<users, tokens, bans, now, in, flow>>
  BY DEF ClearSessions, Logout, Statements
<1>2. ASSUME NEW user, ClearRows(r, in[r].ids, user)
      PROVE  \/ Atomic!Refuse(r)
             \/ Atomic!ClearOf(r, user) /\ Commit(r)
  <2>1. CASE UNCHANGED sessions /\ (Answer(r, "validation") \/ Answer(r, "internal"))
    BY <1>1, <2>1, AnswerRefuses DEF Answers, db
  <2>2. CASE Commit(r) /\ ~(in[r].ids \in {None, {}} /\ user = None) /\ in[r].ids # {}
    BY <1>1, <1>2, <2>2 DEF ClearRows, Matching, Atomic!ClearOf
  <2> QED
    BY <1>2, <2>1, <2>2 DEF ClearRows
<1>3. CASE ClearSessions(r)
  <2>1. in[r].op = "ClearSessions" /\ ClearRows(r, in[r].ids, in[r].user)
    BY <1>3 DEF ClearSessions, ClearsOf
  <2>2. Atomic!ClearOf(r, in[r].user) => Atomic!Clear(r)
    BY <1>1, <2>1, Waiting DEF Atomic!Clear
  <2> QED
    BY <1>1, <1>2, <2>1, <2>2, CommitServes DEF Atomic!Takes
<1>4. CASE Logout(r) /\ HasSession(r)
  <2>1. in[r].op = "logout" /\ ClearRows(r, in[r].ids, Caller(r))
    BY <1>4 DEF Logout, ClearsOf
  <2>2. Atomic!ClearOf(r, Caller(r)) => Atomic!LogOut(r)
    BY <1>1, <1>4, <2>1, Waiting
    DEF Atomic!LogOut, Atomic!Known, Atomic!By, HasSession, Caller
  <2> QED
    BY <1>1, <1>2, <2>1, <2>2, CommitServes DEF Atomic!Takes
<1>5. CASE Logout(r) /\ ~HasSession(r)
  BY <1>1, <1>5, AnswerRefuses DEF Logout, Panic, Answers, db
<1> QED
  BY <1>3, <1>4, <1>5

LEMMA BansOrRefuses ==
  ASSUME AtomicInv, NEW r \in Requests, BanUpsert(r)
  PROVE  Atomic!Takes(r) \/ Atomic!Refuse(r)
<1> USE DEF AtomicInv, TokenInv, SessionInv, LockInv
<1>1. /\ in[r].op = "BanUser" /\ pc[r] = "upsert_ban" /\ "upsert_ban" \in Statements
      /\ UNCHANGED <<users, tokens, now, in, flow>>
  BY DEF BanUpsert, Statements
<1>2. CASE Answer(r, "internal") /\ UNCHANGED <<bans, sessions>>
  BY <1>1, <1>2, AnswerRefuses DEF Answers, db
<1>3. CASE /\ HasSession(r) /\ {Caller(r), loc[r].user} \subseteq Ids(users)
           /\ NewBan(r).unbannedAt >= NewBan(r).bannedAt
           /\ bans' = {b \in bans : b.user # loc[r].user} \cup {NewBan(r)}
           /\ deleteUserSessions(loc[r].user) /\ Commit(r)
  <2>1. loc[r].user = in[r].user
    BY <1>1 DEF BanInv, BansWhomAsked
  <2>2. in[r].replace \/ ~Atomic!Banned(in[r].user)
    <3>1. ~in[r].replace => NoBanKnown(r)
      BY <1>1 DEF BanKnows
    <3> QED
      BY <2>1, <3>1 DEF NoBanKnown, ActiveBan, FlowsArePast, Atomic!Banned, Typed,
                        TypeOK, BanRow
  <2>3. AskedFor(NewBan(r), r)
    BY NewBanAsked
  <2>4. /\ NewBan(r).user = in[r].user /\ NewBan(r).bannedAt = flow[r].time
        /\ NewBan(r).by = Atomic!By(r)
    BY <2>1 DEF NewBan, Atomic!By, Caller
  <2>5. Atomic!LastsAsAsked(NewBan(r), in[r].duration)
    BY <1>3, <2>3 DEF AskedFor, Atomic!LastsAsAsked
  <2>6. {Atomic!By(r), in[r].user} \subseteq Atomic!UserIds /\ Atomic!Known(r)
    BY <1>3, <2>1
    DEF Atomic!By, Atomic!UserIds, Atomic!Known, Ids, HasSession, Caller
  <2>7. /\ bans' = Atomic!Others(bans, {in[r].user}) \cup {NewBan(r)}
        /\ sessions' = Atomic!Others(sessions, {in[r].user})
    BY <1>3, <2>1 DEF Atomic!Others, deleteUserSessions
  <2>8. Atomic!Asks(r, {"BanUser"})
    BY <1>1, Waiting
  <2>9. Atomic!Ban(r)
    BY <1>1, <2>2, <2>4, <2>5, <2>6, <2>7, <2>8 DEF Atomic!Ban
  <2> QED
    BY <1>1, <1>3, <2>9, CommitServes DEF Atomic!Takes
<1> QED
  BY <1>2, <1>3 DEF BanUpsert

LEMMA UnbansOrRefuses ==
  ASSUME AtomicInv, NEW r \in Requests, UnbanUser(r)
  PROVE  Atomic!Takes(r) \/ Atomic!Refuse(r)
<1> USE DEF AtomicInv, TokenInv, SessionInv, LockInv
<1>1. /\ in[r].op = "UnbanUser" /\ pc[r] = "call" /\ "call" \in Statements
      /\ UNCHANGED <<users, sessions, tokens, now, in, flow>>
      /\ bans' = {b \in bans : b.user # in[r].user}
  BY DEF UnbanUser, Statements
<1>2. CASE Commit(r) /\ \E b \in bans : b.user = in[r].user
  <2>1. Atomic!Unban(r)
    BY <1>1, <1>2, Waiting DEF Atomic!Unban, Atomic!Others
  <2> QED
    BY <1>1, <1>2, <2>1, CommitServes DEF Atomic!Takes
<1>3. CASE Answer(r, "not_found") /\ \A b \in bans : b.user # in[r].user
  <2>1. UNCHANGED bans
    BY <1>1, <1>3
  <2> QED
    BY <1>1, <1>3, <2>1, AnswerRefuses DEF Answers, db
<1> QED
  BY <1>2, <1>3 DEF UnbanUser

LEMMA ChangesPasswordOrRefuses ==
  ASSUME AtomicInv, NEW r \in Requests, PasswordWrite(r)
  PROVE  Atomic!Takes(r) \/ Atomic!Refuse(r)
<1> USE DEF AtomicInv, TokenInv, SessionInv, LockInv
<1>1. /\ in[r].op = "ChangePassword" /\ pc[r] = "write" /\ "write" \in Statements
      /\ UNCHANGED <<tokens, bans, now, in, flow>>
  BY DEF PasswordWrite, Statements
<1>2. CASE in[r].newPw \in LongPasswords
  BY <1>1, <1>2, AnswerRefuses DEF PasswordWrite, Answers, db
<1>3. CASE in[r].newPw \notin LongPasswords
  <2>1. SetPassword(r) /\ deleteUserSessions(loc[r].user) /\ Commit(r)
    BY <1>3 DEF PasswordWrite
  <2>2. HasSession(r) /\ loc[r].user = Caller(r) /\ PasswordKnown(r)
    BY <1>1 DEF Knows, OwnKnows, OwnOps
  <2>3. loc[r].user \in Ids(users)
    BY <1>1, LockShapes DEF HoldsUser, PastUserLock, LockedUsersStay, Typed, TypeOK
  <2>4. Atomic!Proved(r, in[r].pw)
    BY <2>2, <2>3
    DEF PasswordKnown, Ids, Atomic!Proved, Atomic!Known, Atomic!By, HasSession, Caller
  <2>5. /\ Atomic!WithPassword(Atomic!By(r), in[r].newPw)
        /\ sessions' = Atomic!Others(sessions, {Atomic!By(r)})
    BY <2>1, <2>2
    DEF SetPassword, deleteUserSessions, Atomic!WithPassword, Atomic!Others, Atomic!By, Caller
  <2>6. Atomic!ChangePassword(r)
    BY <1>1, <1>3, <2>4, <2>5, Waiting DEF Atomic!ChangePassword
  <2> QED
    BY <1>1, <2>1, <2>6, CommitServes DEF Atomic!Takes
<1> QED
  BY <1>2, <1>3

\* saveToken issues a token of the kind of its operation.
LEMMA UpsertIssues ==
  ASSUME NEW r, NEW e, Upsert(r, e)
  PROVE  Atomic!Issue(r, loc[r].user, KindOf(in[r].op), e)
BY DEF Upsert, Atomic!Issue

LEMMA SavesOrRefuses ==
  ASSUME AtomicInv, NEW r \in Requests, SaveToken(r)
  PROVE  Atomic!Takes(r) \/ Atomic!Refuse(r)
<1> USE DEF AtomicInv, TokenInv, SessionInv, LockInv
<1>1. /\ in[r].op \in {"ChangeEmail", "VerifyUser", "ResetPassword"}
      /\ pc[r] = "save_token" /\ "save_token" \in Statements
      /\ UNCHANGED <<users, sessions, bans, now, in, flow>>
  BY DEF SaveToken, Statements
<1>2. CASE loc[r].user \notin Ids(users)
  BY <1>1, <1>2, AnswerRefuses DEF SaveToken, Referenced, Answers, db
<1>3. CASE loc[r].user \in Ids(users)
  <2>1. /\ Upsert(r, IF in[r].op = "ChangeEmail" THEN in[r].email ELSE None)
        /\ Commit(r)
    BY <1>3 DEF SaveToken, Referenced
  <2>2. PICK u \in users : u.id = loc[r].user
    BY <1>3 DEF Ids
  <2>3. CASE in[r].op = "ChangeEmail"
    <3>1. HasSession(r) /\ loc[r].user = Caller(r) /\ PasswordKnown(r)
      BY <1>1, <2>3 DEF Knows, OwnKnows, OwnOps
    <3>2. Atomic!Proved(r, in[r].pw)
      BY <2>2, <3>1
      DEF PasswordKnown, Atomic!Proved, Atomic!Known, Atomic!By, HasSession, Caller
    <3>3. Atomic!Issue(r, Atomic!By(r), "change_email", in[r].email)
      BY <2>1, <2>3, <3>1, UpsertIssues DEF KindOf, Atomic!By, Caller
    <3>4. Atomic!AskEmail(r)
      BY <1>1, <2>3, <3>2, <3>3, Waiting DEF Atomic!AskEmail
    <3> QED
      BY <1>1, <2>1, <3>4, CommitServes DEF Atomic!Takes
  <2>4. CASE in[r].op = "VerifyUser"
    <3>1. HasSession(r) /\ loc[r].user = Caller(r) /\ UnverifiedKnown(r) /\ WaitKnown(r)
      BY <1>1, <2>4 DEF Knows, OwnKnows, OwnOps, VerifyKnows
    <3>2. \E v \in users : v.id = Atomic!By(r) /\ ~v.verified
      BY <2>2, <3>1 DEF UnverifiedKnown, Atomic!By, Caller
    <3>3. \A t \in tokens : /\ t.user = Atomic!By(r) /\ t.kind = "verify_user"
                            /\ in[t.id].op = "VerifyUser"
                            => now - t.created >= WaitTime
      BY <3>1 DEF WaitKnown, Atomic!By, Caller
    <3>4. Atomic!Issue(r, Atomic!By(r), "verify_user", None)
      BY <2>1, <2>4, <3>1, UpsertIssues DEF KindOf, Atomic!By, Caller
    <3>5. Atomic!AskVerification(r)
      BY <1>1, <2>4, <3>1, <3>2, <3>3, <3>4, Waiting
      DEF Atomic!AskVerification, Atomic!Known, HasSession
    <3> QED
      BY <1>1, <2>1, <3>5, CommitServes DEF Atomic!Takes
  <2>5. CASE in[r].op = "ResetPassword"
    <3>1. u.username = in[r].username
      BY <1>1, <2>2, <2>5 DEF Knows, ResetKnows, NameKnown
    <3>2. Atomic!Issue(r, u.id, "reset_password", None)
      BY <2>1, <2>2, <2>5, UpsertIssues DEF KindOf
    <3>3. Atomic!AskReset(r)
      BY <1>1, <2>5, <3>1, <3>2, Waiting DEF Atomic!AskReset
    <3> QED
      BY <1>1, <2>1, <3>3, CommitServes DEF Atomic!Takes
  <2> QED
    BY <1>1, <2>3, <2>4, <2>5
<1> QED
  BY <1>2, <1>3

LEMMA ConfirmsOrRefuses ==
  ASSUME AtomicInv, NEW r \in Requests,
         EmailWrite(r) \/ VerifyWrite(r) \/ ResetWrite(r)
  PROVE  Atomic!Takes(r) \/ Atomic!Refuse(r)
<1> USE DEF AtomicInv, TokenInv, SessionInv, LockInv
<1>1. /\ in[r].op \in ConfirmOps /\ pc[r] \in {"lock_user", "write"}
      /\ pc[r] \in Statements /\ UNCHANGED <<bans, now, in, flow>>
  BY DEF EmailWrite, VerifyWrite, ResetWrite, Statements, ConfirmOps
<1>2. PICK t \in tokens : /\ t.id = in[r].token /\ t.kind = KindOf(in[r].op)
                          /\ t.user = loc[r].user /\ t.email = loc[r].email
  BY <1>1 DEF ConfirmationKeepsToken
<1>3. t.expires > flow[r].time
  BY <1>1, <1>2 DEF Knows, ConfirmKnows, Confirming
<1>4. tokens' = WithoutToken(in[r].token) => Atomic!Redeems(r, t, KindOf(in[r].op))
  BY <1>1, <1>2, <1>3 DEF WithoutToken, Atomic!Redeems
<1>5. CASE EmailWrite(r)
  <2>1. /\ in[r].op = "ChangeEmailToken" /\ users' = Readdressed(r) /\ Commit(r)
        /\ tokens' = WithoutToken(in[r].token) /\ deleteUserSessions(loc[r].user)
    BY <1>5 DEF EmailWrite
  <2>2. Atomic!Redeems(r, t, "change_email")
    BY <1>4, <2>1 DEF KindOf
  <2>3. /\ users' = {IF u.id = t.user THEN [u EXCEPT !.email = t.email]
                                      ELSE u : u \in users}
        /\ sessions' = Atomic!Others(sessions, {t.user})
    BY <1>2, <2>1 DEF Readdressed, deleteUserSessions, Atomic!Others
  <2>4. Atomic!ConfirmEmail(r)
    BY <1>1, <2>1, <2>2, <2>3, Waiting DEF Atomic!ConfirmEmail
  <2> QED
    BY <1>1, <2>1, <2>4, CommitServes DEF Atomic!Takes
<1>6. CASE VerifyWrite(r)
  <2>1. /\ in[r].op = "VerifyUserToken" /\ Commit(r) /\ UNCHANGED sessions
        /\ tokens' = WithoutToken(in[r].token)
        /\ users' = {IF u.id = t.user THEN [u EXCEPT !.verified = TRUE]
                                      ELSE u : u \in users}
    BY <1>2, <1>6 DEF VerifyWrite
  <2>2. Atomic!Redeems(r, t, "verify_user")
    BY <1>4, <2>1 DEF KindOf
  <2>3. Atomic!ConfirmVerification(r)
    BY <1>1, <2>1, <2>2, Waiting DEF Atomic!ConfirmVerification
  <2> QED
    BY <1>1, <2>1, <2>3, CommitServes DEF Atomic!Takes
<1>7. CASE ResetWrite(r) /\ in[r].newPw \in LongPasswords
  BY <1>1, <1>7, AnswerRefuses DEF ResetWrite, Answers, db
<1>8. CASE ResetWrite(r) /\ in[r].newPw \notin LongPasswords
  <2>1. /\ in[r].op = "ResetPasswordToken" /\ SetPassword(r) /\ Commit(r)
        /\ tokens' = WithoutToken(in[r].token) /\ deleteUserSessions(loc[r].user)
    BY <1>8 DEF ResetWrite
  <2>2. Atomic!Redeems(r, t, "reset_password")
    BY <1>4, <2>1 DEF KindOf
  <2>3. /\ Atomic!WithPassword(t.user, in[r].newPw)
        /\ sessions' = Atomic!Others(sessions, {t.user})
    BY <1>2, <2>1
    DEF SetPassword, deleteUserSessions, Atomic!WithPassword, Atomic!Others
  <2>4. Atomic!ConfirmReset(r)
    BY <1>1, <1>8, <2>1, <2>2, <2>3, Waiting DEF Atomic!ConfirmReset
  <2> QED
    BY <1>1, <2>1, <2>4, CommitServes DEF Atomic!Takes
<1> QED
  BY <1>5, <1>6, <1>7, <1>8

LEMMA CreatesOrRefuses ==
  ASSUME AtomicInv, NEW r \in Requests, UserSaveToken(r)
  PROVE  Atomic!Takes(r) \/ Atomic!Refuse(r)
<1> USE DEF AtomicInv, TokenInv, SessionInv, LockInv
<1>1. /\ in[r].op = "CreateUser" /\ pc[r] = "save_token" /\ "save_token" \in Statements
      /\ UNCHANGED <<sessions, bans, now, in, flow>>
  BY DEF UserSaveToken, Statements
<1>2. CASE loc[r].user \notin Ids(users)
  BY <1>1, <1>2, AnswerRefuses DEF UserSaveToken, Referenced, Answers, db
<1>3. CASE loc[r].user \in Ids(users)
  <2>1. users' = users \cup {NewUser(r)} /\ Upsert(r, None) /\ Commit(r)
    BY <1>3 DEF UserSaveToken, Referenced
  <2>2. /\ in[r].pw \notin LongPasswords /\ HasSession(r) /\ loc[r].user = Caller(r)
        /\ \A u \in users : u.username # in[r].username
    BY <1>1 DEF Knows, CreateKnows
  <2>3. Atomic!Issue(r, Atomic!By(r), "verify_user", None)
    BY <1>1, <2>1, <2>2, UpsertIssues DEF KindOf, Atomic!By, Caller
  <2>4. Atomic!Known(r) /\ Atomic!By(r) \in Atomic!UserIds /\ Atomic!NameFree(in[r].username)
    BY <1>3, <2>2
    DEF Atomic!Known, Atomic!By, Atomic!UserIds, Atomic!NameFree, HasSession, Caller, Ids
  <2>5. Atomic!CreateUser(r)
    BY <1>1, <2>1, <2>2, <2>3, <2>4, Waiting DEF Atomic!CreateUser, NewUser
  <2> QED
    BY <1>1, <2>1, <2>5, CommitServes DEF Atomic!Takes
<1> QED
  BY <1>2, <1>3

LEMMA Deletes ==
  ASSUME AtomicInv, NEW r \in Requests, DeleteCascade(r)
  PROVE  Atomic!Takes(r)
<1> USE DEF AtomicInv, TokenInv, SessionInv, LockInv
<1>1. /\ in[r].op \in DeleteOps /\ pc[r] = "cascade" /\ "cascade" \in Statements
      /\ UNCHANGED <<now, in, flow>> /\ Commit(r)
      /\ users' = {u \in users : u.id \notin Deleted(r)}
      /\ sessions' = Survive(sessions, Deleted(r))
      /\ tokens' = Survive(tokens, Deleted(r))
      /\ bans' = BannerGone(Survive(bans, Deleted(r)), Deleted(r))
  BY DEF DeleteCascade, DeleteOps, Statements
<1>2. /\ in[r].op = "deleteMyUser" => HasSession(r)
      /\ Targets(r) # {}
      /\ \A u \in UserIds : UserLock(u) \in locks[r] => u \in Targets(r)
      /\ \A u \in Targets(r) \cap Ids(users) : UserLock(u) \in locks[r]
  BY <1>1 DEF Knows, DeleteKnows
<1>3. \A u \in Ids(users) : u \in Deleted(r) <=> u \in Targets(r)
  BY <1>2 DEF Deleted, Ids, Typed, TypeOK, UserRow
<1>4. /\ \A row \in sessions \cup tokens \cup bans : row.user \in Ids(users)
      /\ \A b \in bans : b.by \in Ids(users) \cup {None}
  BY DEF ReferencesResolve
<1>5. Atomic!Remove(Targets(r))
  <2>1. users' = {u \in users : u.id \notin Targets(r)}
    BY <1>1, <1>3 DEF Ids
  <2>2. ASSUME NEW rows \in SUBSET (sessions \cup tokens \cup bans)
        PROVE  Survive(rows, Deleted(r)) = Atomic!Others(rows, Targets(r))
    BY <1>3, <1>4 DEF Survive, Atomic!Others
  <2>3. bans' = BannerGone(Atomic!Others(bans, Targets(r)), Deleted(r))
    BY <1>1, <2>2
  <2> DEFINE nulled(b) == [b EXCEPT !.by = None]
  <2>4. ASSUME NEW b \in bans
        PROVE  (IF b.by \in Deleted(r) THEN nulled(b) ELSE b)
                 = (IF b.by \in Targets(r) THEN nulled(b) ELSE b)
    <3>1. CASE b.by \in Ids(users)
      BY <1>3, <3>1
    <3>2. CASE b.by = None
      <4>1. nulled(b) = b
        BY <3>2 DEF Typed, TypeOK, BanRow
      <4> QED
        BY <4>1
    <3> QED
      BY <1>4, <3>1, <3>2
  <2>5. bans' = {IF b.by \in Targets(r) THEN nulled(b) ELSE b :
                  b \in Atomic!Others(bans, Targets(r))}
    BY <2>3, <2>4 DEF BannerGone, Atomic!Others
  <2> QED
    BY <1>1, <2>1, <2>2, <2>5 DEF Atomic!Remove
<1>6. Atomic!Delete(r)
  <2>1. CASE in[r].op = "DeleteUsers"
    BY <1>1, <1>2, <1>5, <2>1, Waiting DEF Atomic!Delete, Targets
  <2>2. CASE in[r].op = "deleteMyUser"
    <3>1. Targets(r) = {Atomic!By(r)}
      BY <2>2 DEF Targets, Atomic!By, Caller
    <3> QED
      BY <1>1, <1>2, <1>5, <2>2, <3>1, Waiting
      DEF Atomic!Delete, Atomic!Known, HasSession
  <2> QED
    BY <1>1, <2>1, <2>2 DEF DeleteOps
<1> QED
  BY <1>1, <1>6, CommitServes DEF Atomic!Takes

\* A statement that reads refuses, or is one of the two whose answer is "ok".
LEMMA ReadsRefuse ==
  ASSUME AtomicInv, NEW r \in Requests, pc'[r] = "done",
         \/ LoginFind(r) \/ LoginCheckBan(r) \/ LoginCount(r) \/ LoginNumber(r)
         \/ BanStart(r) \/ OwnStart(r) \/ VerifyCheckToken(r) \/ ResetStart(r)
         \/ UserStart(r) \/ DeleteStart(r) \/ LoginLock(r) \/ BanLockUser(r)
         \/ OwnLock(r) \/ ConfirmLock(r) \/ VerifyLock(r) \/ GetToken(r)
         \/ BanCheck(r) \/ UserInsert(r)
  PROVE  Atomic!Takes(r) \/ Atomic!Refuse(r)
<1> USE DEF AtomicInv, TokenInv, SessionInv, LockInv
<1>1. pc[r] \in Statements
  BY DEF LoginFind, LoginCheckBan, LoginCount, LoginNumber,
         BanStart, OwnStart, VerifyCheckToken, ResetStart, UserStart,
         DeleteStart, LoginLock, BanLockUser, OwnLock, ConfirmLock,
         VerifyLock, GetToken, BanCheck, UserInsert, Statements
<1>2. UNCHANGED <<db, now, in, flow>>
  BY DEF LoginFind, LoginCheckBan, LoginCount, LoginNumber,
         BanStart, OwnStart, VerifyCheckToken, ResetStart, UserStart,
         DeleteStart, LoginLock, BanLockUser, OwnLock, ConfirmLock,
         VerifyLock, GetToken, BanCheck, UserInsert
<1>3. CASE \E a \in Answers \ {"none", "ok"} : Answer(r, a)
  BY <1>1, <1>2, <1>3, AnswerRefuses
<1>4. CASE ResetStart(r) /\ Answer(r, "ok") /\ \A u \in users : u.username # in[r].username
  <2>1. in[r].op = "ResetPassword"
    BY <1>4 DEF ResetStart
  <2>2. Atomic!Served(r)
    BY <1>2, <1>4, CommitServes DEF Commit
  <2>3. Atomic!AskReset(r)
    BY <1>1, <1>2, <1>4, <2>1, Waiting DEF Atomic!AskReset, db
  <2> QED
    BY <2>2, <2>3 DEF Atomic!Takes
<1>5. CASE /\ UserStart(r) /\ Answer(r, "ok") /\ in[r].pw \in LongPasswords
           /\ \A u \in users : u.username # in[r].username
  <2>1. in[r].op = "CreateUser"
    BY <1>5 DEF UserStart
  <2>2. Atomic!Served(r)
    BY <1>2, <1>5, CommitServes DEF Commit
  <2>3. Atomic!CreateUser(r)
    BY <1>1, <1>2, <1>5, <2>1, Waiting DEF Atomic!CreateUser, Atomic!NameFree, db
  <2> QED
    BY <2>2, <2>3 DEF Atomic!Takes
<1>6. \/ \E a \in Answers \ {"none", "ok"} : Answer(r, a)
      \/ ResetStart(r) /\ Answer(r, "ok") /\ \A u \in users : u.username # in[r].username
      \/ /\ UserStart(r) /\ Answer(r, "ok") /\ in[r].pw \in LongPasswords
         /\ \A u \in users : u.username # in[r].username
  BY DEF Panic, Typed, TypeOK, LoginFind, LoginCheckBan, LoginCount, LoginNumber,
         BanStart, OwnStart, VerifyCheckToken, ResetStart, UserStart,
         DeleteStart, NextRow, LoginLock, BanLockUser, OwnLock, ConfirmLock,
         VerifyLock, GetToken, BanCheck, UserInsert, Goto, Answers
<1> QED
  BY <1>3, <1>4, <1>5, <1>6

\* Every statement of a handler, and its failure, is a step of Accounts.
LEMMA HandlerIsAtomic ==
  ASSUME AtomicInv, NEW r \in Requests, HandlerStep(r)
  PROVE  Atomic!Takes(r) \/ Atomic!Refuse(r) \/ UNCHANGED Atomic!vars
<1> USE DEF AtomicInv, TokenInv, SessionInv, LockInv
<1>1. CASE \E rows : Takes(r, rows)
  BY <1>1 DEF Takes, db, Atomic!vars, Atomic!tables
<1>2. CASE Ends(r)
  <2>1. CASE Rollback(r)
    <3>1. pc[r] \in Statements \cup {"authn"}
      BY <2>1 DEF Rollback, Typed, TypeOK
    <3> QED
      BY <2>1, <3>1, AnswerRefuses DEF Rollback, Answers
  <2>2. ~DeleteLockRow(r)
    BY <1>2 DEF DeleteLockRow, NextRow, Goto, Ends, Typed, TypeOK
  <2>3. CASE \/ LoginFind(r) \/ LoginCheckBan(r) \/ LoginCount(r) \/ LoginNumber(r)
             \/ BanStart(r) \/ OwnStart(r) \/ VerifyCheckToken(r) \/ ResetStart(r)
             \/ UserStart(r) \/ DeleteStart(r) \/ LoginLock(r) \/ BanLockUser(r)
             \/ OwnLock(r) \/ ConfirmLock(r) \/ VerifyLock(r) \/ GetToken(r)
             \/ BanCheck(r) \/ UserInsert(r)
    BY <1>2, <2>3, ReadsRefuse DEF Ends
  <2> QED
    BY <2>1, <2>2, <2>3, LogsIn, RenewsOrRefuses, ClearsOrRefuses, BansOrRefuses,
       UnbansOrRefuses, ChangesPasswordOrRefuses, SavesOrRefuses, ConfirmsOrRefuses,
       CreatesOrRefuses, Deletes
    DEF HandlerStep, SessionsStep, CreateSession, SecurityStep, BanUser, AdminStep,
        UsersStep
<1> QED
  BY <1>1, <1>2, HandlerEffect

LEMMA ReceiveArrives ==
  ASSUME AtomicInv, NEW r \in Requests, Receive(r)
  PROVE  Atomic!Arrive(r)
<1> USE DEF AtomicInv, TokenInv, SessionInv, LockInv
<1>1. PICK i \in Input, b \in SessionIds \cup {None} :
        in' = [in EXCEPT ![r] = i] /\ flow' = [flow EXCEPT ![r] = NewFlow(b)]
  <2>1. KnownSessions \subseteq SessionIds
    BY DEF KnownSessions, SessionIds, Ids, Typed, TypeOK, SessionRow
  <2> QED
    BY <2>1 DEF Receive, Requested
<1>2. /\ in[r].op = "none" /\ UNCHANGED <<db, now, resp>>
  BY DEF Receive, Goto, Knows, Arrived, NoInput
<1>3. in'[r] = i /\ in' = [in EXCEPT ![r] = in'[r]]
  BY <1>1 DEF Typed, TypeOK
<1> QED
  BY <1>1, <1>2, <1>3 DEF Atomic!Arrive, Atomic!tables, NewFlow, db

LEMMA AuthenticateIdentifies ==
  ASSUME AtomicInv, NEW r \in Requests, Authenticate(r)
  PROVE  Atomic!Identify(r) \/ Atomic!Refuse(r)
<1> USE DEF AtomicInv, TokenInv, SessionInv, LockInv
<1>1. pc[r] = "authn" /\ UNCHANGED <<db, now, in>>
  BY DEF Authenticate
<1>2. CASE Answer(r, "unauthorized") /\ UNCHANGED flow
  BY <1>1, <1>2, AnswerRefuses DEF Answers
<1>3. ASSUME NEW s \in sessions, s.id = flow[r].bearer, s.expires > flow[r].time,
             flow' = [flow EXCEPT ![r].session = [id |-> s.id, user |-> s.user]],
             Goto(r, "call")
      PROVE  Atomic!Identify(r)
  <2>1. ~HasSession(r)
    BY <1>1 DEF Knows, Arrived
  <2> QED
    BY <1>1, <1>3, <2>1, Waiting
    DEF Atomic!Identify, Atomic!Known, Atomic!tables, HasSession, Goto, db
<1> QED
  BY <1>2, <1>3 DEF Authenticate

LEMMA InitIsAtomic == Init => Atomic!Init
BY DEF Init, Atomic!Init, NoInput

LEMMA NextIsAtomic == AtomicInv /\ [Next]_vars => [Atomic!Next]_(Atomic!vars)
<1> SUFFICES ASSUME AtomicInv, [Next]_vars
             PROVE  Atomic!Next \/ UNCHANGED Atomic!vars
  OBVIOUS
<1>1. CASE \E r \in Requests : Receive(r) \/ Authenticate(r) \/ HandlerStep(r)
  BY <1>1, ReceiveArrives, AuthenticateIdentifies, HandlerIsAtomic DEF Atomic!Next
<1>2. CASE Tick
  BY <1>2 DEF Tick, db, Atomic!Tick, Atomic!Next, Atomic!tables
<1>3. CASE UNCHANGED vars
  BY <1>3 DEF vars, db, Atomic!vars, Atomic!tables
<1> QED
  BY <1>1, <1>2, <1>3, NextCases

\* Requests that interleave statement by statement have the effect they would
\* have one after the other, each when it commits, for any number of them.
THEOREM AuthServiceIsAtomic == Spec => RequestsAreAtomic
BY Knowledge, InitIsAtomic, NextIsAtomic, PTL
DEF Spec, RequestsAreAtomic, Atomic!Spec
=============================================================================
