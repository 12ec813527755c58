--------------------------- MODULE AuthLockProofs ---------------------------
(***************************************************************************)
(* The locks of the auth service, for any number of requests: no two       *)
(* transactions hold one lock, a user whose row is locked stays, and among *)
(* which operations nobody waits in a circle.                              *)
(*                                                                         *)
(* A statement waits until nobody else holds what it locks, so             *)
(* LocksExclusive is kept; whoever holds the lock of a ban holds the lock  *)
(* of its user too, since BanUser holds the user when it reads the ban     *)
(* (HoldsUser).                                                            *)
(*                                                                         *)
(* Holdings says where a request is when it holds a lock of some sort.     *)
(* Without deletions and clearings, who deletes a user's sessions holds    *)
(* the user's row, so that no statement is caught half way by another, and *)
(* whoever holds one lock and waits for another is at one of two places: a *)
(* CreateUser that waits for the token of a confirmation, or a             *)
(* confirmation that waits for the row of its user.  There is no circle.   *)
(***************************************************************************)
EXTENDS AuthTypeProofs

\* No two transactions hold the same lock.
LocksExclusive ==
  \A r, q \in Requests : r # q => locks[r] \cap locks[q] = {}

\* The row of users a transaction has locked stays there until it ends.
LockedUsersStay ==
  \A r \in Requests, u \in UserIds : UserLock(u) \in locks[r] => u \in Ids(users)

\* Where the transaction of r has locked the row of the user it is about.
PastUserLock(r) ==
  \/ pc[r] \in {"check_ban", "count", "number", "insert", "upsert_ban",
                "write", "check_token"}
  \/ pc[r] = "save_token" /\ in[r].op \in {"ChangeEmail", "VerifyUser"}

HoldsUser ==
  \A r \in Requests : PastUserLock(r) => UserLock(loc[r].user) \in locks[r]

BanLockedWithUser ==
  \A r \in Requests, u \in UserIds :
    BanLock(u) \in locks[r] => UserLock(u) \in locks[r]

LockInv ==
  /\ Typed
  /\ LocksExclusive
  /\ HoldsUser
  /\ BanLockedWithUser
  /\ LockedUsersStay

\* A step of r leaves what the other requests know and hold alone.
OthersKept(r) ==
  \A q \in Requests \ {r} :
    /\ pc'[q] = pc[q] /\ loc'[q] = loc[q] /\ locks'[q] = locks[q]
    /\ in'[q] = in[q] /\ flow'[q] = flow[q] /\ resp'[q] = resp[q]

-----------------------------------------------------------------------------
(* Frames                                                                  *)

LEMMA AnswerKeeps ==
  ASSUME Typed, NEW r \in Requests, NEW a, Answer(r, a), UNCHANGED <<in, flow>>
  PROVE  OthersKept(r) /\ locks'[r] = {} /\ pc'[r] = "done"
BY DEF Typed, TypeOK, Answer, OthersKept

LEMMA CommitKeeps ==
  ASSUME Typed, NEW r \in Requests, Commit(r), UNCHANGED <<in, flow>>
  PROVE  OthersKept(r) /\ locks'[r] = {} /\ pc'[r] = "done"
BY AnswerKeeps DEF Commit

-----------------------------------------------------------------------------
(* What a step does to the locks of its request                            *)

\* The step ends the handler, and with it the transaction.
Ends(r) == pc'[r] = "done" /\ locks'[r] = {}

\* The step changes no table and adds `rows` to the locks.
Takes(r, rows) ==
  /\ UNCHANGED <<db, now, in, flow, resp>>
  /\ pc'[r] \in Statements
  /\ locks'[r] = locks[r] \cup rows
  /\ \/ rows = {}
     \/ rows \subseteq Wants(r) /\ Granted(r)
  /\ \A u \in UserIds : UserLock(u) \in rows => u \in Ids(users)
  /\ \A u \in UserIds :
       BanLock(u) \in rows => u = loc[r].user /\ pc[r] = "check_ban"
  /\ PastUserLock(r)' =>
       /\ loc'[r].user = loc[r].user
       /\ PastUserLock(r) \/ UserLock(loc[r].user) \in rows

\* Locks of different things differ.
LEMMA LockShapes ==
  ASSUME NEW u, NEW v
  PROVE  /\ UserLock(u) = UserLock(v) => u = v
         /\ BanLock(u) = BanLock(v) => u = v
         /\ UserLock(u) # BanLock(v)
         /\ UserLock(u) # KeyLock(v) /\ BanLock(u) # KeyLock(v)
         /\ UserLock(u) # NameLock(v) /\ BanLock(u) # NameLock(v)
         /\ \A k \in Kinds : UserLock(u) # TokenLock(k, v) /\ BanLock(u) # TokenLock(k, v)
         /\ UserLock(u) \in Lockable => u \in UserIds
         /\ BanLock(u) \in Lockable => u \in UserIds
BY DEF UserLock, BanLock, KeyLock, NameLock, TokenLock, Kinds, Lockable

LEMMA AuthenticateEffect ==
  ASSUME Typed, NEW r \in Requests, Authenticate(r)
  PROVE  /\ OthersKept(r) /\ locks'[r] \subseteq locks[r]
         /\ ~PastUserLock(r)' /\ UNCHANGED <<db, now, in>>
BY DEF Typed, TypeOK, Authenticate, Answer, Goto, PastUserLock, db, OthersKept

\* The statements that lock nothing and go on.
LEMMA ReadsEffect ==
  ASSUME Typed, NEW r \in Requests, pc'[r] # "done",
         \/ LoginFind(r) \/ LoginCheckBan(r) \/ LoginCount(r) \/ LoginNumber(r)
         \/ BanStart(r) \/ OwnStart(r) \/ VerifyCheckToken(r) \/ ResetStart(r)
         \/ UserStart(r) \/ DeleteStart(r)
  PROVE  OthersKept(r) /\ Takes(r, {})
<1>1. UNCHANGED <<db, now, in, flow, locks, resp>>
  BY DEF Panic, Typed, TypeOK, LoginFind, LoginCheckBan, LoginCount, LoginNumber,
         BanStart, OwnStart, VerifyCheckToken, ResetStart, UserStart,
         DeleteStart, NextRow, Goto, Answer
<1>2. OthersKept(r)
  BY <1>1 DEF Panic, Typed, TypeOK, LoginFind, LoginCheckBan, LoginCount, LoginNumber,
              BanStart, OwnStart, VerifyCheckToken, ResetStart, UserStart,
              DeleteStart, NextRow, Goto, Answer, OthersKept
<1>3. PastUserLock(r)' => loc'[r].user = loc[r].user /\ PastUserLock(r)
  BY <1>1 DEF Panic, Typed, TypeOK, LoginFind, LoginCheckBan, LoginCount, LoginNumber,
              BanStart, OwnStart, VerifyCheckToken, ResetStart, UserStart,
              DeleteStart, NextRow, Goto, Answer, PastUserLock, Locals
<1>4. pc'[r] \in Statements
  BY DEF Panic, Typed, TypeOK, LoginFind, LoginCheckBan, LoginCount, LoginNumber,
         BanStart, OwnStart, VerifyCheckToken, ResetStart, UserStart,
         DeleteStart, NextRow, Goto, Answer, Statements
<1> QED
  BY <1>1, <1>2, <1>3, <1>4 DEF Takes

\* The statements that lock the row of the user.
LEMMA UserLocksEffect ==
  ASSUME Typed, NEW r \in Requests, pc'[r] # "done",
         \/ LoginLock(r) \/ BanLockUser(r) \/ OwnLock(r) \/ ConfirmLock(r)
         \/ VerifyLock(r)
  PROVE  OthersKept(r) /\ Takes(r, {UserLock(loc[r].user)})
<1>1. /\ UNCHANGED <<db, now, in, flow, resp>> /\ pc[r] = "lock_user" /\ Granted(r)
      /\ loc[r].user \in Ids(users) /\ Hold(r, {UserLock(loc[r].user)})
      /\ \/ UNCHANGED loc
         \/ \E u \in users : loc' = [loc EXCEPT ![r].cred = [pw |-> u.pw, email |-> u.email]]
      /\ \E s \in Statements : Goto(r, s)
  BY DEF ForNoKeyUpdate, Typed, TypeOK, LoginLock, BanLockUser, OwnLock, ConfirmLock, VerifyLock,
         Answer, Goto, Ids, Statements
<1>2. OthersKept(r)
  BY <1>1 DEF Typed, TypeOK, Goto, Hold, OthersKept
<1>3. loc'[r].user = loc[r].user
  BY <1>1 DEF Typed, TypeOK, Locals
<1>4. locks'[r] = locks[r] \cup {UserLock(loc[r].user)}
  BY <1>1 DEF Typed, TypeOK, Hold
<1>5. {UserLock(loc[r].user)} \subseteq Wants(r)
  BY <1>1 DEF Wants, First
<1>6. pc'[r] \in Statements
  BY <1>1 DEF Goto, Typed, TypeOK
<1> QED
  BY <1>1, <1>2, <1>3, <1>4, <1>5, <1>6, LockShapes DEF Takes

\* The other statements that take a lock.
LEMMA GetTokenEffect ==
  ASSUME Typed, NEW r \in Requests, pc'[r] # "done", GetToken(r)
  PROVE  /\ OthersKept(r) /\ pc'[r] = "lock_user"
         /\ \E t \in Presented(r) :
              /\ Takes(r, {TokenLock(t.kind, t.user)})
              /\ Usable(r, t)
              /\ loc'[r].user = t.user /\ loc'[r].email = t.email
<1>1. PICK t \in Presented(r) :
        /\ loc' = [loc EXCEPT ![r].user = t.user, ![r].email = t.email]
        /\ Hold(r, {TokenLock(t.kind, t.user)}) /\ Goto(r, "lock_user")
        /\ Usable(r, t)
  BY DEF TokenForNoKeyUpdate, GetToken, Answer, Typed, TypeOK
<1>2. t.kind \in Kinds
  BY DEF Presented, Typed, TypeOK, TokenRow
<1>3. /\ OthersKept(r) /\ pc'[r] = "lock_user"
      /\ UNCHANGED <<db, now, in, flow, resp>>
  BY <1>1 DEF GetToken, Typed, TypeOK, Goto, Hold, OthersKept
<1>4. {TokenLock(t.kind, t.user)} \subseteq Wants(r) /\ Granted(r)
  <2>1. in[r].op \in ConfirmOps /\ pc[r] = "call" /\ Granted(r)
    BY DEF GetToken
  <2>2. \A x \in Presented(r) : TokenLock(x.kind, x.user) \in Wants(r)
    BY <2>1 DEF Wants, First, ConfirmOps
  <2> QED
    BY <2>1, <2>2
<1>5. locks'[r] = locks[r] \cup {TokenLock(t.kind, t.user)}
  BY <1>1 DEF Typed, TypeOK, Hold
<1>6. Takes(r, {TokenLock(t.kind, t.user)})
  BY <1>2, <1>3, <1>4, <1>5, LockShapes DEF Takes, PastUserLock, Statements
<1>7. loc'[r].user = t.user /\ loc'[r].email = t.email
  BY <1>1 DEF Typed, TypeOK, Locals
<1> QED
  BY <1>1, <1>3, <1>6, <1>7

LEMMA BanCheckEffect ==
  ASSUME Typed, NEW r \in Requests, pc'[r] # "done", BanCheck(r)
  PROVE  /\ OthersKept(r) /\ UNCHANGED loc
         /\ BanExists(r) => in[r].replace
         /\ \E rows \in {{}, {BanLock(loc[r].user)}} : Takes(r, rows)
<1> DEFINE rows == IF BanExists(r) THEN {BanLock(loc[r].user)} ELSE {}
<1>1. /\ UNCHANGED <<db, now, in, flow, loc, resp>> /\ Goto(r, "upsert_ban")
      /\ Hold(r, rows) /\ pc[r] = "check_ban" /\ in[r].op = "BanUser" /\ Granted(r)
      /\ BanExists(r) => in[r].replace
  BY DEF BanCheck, Answer, Goto, Typed, TypeOK
<1>2. locks'[r] = locks[r] \cup rows
  BY <1>1 DEF Typed, TypeOK, Hold
<1>3. OthersKept(r)
  BY <1>1 DEF Typed, TypeOK, Goto, Hold, OthersKept
<1>4. pc'[r] = "upsert_ban" /\ "upsert_ban" \in Statements
  BY <1>1 DEF Goto, Typed, TypeOK, Statements
<1>5. rows \in {{}, {BanLock(loc[r].user)}}
  OBVIOUS
<1>6. rows \subseteq Wants(r)
  BY <1>1 DEF Wants, First
<1>7. Takes(r, rows)
  BY <1>1, <1>2, <1>4, <1>6, LockShapes DEF Takes, PastUserLock
<1> QED
  BY <1>1, <1>3, <1>5, <1>7

LEMMA UserInsertEffect ==
  ASSUME Typed, NEW r \in Requests, pc'[r] # "done", UserInsert(r)
  PROVE  OthersKept(r) /\ Takes(r, {NameLock(in[r].username)})
<1>1. /\ UNCHANGED <<db, now, in, flow, resp>> /\ Goto(r, "save_token")
      /\ Hold(r, {NameLock(in[r].username)}) /\ Granted(r)
      /\ loc' = [loc EXCEPT ![r].user = Caller(r)]
      /\ in[r].op = "CreateUser" /\ pc[r] = "insert_user"
  BY DEF UserInsert, EntryOf, Answer, Goto, Typed, TypeOK
<1>2. locks'[r] = locks[r] \cup {NameLock(in[r].username)}
  BY <1>1 DEF Typed, TypeOK, Hold
<1>3. OthersKept(r)
  BY <1>1 DEF Typed, TypeOK, Goto, Hold, OthersKept
<1>4. {NameLock(in[r].username)} \subseteq Wants(r)
  BY <1>1 DEF Wants, First
<1>5. ~PastUserLock(r)' /\ pc'[r] \in Statements
  BY <1>1 DEF PastUserLock, Goto, Typed, TypeOK, Statements
<1> QED
  BY <1>1, <1>2, <1>3, <1>4, <1>5, LockShapes DEF Takes

LEMMA DeleteLockRowEffect ==
  ASSUME Typed, NEW r \in Requests, DeleteLockRow(r)
  PROVE  OthersKept(r) /\ \E rows : Takes(r, rows)
<1> DEFINE rows == IF loc[r].user \in Ids(users)
                     THEN {UserLock(loc[r].user), KeyLock(loc[r].user)} ELSE {}
<1>1. /\ UNCHANGED <<db, now, in, flow, resp>> /\ Hold(r, rows) /\ Granted(r)
      /\ NextRow(r, locks[r] \cup rows) /\ pc[r] = "lock_rows"
      /\ in[r].op \in {"DeleteUsers", "deleteMyUser"}
  BY DEF DeleteLockRow, NextRow, Goto
<1>2. locks'[r] = locks[r] \cup rows
  BY <1>1 DEF Typed, TypeOK, Hold
<1>3. OthersKept(r)
  BY <1>1 DEF Typed, TypeOK, NextRow, Goto, Hold, OthersKept
<1>4. rows \subseteq Wants(r)
  BY <1>1 DEF Wants, First
<1>5. ~PastUserLock(r)' /\ pc'[r] \in Statements
  BY <1>1 DEF PastUserLock, NextRow, Goto, Typed, TypeOK, Statements
<1>6. Takes(r, rows)
  BY <1>1, <1>2, <1>4, <1>5, LockShapes DEF Takes
<1> QED
  BY <1>3, <1>6

\* The statements that end their transaction.
LEMMA WritesEffect ==
  ASSUME Typed, NEW r \in Requests,
         \/ LoginInsert(r) \/ RenewSession(r) \/ ClearSessions(r) \/ Logout(r)
         \/ BanUpsert(r) \/ UnbanUser(r) \/ PasswordWrite(r) \/ SaveToken(r)
         \/ EmailWrite(r) \/ VerifyWrite(r) \/ ResetWrite(r)
         \/ UserSaveToken(r) \/ DeleteCascade(r)
  PROVE  OthersKept(r) /\ Ends(r) /\ UNCHANGED <<now, in, flow>>
<1>1. Answered(r) /\ UNCHANGED <<now, in, flow>>
  BY CommitAnswers
  DEF Panic, LoginInsert, RenewSession, ClearSessions, Logout, ClearRows, BanUpsert,
      UnbanUser, PasswordWrite, SaveToken, EmailWrite, VerifyWrite, ResetWrite,
      UserSaveToken, DeleteCascade, Answered, Answers
<1> QED
  BY <1>1, AnswerKeeps DEF Answered, Ends

\* A handler that stops before its last statement changes nothing.
LEMMA StopsEffect ==
  ASSUME Typed, NEW r \in Requests, pc'[r] = "done",
         \/ LoginFind(r) \/ LoginCheckBan(r) \/ LoginCount(r) \/ LoginNumber(r)
         \/ BanStart(r) \/ OwnStart(r) \/ VerifyCheckToken(r) \/ ResetStart(r)
         \/ UserStart(r) \/ DeleteStart(r) \/ LoginLock(r) \/ BanLockUser(r)
         \/ OwnLock(r) \/ ConfirmLock(r) \/ VerifyLock(r) \/ GetToken(r)
         \/ BanCheck(r) \/ UserInsert(r) \/ Rollback(r)
  PROVE  OthersKept(r) /\ Ends(r) /\ UNCHANGED <<db, now, in, flow>>
<1>1. Answered(r) /\ UNCHANGED <<db, now, in, flow>>
  BY DEF Panic, Typed, TypeOK, LoginFind, LoginCheckBan, LoginCount, LoginNumber,
         BanStart, OwnStart, VerifyCheckToken, ResetStart, UserStart,
         DeleteStart, NextRow, LoginLock, BanLockUser, OwnLock, ConfirmLock,
         VerifyLock, GetToken, BanCheck, UserInsert, Rollback, Goto, Answered,
         Answers
<1> QED
  BY <1>1, AnswerKeeps DEF Answered, Ends

\* A statement after authentication, or a failure: the request alone moves; it
\* takes locks and goes on, or it ends.
HandlerStep(r) ==
  \/ SessionsStep(r) \/ SecurityStep(r) \/ AdminStep(r) \/ UsersStep(r)
  \/ Rollback(r)

LEMMA HandlerEffect ==
  ASSUME Typed, NEW r \in Requests, HandlerStep(r)
  PROVE  /\ OthersKept(r) /\ UNCHANGED <<now, in, flow>>
         /\ Ends(r) \/ \E rows : Takes(r, rows)
<1>1. CASE \/ LoginFind(r) \/ LoginCheckBan(r) \/ LoginCount(r) \/ LoginNumber(r)
           \/ BanStart(r) \/ OwnStart(r) \/ VerifyCheckToken(r) \/ ResetStart(r)
           \/ UserStart(r) \/ DeleteStart(r)
  <2>1. CASE pc'[r] = "done"
    BY <1>1, <2>1, StopsEffect DEF db
  <2>2. CASE pc'[r] # "done"
    <3>1. OthersKept(r) /\ Takes(r, {})
      BY <1>1, <2>2, ReadsEffect
    <3>2. UNCHANGED <<now, in, flow>>
      BY <3>1 DEF Takes
    <3> QED
      BY <3>1, <3>2
  <2> QED
    BY <2>1, <2>2
<1>2. CASE \/ LoginLock(r) \/ BanLockUser(r) \/ OwnLock(r) \/ ConfirmLock(r)
           \/ VerifyLock(r)
  <2>1. CASE pc'[r] = "done"
    BY <1>2, <2>1, StopsEffect
  <2>2. CASE pc'[r] # "done"
    BY <1>2, <2>2, UserLocksEffect DEF Takes
  <2> QED
    BY <2>1, <2>2
<1>3. CASE GetToken(r) \/ BanCheck(r) \/ UserInsert(r)
  <2>1. CASE pc'[r] = "done"
    BY <1>3, <2>1, StopsEffect
  <2>2. CASE pc'[r] # "done"
    BY <1>3, <2>2, GetTokenEffect, BanCheckEffect, UserInsertEffect DEF Takes
  <2> QED
    BY <2>1, <2>2
<1>4. CASE DeleteLockRow(r)
  BY <1>4, DeleteLockRowEffect DEF Takes
<1>5. CASE \/ LoginInsert(r) \/ RenewSession(r) \/ ClearSessions(r) \/ Logout(r)
           \/ BanUpsert(r) \/ UnbanUser(r) \/ PasswordWrite(r) \/ SaveToken(r)
           \/ EmailWrite(r) \/ VerifyWrite(r) \/ ResetWrite(r)
           \/ UserSaveToken(r) \/ DeleteCascade(r)
  BY <1>5, WritesEffect
<1>6. CASE Rollback(r)
  <2>1. Answered(r) /\ UNCHANGED <<db, now, in, flow>>
    BY <1>6 DEF Rollback, Answered, Answers
  <2> QED
    BY <2>1, AnswerKeeps DEF Answered, Ends
<1> QED
  BY <1>1, <1>2, <1>3, <1>4, <1>5, <1>6
  DEF HandlerStep, SessionsStep, CreateSession, SecurityStep, BanUser,
      AdminStep, UsersStep

\* The statements after which a handler goes on.
LEMMA Proceeding ==
  ASSUME Typed, NEW r \in Requests, HandlerStep(r), pc'[r] # "done"
  PROVE  /\ \/ LoginFind(r) \/ LoginLock(r) \/ LoginCheckBan(r) \/ LoginCount(r)
            \/ LoginNumber(r)
            \/ BanStart(r) \/ BanLockUser(r) \/ BanCheck(r)
            \/ OwnStart(r) \/ OwnLock(r) \/ VerifyLock(r) \/ VerifyCheckToken(r)
            \/ GetToken(r) \/ ConfirmLock(r) \/ ResetStart(r)
            \/ UserStart(r) \/ UserInsert(r)
            \/ DeleteStart(r) \/ DeleteLockRow(r)
         /\ pc[r] \in Statements /\ pc'[r] \in Statements \ {"call"}
         /\ UNCHANGED <<db, now, in, flow, resp>>
<1>1. ~Rollback(r)
  BY DEF Rollback, Answer, Typed, TypeOK
<1>2. \/ LoginFind(r) \/ LoginLock(r) \/ LoginCheckBan(r) \/ LoginCount(r)
      \/ LoginNumber(r)
      \/ BanStart(r) \/ BanLockUser(r) \/ BanCheck(r)
      \/ OwnStart(r) \/ OwnLock(r) \/ VerifyLock(r) \/ VerifyCheckToken(r)
      \/ GetToken(r) \/ ConfirmLock(r) \/ ResetStart(r)
      \/ UserStart(r) \/ UserInsert(r)
      \/ DeleteStart(r) \/ DeleteLockRow(r)
  BY <1>1, WritesEffect
  DEF HandlerStep, SessionsStep, CreateSession, SecurityStep, BanUser, AdminStep,
      UsersStep, Ends
<1>3. pc[r] \in Statements
  BY <1>2
  DEF LoginFind, LoginLock, LoginCheckBan, LoginCount, LoginNumber, BanStart,
      BanLockUser, BanCheck, OwnStart, OwnLock, VerifyLock, VerifyCheckToken,
      GetToken, ConfirmLock, ResetStart, UserStart, UserInsert, DeleteStart,
      DeleteLockRow, Statements
<1>4. pc'[r] # "call"
  BY <1>2
  DEF LoginFind, LoginLock, LoginCheckBan, LoginCount, LoginNumber, BanStart,
      BanLockUser, BanCheck, OwnStart, OwnLock, VerifyLock, VerifyCheckToken,
      GetToken, ConfirmLock, ResetStart, UserStart, UserInsert, DeleteStart,
      DeleteLockRow, NextRow, Panic, Goto, Answer, Typed, TypeOK
<1>5. \E rows : Takes(r, rows)
  BY HandlerEffect DEF Ends
<1> QED
  BY <1>2, <1>3, <1>4, <1>5 DEF Takes

\* Only a deletion removes users, and only those it has locked.
LEMMA UsersStay ==
  ASSUME Typed, NEW r \in Requests, HandlerStep(r), NEW u \in Ids(users),
         ~(DeleteCascade(r) /\ UserLock(u) \in locks[r])
  PROVE  u \in Ids(users')
<1> PICK x \in users : x.id = u
  BY DEF Ids
<1> SUFFICES \E y \in users' : y.id = u
  BY DEF Ids
<1> x \in UserRow
  BY DEF Typed, TypeOK
<1>1. CASE LoginInsert(r)
  <2>1. [x EXCEPT !.lastLogin = flow[r].time].id = u
    BY DEF UserRow
  <2> QED
    BY <1>1, <2>1 DEF LoginInsert
<1>2. CASE PasswordWrite(r) \/ ResetWrite(r)
  <2>1. [x EXCEPT !.pw = in[r].newPw].id = u
    BY DEF UserRow
  <2> QED
    BY <1>2, <2>1 DEF PasswordWrite, ResetWrite, SetPassword
<1>3. CASE EmailWrite(r)
  <2>1. [x EXCEPT !.email = loc[r].email].id = u
    BY DEF UserRow
  <2> QED
    BY <1>3, <2>1 DEF EmailWrite, Readdressed
<1>4. CASE VerifyWrite(r)
  <2>1. [x EXCEPT !.verified = TRUE].id = u
    BY DEF UserRow
  <2> QED
    BY <1>4, <2>1 DEF VerifyWrite
<1>5. CASE UserSaveToken(r)
  BY <1>5 DEF UserSaveToken
<1>6. CASE DeleteCascade(r)
  BY <1>6 DEF DeleteCascade, Deleted
<1>7. CASE UNCHANGED users
  BY <1>7
<1>8. \/ LoginInsert(r) \/ PasswordWrite(r) \/ ResetWrite(r) \/ EmailWrite(r)
      \/ VerifyWrite(r) \/ UserSaveToken(r) \/ DeleteCascade(r) \/ UNCHANGED users
  BY DEF HandlerStep, Rollback, db,
         SessionsStep, CreateSession, LoginFind, LoginLock, LoginCheckBan,
         LoginCount, LoginNumber, RenewSession, ClearSessions, Logout,
         SecurityStep, BanUser, BanStart, BanLockUser, BanCheck, BanUpsert,
         UnbanUser, AdminStep, OwnStart, OwnLock, GetToken, SaveToken,
         ConfirmLock, VerifyLock, VerifyCheckToken, ResetStart,
         UsersStep, UserStart, UserInsert, DeleteStart, DeleteLockRow
<1> QED
  BY <1>1, <1>2, <1>3, <1>4, <1>5, <1>6, <1>7, <1>8

-----------------------------------------------------------------------------
(* The invariant                                                           *)

LEMMA HandlerLocks ==
  ASSUME LockInv, NEW r \in Requests, HandlerStep(r)
  PROVE  LocksExclusive' /\ HoldsUser' /\ BanLockedWithUser' /\ LockedUsersStay'
<1> USE DEF LockInv
<1>1. /\ OthersKept(r) /\ UNCHANGED <<now, in, flow>>
      /\ Ends(r) \/ \E rows : Takes(r, rows)
  BY HandlerEffect
<1>2. CASE Ends(r)
  <2>1. LocksExclusive'
    BY <1>1, <1>2 DEF LocksExclusive, OthersKept, Ends
  <2>2. HoldsUser'
    BY <1>1, <1>2 DEF HoldsUser, PastUserLock, OthersKept, Ends
  <2>3. BanLockedWithUser'
    BY <1>1, <1>2 DEF BanLockedWithUser, OthersKept, Ends
  <2>4. ASSUME NEW q \in Requests, NEW u \in UserIds, UserLock(u) \in locks'[q]
        PROVE  u \in Ids(users')
    <3>1. q # r /\ UserLock(u) \in locks[q]
      BY <1>1, <1>2, <2>4 DEF OthersKept, Ends
    <3>2. u \in Ids(users) /\ UserLock(u) \notin locks[r]
      BY <3>1 DEF LocksExclusive, LockedUsersStay
    <3> QED
      BY <3>2, UsersStay
  <2> QED
    BY <2>1, <2>2, <2>3, <2>4 DEF LockedUsersStay
<1>3. ASSUME NEW rows, Takes(r, rows)
      PROVE  LocksExclusive' /\ HoldsUser' /\ BanLockedWithUser' /\ LockedUsersStay'
  <2>1. ASSUME NEW q \in Requests \ {r} PROVE rows \cap locks[q] = {}
    BY <1>3 DEF Takes, Granted, Waits
  <2>2. LocksExclusive'
    BY <1>1, <1>3, <2>1 DEF LocksExclusive, OthersKept, Takes
  <2>3. HoldsUser'
    BY <1>1, <1>3 DEF HoldsUser, PastUserLock, OthersKept, Takes
  <2>4. BanLockedWithUser'
    BY <1>1, <1>3 DEF BanLockedWithUser, OthersKept, Takes, HoldsUser, PastUserLock
  <2>5. LockedUsersStay'
    BY <1>1, <1>3 DEF LockedUsersStay, OthersKept, Takes, db, Ids
  <2> QED
    BY <2>2, <2>3, <2>4, <2>5
<1> QED
  BY <1>1, <1>2, <1>3

\* Who moves: one request, the clock or nobody.
LEMMA NextCases ==
  ASSUME [Next]_vars
  PROVE  \/ \E r \in Requests : Receive(r) \/ Authenticate(r) \/ HandlerStep(r)
         \/ Tick \/ UNCHANGED vars
<1>1. ASSUME NEW r \in Requests, Step(r) PROVE Authenticate(r) \/ HandlerStep(r)
  BY <1>1 DEF Step, HandlerStep
<1>2. ASSUME NEW r \in Requests, Rollback(r) PROVE HandlerStep(r)
  BY <1>2 DEF HandlerStep
<1> QED
  BY <1>1, <1>2 DEF Next, Abort, DeadlockVictim,
                     StatementDeadlock, Idle

LEMMA InitLocks == Init => LockInv
BY InitTyped
DEF Init, LockInv, LocksExclusive, HoldsUser, PastUserLock, BanLockedWithUser,
    LockedUsersStay

LEMMA NextLocks == LockInv /\ [Next]_vars => LockInv'
<1> SUFFICES ASSUME LockInv, [Next]_vars PROVE LockInv'
  OBVIOUS
<1>1. Typed'
  BY NextTyped DEF LockInv
<1>2. ASSUME NEW r \in Requests, Receive(r)
      PROVE  LocksExclusive' /\ HoldsUser' /\ BanLockedWithUser' /\ LockedUsersStay'
  BY <1>2
  DEF Receive, Goto, db, LockInv, LocksExclusive, HoldsUser, PastUserLock,
      BanLockedWithUser, LockedUsersStay, Ids, Typed, TypeOK
<1>3. ASSUME NEW r \in Requests, Authenticate(r)
      PROVE  LocksExclusive' /\ HoldsUser' /\ BanLockedWithUser' /\ LockedUsersStay'
  <2>1. /\ OthersKept(r) /\ locks'[r] \subseteq locks[r]
        /\ ~PastUserLock(r)' /\ UNCHANGED <<db, now, in>>
    BY <1>3, AuthenticateEffect DEF LockInv
  <2>2. locks'[r] = locks[r] \/ locks'[r] = {}
    BY <1>3 DEF Authenticate, Answer, LockInv, Typed, TypeOK
  <2> QED
    BY <2>1, <2>2
    DEF OthersKept, db, LockInv, LocksExclusive, HoldsUser, PastUserLock,
        BanLockedWithUser, LockedUsersStay, Ids
<1>4. ASSUME NEW r \in Requests, HandlerStep(r)
      PROVE  LocksExclusive' /\ HoldsUser' /\ BanLockedWithUser' /\ LockedUsersStay'
  BY <1>4, HandlerLocks
<1>5. CASE Tick \/ UNCHANGED vars
  BY <1>1, <1>5
  DEF Tick, vars, db, LockInv, LocksExclusive, HoldsUser, PastUserLock,
      BanLockedWithUser, LockedUsersStay, Ids
<1>6. CASE \E r \in Requests : Receive(r) \/ Authenticate(r) \/ HandlerStep(r)
  BY <1>1, <1>2, <1>3, <1>4, <1>6 DEF LockInv
<1> QED
  BY <1>1, <1>5, <1>6, NextCases DEF LockInv

\* The locks are as in LockInv in every reachable state.
THEOREM Locking == Spec => []LockInv
BY InitLocks, NextLocks, PTL DEF Spec

\* No two transactions hold one lock: of a user, of a key, of a token, of a
\* ban or of a name that is being created.
THEOREM LocksAreExclusive == Spec => []LocksExclusive
BY Locking, PTL DEF LockInv

\* A user whose row a login, a ban or a confirmation has locked is not deleted
\* before that transaction ends.
THEOREM LockedUsersAreKept == Spec => []LockedUsersStay
BY Locking, PTL DEF LockInv

-----------------------------------------------------------------------------
(* Who waits, and for whom                                                 *)

DeleteOps == {"DeleteUsers", "deleteMyUser"}
\* Where a confirmation has its token.
Confirming(r) == in[r].op \in ConfirmOps /\ pc[r] \in {"lock_user", "write"}

\* Where a deletion locks the rows of its users.
Deleting(r) == in[r].op \in DeleteOps /\ pc[r] \in {"lock_rows", "cascade"}

\* Who holds a lock of each sort.
HeldBy(r, l) ==
  \/ \E u \in UserIds : l = UserLock(u) /\ (PastUserLock(r) \/ Deleting(r))
  \/ \E u \in UserIds : l = KeyLock(u) /\ Deleting(r)
  \/ \E u \in UserIds : l = BanLock(u) /\ in[r].op = "BanUser" /\ pc[r] = "upsert_ban"
  \/ \E u \in UserIds, k \in Kinds : l = TokenLock(k, u) /\ Confirming(r)
  \/ \E n \in Usernames :
       l = NameLock(n) /\ in[r].op = "CreateUser" /\ pc[r] = "save_token"

Holdings(r) ==
  /\ pc[r] \notin {"new", "done"} => in[r].op \in Ops[r]
  /\ pc[r] = "cascade" => in[r].op \in DeleteOps
  /\ \A l \in locks[r] : pc[r] # "new" /\ HeldBy(r, l)

WaitInv == LockInv /\ \A r \in Requests : Holdings(r)

\* No deletion of users, whose cascade writes tokens and sessions and, by ON
\* DELETE SET NULL of banned_by, bans of users it has not locked; no clearing
\* of sessions, which locks no user; and where tokens are redeemed, no request
\* of a user for one, which locks a row of users and then wants one of tokens.
NoCircle ==
  \A r, q \in Requests :
    /\ Ops[r] \cap {"DeleteUsers", "deleteMyUser", "ClearSessions", "logout"} = {}
    /\ Ops[r] \cap ConfirmOps # {} => Ops[q] \cap {"ChangeEmail", "VerifyUser"} = {}

LEMMA KeysShape ==
  ASSUME NEW u, NEW v
  PROVE  /\ KeyLock(u) = KeyLock(v) => u = v
         /\ KeyLock(u) # NameLock(v)
         /\ \A k \in Kinds : KeyLock(u) # TokenLock(k, v) /\ NameLock(u) # TokenLock(k, v)
         /\ NameLock(u) = NameLock(v) => u = v
BY DEF KeyLock, NameLock, TokenLock, Kinds

LEMMA HeldSorts ==
  ASSUME WaitInv, NEW r \in Requests, NEW u
  PROVE  /\ UserLock(u) \in locks[r] => PastUserLock(r) \/ Deleting(r)
         /\ KeyLock(u) \in locks[r] => Deleting(r)
         /\ BanLock(u) \in locks[r] => in[r].op = "BanUser" /\ pc[r] = "upsert_ban"
         /\ NameLock(u) \in locks[r] => in[r].op = "CreateUser" /\ pc[r] = "save_token"
         /\ \A k \in Kinds : TokenLock(k, u) \in locks[r] => Confirming(r)
<1>1. \A l \in locks[r] : HeldBy(r, l)
  BY DEF WaitInv, Holdings
<1>2. UserLock(u) \in locks[r] => PastUserLock(r) \/ Deleting(r)
  BY <1>1 DEF HeldBy, UserLock, KeyLock, BanLock, TokenLock, NameLock, Kinds
<1>3. KeyLock(u) \in locks[r] => Deleting(r)
  BY <1>1 DEF HeldBy, UserLock, KeyLock, BanLock, TokenLock, NameLock, Kinds
<1>4. BanLock(u) \in locks[r] => in[r].op = "BanUser" /\ pc[r] = "upsert_ban"
  BY <1>1 DEF HeldBy, UserLock, KeyLock, BanLock, TokenLock, NameLock, Kinds
<1>5. NameLock(u) \in locks[r] => in[r].op = "CreateUser" /\ pc[r] = "save_token"
  BY <1>1 DEF HeldBy, UserLock, KeyLock, BanLock, TokenLock, NameLock, Kinds
<1>6. \A k \in Kinds : TokenLock(k, u) \in locks[r] => Confirming(r)
  BY <1>1 DEF HeldBy, UserLock, KeyLock, BanLock, TokenLock, NameLock, Kinds
<1> QED
  BY <1>2, <1>3, <1>4, <1>5, <1>6

\* A request that has not locked a row yet holds nothing.
LEMMA NothingHeld ==
  ASSUME NEW r \in Requests, Holdings(r),
         pc[r] \in {"new", "authn", "call", "find", "insert_user", "done"}
  PROVE  locks[r] = {}
BY DEF Holdings, HeldBy, PastUserLock, Deleting, Confirming

\* What is held stays explained when the handler goes on.
LEMMA GoingOn ==
  ASSUME Typed, NEW r \in Requests, Holdings(r), HandlerStep(r), pc'[r] # "done",
         NEW l \in locks[r]
  PROVE  HeldBy(r, l)'
<1>1. /\ \/ LoginFind(r) \/ LoginLock(r) \/ LoginCheckBan(r) \/ LoginCount(r)
         \/ LoginNumber(r)
         \/ BanStart(r) \/ BanLockUser(r) \/ BanCheck(r)
         \/ OwnStart(r) \/ OwnLock(r) \/ VerifyLock(r) \/ VerifyCheckToken(r)
         \/ GetToken(r) \/ ConfirmLock(r) \/ ResetStart(r)
         \/ UserStart(r) \/ UserInsert(r)
         \/ DeleteStart(r) \/ DeleteLockRow(r)
      /\ UNCHANGED in
  BY Proceeding
<1>2. HeldBy(r, l)
  BY DEF Holdings
<1>3. pc[r] \notin {"call", "insert_user"}
  BY <1>2 DEF HeldBy, PastUserLock, Deleting, Confirming
<1>4. /\ PastUserLock(r) => PastUserLock(r)'
      /\ Deleting(r) => Deleting(r)'
      /\ Confirming(r) => Confirming(r)'
      /\ pc[r] \notin {"upsert_ban", "save_token"}
  BY <1>1, <1>3
  DEF LoginFind, LoginLock, LoginCheckBan, LoginCount, LoginNumber, BanStart,
      BanLockUser, BanCheck, OwnStart, OwnLock, VerifyLock, VerifyCheckToken,
      GetToken, ConfirmLock, ResetStart, UserStart, UserInsert, DeleteStart,
      DeleteLockRow, NextRow, Goto, Answer, Typed, TypeOK,
      PastUserLock, Deleting, DeleteOps, Confirming, ConfirmOps
<1> QED
  BY <1>1, <1>2, <1>4 DEF HeldBy

\* What the handler locks with a step is explained by where it is after it.
LEMMA LockedNow ==
  ASSUME Typed, Typed', NEW r \in Requests, HandlerStep(r), pc'[r] # "done",
         NEW l \in locks'[r], l \notin locks[r]
  PROVE  HeldBy(r, l)'
<1>1. /\ \/ LoginFind(r) \/ LoginLock(r) \/ LoginCheckBan(r) \/ LoginCount(r)
         \/ LoginNumber(r)
         \/ BanStart(r) \/ BanLockUser(r) \/ BanCheck(r)
         \/ OwnStart(r) \/ OwnLock(r) \/ VerifyLock(r) \/ VerifyCheckToken(r)
         \/ GetToken(r) \/ ConfirmLock(r) \/ ResetStart(r)
         \/ UserStart(r) \/ UserInsert(r)
         \/ DeleteStart(r) \/ DeleteLockRow(r)
      /\ UNCHANGED in
  BY Proceeding
<1>2. l \in Lockable
  BY DEF Typed, TypeOK
<1>3. CASE \/ LoginFind(r) \/ LoginCheckBan(r) \/ LoginCount(r) \/ LoginNumber(r)
           \/ BanStart(r) \/ OwnStart(r) \/ VerifyCheckToken(r) \/ ResetStart(r)
           \/ UserStart(r) \/ DeleteStart(r)
  BY <1>3, ReadsEffect DEF Takes
<1>4. CASE LoginLock(r) \/ BanLockUser(r) \/ OwnLock(r) \/ VerifyLock(r) \/ ConfirmLock(r)
  <2>1. l = UserLock(loc[r].user)
    BY <1>4, UserLocksEffect DEF Takes
  <2>2. loc[r].user \in UserIds
    BY <1>2, <2>1, LockShapes
  <2>3. PastUserLock(r)'
    BY <1>1, <1>4
    DEF LoginLock, BanLockUser, OwnLock, VerifyLock, ConfirmLock, Goto, Answer,
        Typed, TypeOK, PastUserLock
  <2> QED
    BY <2>1, <2>2, <2>3 DEF HeldBy
<1>5. CASE GetToken(r)
  <2>1. PICK t \in Presented(r) : Takes(r, {TokenLock(t.kind, t.user)})
    BY <1>5, GetTokenEffect
  <2>2. l = TokenLock(t.kind, t.user) /\ t.kind \in Kinds /\ t.user \in UserIds
    BY <2>1 DEF Takes, Presented, Typed, TypeOK, TokenRow
  <2>3. Confirming(r)'
    BY <1>1, <1>5, GetTokenEffect DEF GetToken, Confirming
  <2> QED
    BY <2>2, <2>3 DEF HeldBy
<1>6. CASE BanCheck(r)
  <2>1. l = BanLock(loc[r].user)
    BY <1>6, BanCheckEffect DEF Takes
  <2>2. loc[r].user \in UserIds
    BY <1>2, <2>1, LockShapes
  <2>3. in'[r].op = "BanUser" /\ pc'[r] = "upsert_ban"
    BY <1>1, <1>6 DEF BanCheck, Goto, Answer, Typed, TypeOK
  <2> QED
    BY <2>1, <2>2, <2>3 DEF HeldBy
<1>7. CASE UserInsert(r)
  <2>1. l = NameLock(in[r].username)
    BY <1>7, UserInsertEffect DEF Takes
  <2>2. in[r].username \in Usernames
    BY <1>2, <2>1 DEF NameLock, Lockable, Kinds
  <2>3. in'[r].op = "CreateUser" /\ pc'[r] = "save_token"
    BY <1>1, <1>7 DEF UserInsert, Goto, Answer, Typed, TypeOK
  <2> QED
    BY <2>1, <2>2, <2>3 DEF HeldBy
<1>8. CASE DeleteLockRow(r)
  <2>1. l \in {UserLock(loc[r].user), KeyLock(loc[r].user)}
    BY <1>8 DEF DeleteLockRow, Hold, Typed, TypeOK
  <2>2. loc[r].user \in UserIds
    BY <1>2, <2>1 DEF UserLock, KeyLock, Lockable, Kinds
  <2>3. Deleting(r)'
    BY <1>1, <1>8
    DEF DeleteLockRow, NextRow, Goto, Typed, TypeOK, Deleting, DeleteOps
  <2> QED
    BY <2>1, <2>2, <2>3 DEF HeldBy
<1> QED
  BY <1>1, <1>3, <1>4, <1>5, <1>6, <1>7, <1>8

\* Only a deletion cascades.
LEMMA Cascading ==
  ASSUME Typed, NEW r \in Requests, HandlerStep(r), pc'[r] = "cascade"
  PROVE  in'[r].op \in DeleteOps
<1>1. ~(\/ LoginFind(r) \/ LoginLock(r) \/ LoginCheckBan(r) \/ LoginCount(r)
        \/ LoginNumber(r) \/ BanStart(r) \/ BanLockUser(r) \/ BanCheck(r))
  BY DEF LoginFind, LoginLock, LoginCheckBan, LoginCount, LoginNumber, BanStart,
         BanLockUser, BanCheck, Goto, Answer, Typed, TypeOK
<1>2. ~(\/ OwnStart(r) \/ OwnLock(r) \/ VerifyLock(r) \/ VerifyCheckToken(r)
        \/ GetToken(r) \/ ConfirmLock(r) \/ ResetStart(r)
        \/ UserStart(r) \/ UserInsert(r))
  BY DEF OwnStart, OwnLock, VerifyLock, VerifyCheckToken, GetToken, ConfirmLock,
         ResetStart, UserStart, UserInsert, Panic, Goto, Answer, Typed, TypeOK
<1>3. (DeleteStart(r) \/ DeleteLockRow(r)) /\ UNCHANGED in
  BY <1>1, <1>2, Proceeding
<1> QED
  BY <1>3 DEF DeleteStart, DeleteLockRow, DeleteOps

LEMMA InitWaits == Init => WaitInv
BY InitLocks DEF Init, WaitInv, Holdings

LEMMA NextWaits == WaitInv /\ [Next]_vars => WaitInv'
<1> SUFFICES ASSUME WaitInv, [Next]_vars PROVE WaitInv'
  OBVIOUS
<1>1. LockInv' /\ Typed /\ Typed'
  BY NextLocks DEF WaitInv, LockInv
<1>2. SUFFICES ASSUME NEW q \in Requests PROVE Holdings(q)'
  BY <1>1 DEF WaitInv
<1>3. Holdings(q)
  BY DEF WaitInv
<1>4. ASSUME NEW r \in Requests, OthersKept(r), q # r PROVE Holdings(q)'
  BY <1>3, <1>4
  DEF OthersKept, Holdings, HeldBy, PastUserLock, Deleting, Confirming, Caller
<1>5. ASSUME NEW r \in Requests, Receive(r) PROVE Holdings(q)'
  <2>1. OthersKept(r) /\ UNCHANGED locks
    BY <1>1, <1>5 DEF Receive, Goto, Typed, TypeOK, OthersKept
  <2>2. CASE q = r
    <3>1. in'[r].op \in Ops[r] /\ pc'[r] \in {"call", "authn"}
      BY <1>1, <1>5 DEF Receive, Requested, Goto, Typed, TypeOK
    <3>2. locks[r] = {}
      BY <1>3, <1>5, <2>2, NothingHeld DEF Receive
    <3> QED
      BY <2>1, <2>2, <3>1, <3>2 DEF Holdings
  <2> QED
    BY <1>4, <2>1, <2>2
<1>6. ASSUME NEW r \in Requests, Authenticate(r) PROVE Holdings(q)'
  <2>1. OthersKept(r) /\ locks'[r] \subseteq locks[r] /\ UNCHANGED in
    BY <1>1, <1>6, AuthenticateEffect
  <2>2. CASE q = r
    <3>1. pc[r] = "authn" /\ pc'[r] \in {"call", "done"}
      BY <1>1, <1>6 DEF Authenticate, Goto, Answer, Typed, TypeOK
    <3>2. locks'[r] = {}
      BY <1>3, <2>1, <2>2, <3>1, NothingHeld
    <3> QED
      BY <1>3, <2>1, <2>2, <3>1, <3>2 DEF Holdings
  <2> QED
    BY <1>4, <2>1, <2>2
<1>7. ASSUME NEW r \in Requests, HandlerStep(r) PROVE Holdings(q)'
  <2>1. OthersKept(r) /\ UNCHANGED in /\ (Ends(r) \/ \E rows : Takes(r, rows))
    BY <1>1, <1>7, HandlerEffect
  <2>2. CASE q = r /\ pc'[r] = "done"
    <3>1. Ends(r)
      BY <2>1, <2>2 DEF Takes, Statements
    <3> QED
      BY <2>2, <3>1 DEF Ends, Holdings
  <2>3. CASE q = r /\ pc'[r] # "done"
    <3>1. in'[r].op \in Ops[r] /\ pc'[r] # "new"
      <4>1. pc[r] \in Statements /\ pc'[r] \in Statements
        BY <1>1, <1>7, <2>3, Proceeding
      <4> QED
        BY <1>3, <2>1, <2>3, <4>1 DEF Holdings, Statements
    <3>2. \A l \in locks'[r] : HeldBy(r, l)'
      BY <1>1, <1>3, <1>7, <2>3, GoingOn, LockedNow
    <3>3. pc'[r] = "cascade" => in'[r].op \in DeleteOps
      BY <1>1, <1>7, Cascading
    <3> QED
      BY <2>3, <3>1, <3>2, <3>3 DEF Holdings
  <2> QED
    BY <1>4, <2>1, <2>2, <2>3
<1>8. CASE Tick \/ UNCHANGED vars
  BY <1>3, <1>8
  DEF Tick, vars, db, Holdings, HeldBy, PastUserLock, Deleting, Confirming,
      Caller
<1> QED
  BY <1>5, <1>6, <1>7, <1>8, NextCases

-----------------------------------------------------------------------------
(* Nobody waits in a circle                                                *)

\* Where a request can both hold a lock and wait for another.
Creating(r) == in[r].op = "CreateUser" /\ pc[r] = "save_token"
Redeeming(r) == in[r].op \in ConfirmOps /\ pc[r] = "lock_user"
Asking(r) == in[r].op \in {"ChangeEmail", "VerifyUser"} /\ pc[r] = "save_token"
Banning(r) ==
  \/ in[r].op = "BanUser" /\ pc[r] = "check_ban"
  \/ pc[r] = "upsert_ban"

\* Rows of sessions are locked by last statements only.
LEMMA SessionShape ==
  ASSUME NEW s, NEW r \in Requests
  PROVE  /\ \A x : SessionLock(s) = SessionLock(x) => s = x
         /\ Typed => SessionLock(s) \notin locks[r]
         /\ Typed => SessionLock(s) \notin First(r)
<1>1. \A x : SessionLock(s) = SessionLock(x) => s = x
  BY DEF SessionLock
<1>2. Typed => SessionLock(s) \notin locks[r]
  BY DEF Typed, TypeOK, Lockable, Kinds, SessionLock
<1>3. ASSUME Typed PROVE SessionLock(s) \notin First(r)
  <2>1. \A u : SessionLock(s) \notin {UserLock(u), KeyLock(u), BanLock(u), NameLock(u)}
    BY DEF SessionLock, UserLock, KeyLock, BanLock, NameLock
  <2>2. \A k \in Kinds : \A u : SessionLock(s) # TokenLock(k, u)
    BY DEF SessionLock, TokenLock, Kinds
  <2>3. \A t \in Presented(r) : t.kind \in Kinds
    BY <1>3 DEF Presented, Typed, TypeOK, TokenRow
  <2>4. KindOf(in[r].op) \in Kinds
    BY DEF KindOf, Kinds
  <2> QED
    BY <2>1, <2>2, <2>3, <2>4 DEF First
<1> QED
  BY <1>1, <1>2, <1>3

\* Without deletions and clearings nobody locks a key, and the rows that last
\* statements lock are sessions of a user whose row is locked: no two requests
\* want the same.
LEMMA NobodyDeletes ==
  ASSUME WaitInv, NoCircle, NEW q \in Requests
  PROVE  ~Deleting(q) /\ ~(pc[q] = "call" /\ Clears(q)) /\ pc[q] # "cascade"
<1>1. Holdings(q) /\ Typed
  BY DEF WaitInv, LockInv
<1> QED
  BY <1>1 DEF Holdings, NoCircle, Deleting, DeleteOps, Clears

LEMMA RowsAlone ==
  ASSUME WaitInv, NoCircle, NEW p \in Requests, NEW q \in Requests, p # q,
         NEW l \in Rows(p)
  PROVE  l \notin locks[q] /\ l \notin Wants(q)
<1>1. Typed
  BY DEF WaitInv, LockInv
<1>2. ASSUME NEW r \in Requests, NEW m \in Rows(r)
      PROVE  /\ UserLock(loc[r].user) \in locks[r]
             /\ \E s \in SessionsOf(loc[r].user) : m = SessionLock(s)
  <2>1. pc[r] \in {"write", "upsert_ban"}
    BY <1>2, NobodyDeletes DEF Rows
  <2> QED
    BY <1>2, <2>1 DEF Rows, WaitInv, LockInv, HoldsUser, PastUserLock
<1>3. PICK s \in SessionsOf(loc[p].user) : l = SessionLock(s)
  BY <1>2
<1>4. l \notin locks[q] /\ l \notin First(q)
  BY <1>1, <1>3, SessionShape
<1>5. ASSUME l \in Rows(q) PROVE FALSE
  <2>1. PICK x \in SessionsOf(loc[q].user) : l = SessionLock(x)
    BY <1>2, <1>5
  <2>2. loc[p].user = loc[q].user
    BY <1>3, <2>1, SessionShape DEF SessionsOf
  <2> QED
    BY <1>2, <1>5, <2>2 DEF WaitInv, LockInv, LocksExclusive
<1> QED
  BY <1>4, <1>5 DEF Wants

\* So who is half way through its last statements waits for nobody.
LEMMA WaitsForWhole ==
  ASSUME WaitInv, NoCircle, NEW got \in HalfWay, NEW p \in Requests,
         NEW q \in Requests, WaitsFor(p, q, got)
  PROVE  got[p] = None
<1> SUFFICES ASSUME got[p] # None PROVE FALSE
  OBVIOUS
<1>1. PICK l \in Rows(p) : l \in Has(q, got) /\ q # p
  BY DEF WaitsFor, Lacks
<1>2. l \notin locks[q] /\ l \notin Wants(q)
  BY <1>1, RowsAlone
<1>3. l = got[q] /\ got[q] # None
  BY <1>1, <1>2 DEF Has
<1>4. got[q] \in Wants(q)
  BY <1>3 DEF HalfWay, Partly
<1> QED
  BY <1>2, <1>3, <1>4

LEMMA WaitingHolders ==
  ASSUME WaitInv, NoCircle, NEW p \in Requests, NEW q \in Requests,
         NEW x \in Requests, Waits(p, q), Waits(q, x)
  PROVE  Creating(q) \/ Redeeming(q)
<1>1. Holdings(q) /\ Holdings(x) /\ Typed
  BY DEF WaitInv, LockInv
<1>2. PICK l \in locks[q] : HeldBy(q, l)
  BY <1>1 DEF Waits, Holdings
<1>3. PICK m \in Wants(q) : m \in locks[x] /\ q # x
  BY DEF Waits
<1>4. m \in First(q)
  BY <1>3, RowsAlone DEF Wants
<1>5. ~Deleting(q) /\ ~Deleting(x)
  BY NobodyDeletes
<1>6. \A u : KeyLock(u) # m
  BY <1>3, <1>5, HeldSorts
<1>7. PastUserLock(q) \/ Banning(q) \/ Confirming(q) \/ Creating(q)
  BY <1>2, <1>5 DEF HeldBy, Banning, Creating
<1>8. Asking(q) \/ Banning(q) \/ Redeeming(q) \/ Creating(q)
  BY <1>4, <1>7
  DEF First, PastUserLock, Confirming, ConfirmOps, Asking, Banning, Redeeming, Creating
<1>9. ASSUME Asking(q) PROVE FALSE
  <2>1. PICK k \in Kinds : TokenLock(k, loc[q].user) \in locks[x]
    <3>1. KindOf(in[q].op) \in Kinds
      BY DEF KindOf, Kinds
    <3> QED
      BY <1>3, <1>4, <1>6, <1>9, <3>1 DEF Asking, First
  <2>2. Confirming(x)
    BY <2>1, HeldSorts
  <2> QED
    BY <1>1, <1>9, <2>2 DEF Asking, Confirming, Holdings, NoCircle
<1>10. ASSUME Banning(q) PROVE FALSE
  <2>1. BanLock(loc[q].user) \in locks[x]
    BY <1>3, <1>4, <1>6, <1>10 DEF Banning, First
  <2>2. UserLock(loc[q].user) \in locks[q]
    BY <1>10 DEF Banning, WaitInv, LockInv, HoldsUser, PastUserLock
  <2>3. loc[q].user \in UserIds
    BY <1>1, <2>2, LockShapes DEF Typed, TypeOK
  <2>4. UserLock(loc[q].user) \in locks[x]
    BY <2>1, <2>3 DEF WaitInv, LockInv, BanLockedWithUser
  <2> QED
    BY <1>3, <2>2, <2>4 DEF WaitInv, LockInv, LocksExclusive
<1> QED
  BY <1>8, <1>9, <1>10

\* Of two requests that hold something and wait, the one for the other, the
\* first makes a user and the second redeems a token.
LEMMA WaitingPairs ==
  ASSUME WaitInv, NoCircle, NEW p \in Requests, NEW q \in Requests,
         NEW x \in Requests, NEW y \in Requests,
         Waits(p, q), Waits(q, x), Waits(x, y)
  PROVE  Creating(q) /\ Redeeming(x)
<1>1. /\ Creating(q) \/ Redeeming(q)
      /\ Creating(x) \/ Redeeming(x)
  BY WaitingHolders
<1>2. ~Deleting(x)
  BY NobodyDeletes
<1>3. PICK m \in First(q) : m \in locks[x]
  <2>1. PICK m \in Wants(q) : m \in locks[x] /\ q # x
    BY DEF Waits
  <2> QED
    BY <2>1, RowsAlone DEF Wants
<1>4. CASE Creating(q)
  <2>1. PICK k \in Kinds : TokenLock(k, loc[q].user) \in locks[x]
    <3>1. KindOf(in[q].op) \in Kinds
      BY DEF KindOf, Kinds
    <3>2. \A u : KeyLock(u) # m
      BY <1>2, <1>3, HeldSorts
    <3> QED
      BY <1>3, <1>4, <3>1, <3>2 DEF Creating, First
  <2>2. Confirming(x)
    BY <2>1, HeldSorts
  <2> QED
    BY <1>1, <1>4, <2>2 DEF Confirming, Creating, Redeeming, ConfirmOps
<1>5. CASE Redeeming(q)
  <2>1. UserLock(loc[q].user) \in locks[x]
    BY <1>3, <1>5 DEF Redeeming, First
  <2>2. PastUserLock(x)
    BY <1>2, <2>1, HeldSorts
  <2> QED
    BY <1>1, <2>2 DEF PastUserLock, Creating, Redeeming, ConfirmOps
<1> QED
  BY <1>1, <1>4, <1>5

LEMMA NoCircleOfWaits ==
  ASSUME WaitInv, NoCircle
  PROVE  NeverDeadlocked
<1> SUFFICES ASSUME NEW r \in Requests, NEW got \in HalfWay,
                    NEW S \in SUBSET Requests, r \in S, AllWait(S, got)
             PROVE  FALSE
  BY DEF NeverDeadlocked, OnCircle
<1>1. \A p \in S : \E q \in S : WaitsFor(p, q, got)
  BY DEF AllWait
<1>2. \A p \in S : got[p] = None
  BY <1>1, WaitsForWhole
<1>3. \A p \in S : \E q \in S : Waits(p, q)
  BY <1>1, <1>2 DEF WaitsFor, Waits, Lacks, Has
<1>4. PICK q \in S : Waits(r, q)
  BY <1>3
<1>5. PICK x \in S : Waits(q, x)
  BY <1>3
<1>6. PICK y \in S : Waits(x, y)
  BY <1>3
<1>7. PICK z \in S : Waits(y, z)
  BY <1>3
<1>8. Redeeming(x)
  BY <1>4, <1>5, <1>6, WaitingPairs
<1>9. Creating(x)
  BY <1>5, <1>6, <1>7, WaitingPairs
<1> QED
  BY <1>8, <1>9 DEF Redeeming, Creating, ConfirmOps

\* Where NoCircle holds of the operations, nobody waits in a circle, not even
\* half way through a statement that locks several rows, and PostgreSQL never
\* has to end a transaction: logins, renewals, bans, password changes and
\* creations of users, any number of them, beside requests for tokens, or
\* beside confirmations and ResetPassword.  With deletions or clearings it is
\* not so: a deletion writes bans by the users it removes, and two clearings
\* may meet on two rows.
THEOREM NobodyWaitsInACircle ==
  ASSUME NoCircle
  PROVE  Spec => []NeverDeadlocked
<1>1. Spec => []WaitInv
  BY InitWaits, NextWaits, PTL DEF Spec
<1>2. WaitInv => NeverDeadlocked
  BY NoCircleOfWaits
<1> QED
  BY <1>1, <1>2, PTL
=============================================================================
