--------------------------- MODULE AuthTypeProofs ---------------------------
(***************************************************************************)
(* Type correctness of the auth service, for any number of requests, users *)
(* and sessions.  TypeOK alone is not inductive: that a new session has a  *)
(* number and a history, and that a confirmed address is one, depends on   *)
(* the statements that ran before (FilledIn).                              *)
(***************************************************************************)
EXTENDS AuthService, TLAPS

\* What the local variables of a handler hold by the time they are used.
FilledIn ==
  \A r \in Requests :
    /\ in[r].op = "CreateSession" /\ pc[r] \in {"check_ban", "count", "number", "insert"}
       => loc[r].cred \in Cred
    /\ in[r].op = "CreateSession" /\ pc[r] = "insert"
       => loc[r].num \in 1 .. MaxSessions
    /\ in[r].op = "ChangeEmailToken" /\ pc[r] \in {"lock_user", "write"}
       => loc[r].email \in Emails

Typed == TypeOK /\ FilledIn

-----------------------------------------------------------------------------
(* Inputs and the helpers every action is built from                       *)

\* The fields of an input that end up in a row or in a lock.
LEMMA InputFields ==
  ASSUME NEW i \in Input
  PROVE  /\ i.op = "BanUser" => i.duration \in Int /\ i.user \in UserIds
         /\ i.op \in {"ChangePassword", "ResetPasswordToken"} =>
              i.newPw \in Passwords
         /\ i.op = "ChangeEmail" => i.email \in Emails
         /\ i.op = "CreateUser" => /\ i.username \in Usernames
                                   /\ i.email \in Emails
                                   /\ i.pw \in Passwords
BY ConfigAssumption
DEF    Input, LoginInput, BareInput, ClearInput, LogoutInput, BanInput,
       UnbanInput, PasswordInput, EmailInput, TokenInput, ResetInput,
       ForgotInput, UserInput, DeleteInput

LEMMA KindOfKinds == ASSUME NEW op PROVE KindOf(op) \in Kinds
BY DEF KindOf, Kinds

\* A request is answered when its handler returns, committed or not.
Answered(r) == \E a \in Answers : Answer(r, a)

LEMMA CommitAnswers == ASSUME NEW r, Commit(r) PROVE Answered(r)
BY DEF Commit, Answered, Answers

\* An answer leaves the types alone when the rows it commits are rows.
LEMMA AnsweredTyped ==
  ASSUME Typed, NEW r \in Requests, Answered(r), UNCHANGED <<now, in, flow>>,
         users' \subseteq UserRow, sessions' \subseteq SessionRow,
         tokens' \subseteq TokenRow, bans' \subseteq BanRow
  PROVE  Typed'
<1>1. PICK a \in Answers : Answer(r, a)
  BY DEF Answered
<1>2. TypeOK'
  BY <1>1, ConfigAssumption DEF Typed, TypeOK, Answer, NoLocals, Locals
<1>3. FilledIn'
  BY <1>1 DEF Typed, TypeOK, FilledIn, Answer
<1> QED
  BY <1>2, <1>3 DEF Typed

\* So does an answer that changes no row.
LEMMA RefusedTyped ==
  ASSUME Typed, NEW r \in Requests, Answered(r), UNCHANGED <<db, now, in, flow>>
  PROVE  Typed'
BY AnsweredTyped DEF Typed, TypeOK, db

\* A statement that reads and goes on, in a handler FilledIn does not mention.
LEMMA ProceedTyped ==
  ASSUME Typed, NEW r \in Requests, NEW s \in Statements, Goto(r, s),
         in[r].op \notin {"CreateSession", "ChangeEmailToken"},
         loc' \in [Requests -> Locals], \A q \in Requests \ {r} : loc'[q] = loc[q],
         locks' \in [Requests -> SUBSET Lockable],
         UNCHANGED <<db, now, in, flow>>
  PROVE  Typed'
<1>1. TypeOK'
  BY DEF Typed, TypeOK, Goto, db
<1>2. FilledIn'
  BY DEF Typed, TypeOK, FilledIn, Goto, db
<1> QED
  BY <1>1, <1>2 DEF Typed

LEMMA HoldTyped ==
  ASSUME Typed, NEW r \in Requests, NEW rows \in SUBSET Lockable, Hold(r, rows)
  PROVE  locks' \in [Requests -> SUBSET Lockable]
BY DEF Typed, TypeOK, Hold

\* The assignments to the variables of a handler.
LEMMA LocTyped ==
  ASSUME Typed, NEW r \in Requests
  PROVE  /\ loc \in [Requests -> Locals]
         /\ \A u \in UserIds : [loc EXCEPT ![r].user = u] \in [Requests -> Locals]
         /\ \A n \in 1 .. MaxSessions :
              [loc EXCEPT ![r].num = n] \in [Requests -> Locals]
         /\ \A c \in Cred : [loc EXCEPT ![r].cred = c] \in [Requests -> Locals]
         /\ \A u \in UserIds, e \in Emails \cup {None} :
              [loc EXCEPT ![r].user = u, ![r].email = e] \in [Requests -> Locals]
<1>1. loc[r] \in Locals
  BY DEF Typed, TypeOK
<1>2. \A u \in UserIds : [loc EXCEPT ![r].user = u] \in [Requests -> Locals]
  BY <1>1 DEF Typed, TypeOK, Locals
<1>3. ASSUME NEW n \in 1 .. MaxSessions
      PROVE  [loc EXCEPT ![r].num = n] \in [Requests -> Locals]
  <2>1. n \in 0 .. MaxSessions
    BY ConfigAssumption
  <2> QED
    BY <1>1, <2>1 DEF Typed, TypeOK, Locals
<1>4. \A c \in Cred : [loc EXCEPT ![r].cred = c] \in [Requests -> Locals]
  BY <1>1 DEF Typed, TypeOK, Locals
<1>5. ASSUME NEW u \in UserIds, NEW e \in Emails \cup {None}
      PROVE  [loc EXCEPT ![r].user = u, ![r].email = e] \in [Requests -> Locals]
  BY <1>1 DEF Typed, TypeOK, Locals
<1> QED
  BY <1>2, <1>3, <1>4, <1>5 DEF Typed, TypeOK

LEMMA LocksTyped ==
  ASSUME NEW u \in UserIds
  PROVE  /\ UserLock(u) \in Lockable
         /\ KeyLock(u) \in Lockable
         /\ BanLock(u) \in Lockable
         /\ \A k \in Kinds : TokenLock(k, u) \in Lockable
         /\ \A n \in Usernames : NameLock(n) \in Lockable
BY DEF UserLock, KeyLock, BanLock, TokenLock, NameLock, Lockable

-----------------------------------------------------------------------------
(* Arrival and authentication                                              *)

LEMMA InitTyped == Init => Typed
<1> SUFFICES ASSUME Init PROVE Typed
  OBVIOUS
<1>1. TypeOK
  BY ConfigAssumption, SeedAssumption
  DEF Init, TypeOK, NoInput, NoLocals, Locals, Answers
<1>2. FilledIn
  BY DEF Init, FilledIn, NoInput
<1> QED
  BY <1>1, <1>2 DEF Typed

LEMMA ReceiveTyped ==
  ASSUME Typed, NEW r \in Requests, Receive(r)
  PROVE  Typed'
<1>1. TypeOK'
  BY DEF NewFlow, Typed, TypeOK, Receive, Requested, Goto, db, KnownSessions, Ids, SessionIds,
         SessionRow, Statements
<1>2. FilledIn'
  BY DEF Typed, TypeOK, FilledIn, Receive, Requested, Goto
<1> QED
  BY <1>1, <1>2 DEF Typed

LEMMA AuthenticateTyped ==
  ASSUME Typed, NEW r \in Requests, Authenticate(r)
  PROVE  Typed'
<1>1. CASE Answer(r, "unauthorized") /\ UNCHANGED flow
  BY <1>1, RefusedTyped DEF Authenticate, Answered, Answers
<1>2. CASE Goto(r, "call") /\ UNCHANGED <<loc, locks>>
  <2>1. TypeOK'
    BY <1>2 DEF Typed, TypeOK, Authenticate, Goto, Statements, db, FluxSession,
                SessionRow
  <2>2. FilledIn'
    BY <1>2 DEF Typed, TypeOK, FilledIn, Authenticate, Goto
  <2> QED
    BY <2>1, <2>2 DEF Typed
<1> QED
  BY <1>1, <1>2 DEF Authenticate

-----------------------------------------------------------------------------
(* Sessions                                                                *)

LEMMA LoginReadsTyped ==
  ASSUME Typed, NEW r \in Requests,
         LoginFind(r) \/ LoginCheckBan(r) \/ LoginCount(r)
  PROVE  Typed'
<1>1. CASE Answered(r)
  BY <1>1, RefusedTyped DEF LoginFind, LoginCheckBan, LoginCount
<1>2. CASE ~Answered(r)
  <2>1. loc' \in [Requests -> Locals]
    <3>1. \A u \in users : u.id \in UserIds
      BY DEF Typed, TypeOK, UserRow
    <3>2. \/ UNCHANGED loc
          \/ \E u \in users : loc' = [loc EXCEPT ![r].user = u.id]
      BY <1>2 DEF LoginFind, LoginCheckBan, LoginCount, Answered, Answers
    <3> QED
      BY <3>1, <3>2, LocTyped
  <2>2. TypeOK'
    BY <1>2, <2>1
    DEF LoginFind, LoginCheckBan, LoginCount, Answered, Answers, Goto,
        Statements, Typed, TypeOK, db
  <2>3. FilledIn'
    BY <1>2
    DEF LoginFind, LoginCheckBan, LoginCount, Answered, Answers, Goto, Typed,
        TypeOK, FilledIn
  <2> QED
    BY <2>2, <2>3 DEF Typed
<1> QED
  BY <1>1, <1>2

LEMMA LoginLockTyped ==
  ASSUME Typed, NEW r \in Requests, LoginLock(r)
  PROVE  Typed'
<1>1. CASE Answer(r, "invalid_credentials")
  BY <1>1, RefusedTyped DEF LoginLock, Answered, Answers
<1>2. ASSUME NEW u \in users,
             loc' = [loc EXCEPT ![r].cred = [pw |-> u.pw, email |-> u.email]],
             Hold(r, {UserLock(u.id)}), Goto(r, "check_ban")
      PROVE  Typed'
  <2>1. u.id \in UserIds /\ [pw |-> u.pw, email |-> u.email] \in Cred
    BY DEF Typed, TypeOK, UserRow, Cred
  <2>2. loc' \in [Requests -> Locals]
    BY <1>2, <2>1, LocTyped
  <2>3. loc'[r].cred \in Cred
    BY <1>2, <2>1 DEF Typed, TypeOK, Locals
  <2>4. locks' \in [Requests -> SUBSET Lockable]
    BY <1>2, <2>1, HoldTyped, LocksTyped
  <2>5. TypeOK'
    BY <1>2, <2>2, <2>4 DEF LoginLock, Goto, Statements, Typed, TypeOK, db
  <2>6. FilledIn'
    BY <1>2, <2>3 DEF LoginLock, Goto, Typed, TypeOK, FilledIn
  <2> QED
    BY <2>5, <2>6 DEF Typed
<1> QED
  BY <1>1, <1>2 DEF ForNoKeyUpdate, LoginLock

LEMMA LoginNumberTyped ==
  ASSUME Typed, NEW r \in Requests, LoginNumber(r)
  PROVE  Typed'
<1>1. CASE Answer(r, "session_limit")
  BY <1>1, RefusedTyped DEF LoginNumber, Answered, Answers
<1>2. ASSUME NEW n \in 1 .. MaxSessions, loc' = [loc EXCEPT ![r].num = n],
             Goto(r, "insert"), UNCHANGED locks
      PROVE  Typed'
  <2>1. loc' \in [Requests -> Locals]
    BY <1>2, LocTyped
  <2>2. TypeOK'
    BY <1>2, <2>1 DEF LoginNumber, Goto, Statements, Typed, TypeOK, db
  <2>3. FilledIn'
    BY <1>2 DEF LoginNumber, Goto, Typed, TypeOK, FilledIn, Locals
  <2> QED
    BY <2>2, <2>3 DEF Typed
<1> QED
  BY <1>1, <1>2 DEF LoginNumber, FreeNumbers

LEMMA LoginInsertTyped ==
  ASSUME Typed, NEW r \in Requests, LoginInsert(r)
  PROVE  Typed'
<1>1. ~InsertConflicts(r) => NewSession(r) \in SessionRow
  BY ConfigAssumption
  DEF LoginInsert, Typed, TypeOK, FilledIn, InsertConflicts, NewSession,
      SessionRow, Ids, UserRow, SessionIds
<1>2. \A u \in users : [u EXCEPT !.lastLogin = flow[r].time] \in UserRow
  BY DEF Typed, TypeOK, UserRow
<1>3. users' \subseteq UserRow /\ sessions' \subseteq SessionRow
  BY <1>1, <1>2 DEF LoginInsert, Typed, TypeOK
<1> QED
  BY <1>3, AnsweredTyped, CommitAnswers
  DEF LoginInsert, Answered, Answers, Typed, TypeOK

LEMMA SessionsStepTyped ==
  ASSUME Typed, NEW r \in Requests, SessionsStep(r)
  PROVE  Typed'
<1>1. CASE RenewSession(r)
  <2>1. \A s \in sessions : Renewed(r, s) \in SessionRow
    BY ConfigAssumption DEF Typed, TypeOK, Renewed, SessionRow
  <2>2. sessions' \subseteq SessionRow /\ Answered(r)
    BY <1>1, <2>1, CommitAnswers
    DEF Panic, RenewSession, RenewedSessions, Typed, TypeOK, Answered, Answers
  <2> QED
    BY <1>1, <2>2, AnsweredTyped DEF RenewSession, Typed, TypeOK
<1>2. CASE ClearSessions(r) \/ Logout(r)
  <2>1. sessions' \subseteq sessions /\ Answered(r)
    BY <1>2, CommitAnswers
    DEF Panic, ClearSessions, Logout, ClearRows, Answered, Answers
  <2> QED
    BY <1>2, <2>1, AnsweredTyped DEF ClearSessions, Logout, Typed, TypeOK
<1> QED
  BY <1>1, <1>2, LoginReadsTyped, LoginLockTyped, LoginNumberTyped,
     LoginInsertTyped
  DEF SessionsStep, CreateSession

-----------------------------------------------------------------------------
(* Security                                                                *)

LEMMA DurationInt == ASSUME NEW n \in Int PROVE Duration(n) \in Int
BY ConfigAssumption DEF Duration, Int64

LEMMA SecurityStepTyped ==
  ASSUME Typed, NEW r \in Requests, SecurityStep(r)
  PROVE  Typed'
<1>1. CASE Answered(r) /\ UNCHANGED <<db, now, in, flow>>
  BY <1>1, RefusedTyped
<1>2. CASE BanStart(r) /\ ~Answered(r)
  <2>1. in[r].user \in UserIds
    BY <1>2, InputFields DEF BanStart, Typed, TypeOK, NoInput
  <2>2. /\ loc' = [loc EXCEPT ![r].user = in[r].user]
        /\ Goto(r, "lock_user") /\ UNCHANGED <<locks, db, now, in, flow>>
        /\ in[r].op = "BanUser"
    BY <1>2 DEF BanStart, Answered, Answers
  <2>3. loc' \in [Requests -> Locals] /\ locks' \in [Requests -> SUBSET Lockable]
    BY <2>1, <2>2, LocTyped DEF Typed, TypeOK
  <2>4. \A q \in Requests \ {r} : loc'[q] = loc[q]
    BY <2>2, LocTyped
  <2> QED
    BY <2>2, <2>3, <2>4, ProceedTyped DEF Statements
<1>3. CASE BanLockUser(r) /\ ~Answered(r)
  <2>1. loc[r].user \in UserIds
    BY <1>3 DEF BanLockUser, Answered, Answers, Ids, Typed, TypeOK, UserRow
  <2> QED
    BY <1>3, <2>1, ProceedTyped, HoldTyped, LocksTyped
    DEF ForNoKeyUpdate, BanLockUser, Answered, Answers, Statements, Typed, TypeOK
<1>4. CASE BanCheck(r) /\ ~Answered(r)
  <2>1. BanExists(r) => loc[r].user \in UserIds
    BY DEF BanExists, Typed, TypeOK, BanRow
  <2>2. (IF BanExists(r) THEN {BanLock(loc[r].user)} ELSE {}) \in SUBSET Lockable
    BY <2>1, LocksTyped
  <2> QED
    BY <1>4, <2>2, ProceedTyped, HoldTyped
    DEF BanCheck, Answered, Answers, Statements, Typed, TypeOK
<1>5. CASE BanUpsert(r)
  <2>1. in[r].duration \in Int
    BY <1>5, InputFields DEF BanUpsert, Typed, TypeOK, NoInput
  <2>2. /\ {Caller(r), loc[r].user} \subseteq Ids(users)
        /\ NewBan(r).unbannedAt >= NewBan(r).bannedAt
        => NewBan(r) \in BanRow
    BY <2>1, DurationInt DEF NewBan, BanRow, Typed, TypeOK, Ids, UserRow
  <2>3. bans' \subseteq BanRow /\ sessions' \subseteq sessions
    BY <1>5, <2>2 DEF BanUpsert, Typed, TypeOK, deleteUserSessions
  <2> QED
    BY <1>5, <2>3, AnsweredTyped, CommitAnswers
    DEF BanUpsert, Answered, Answers, Typed, TypeOK
<1>6. CASE UnbanUser(r)
  BY <1>6, AnsweredTyped, CommitAnswers
  DEF UnbanUser, Answered, Answers, Typed, TypeOK
<1>7. SecurityStep(r) => \/ BanStart(r) \/ BanLockUser(r) \/ BanCheck(r)
                         \/ BanUpsert(r) \/ UnbanUser(r)
  BY DEF SecurityStep, BanUser
<1>8. BanStart(r) \/ BanLockUser(r) \/ BanCheck(r) => UNCHANGED <<db, now, in, flow>>
  BY DEF BanStart, BanLockUser, BanCheck
<1> QED
  BY <1>1, <1>2, <1>3, <1>4, <1>5, <1>6, <1>7, <1>8

-----------------------------------------------------------------------------
(* Tokens and account administration                                       *)

LEMMA GetTokenTyped ==
  ASSUME Typed, NEW r \in Requests, GetToken(r)
  PROVE  Typed'
<1>1. CASE Answer(r, "invalid_token")
  BY <1>1, RefusedTyped DEF GetToken, Answered, Answers
<1>2. ASSUME NEW t \in tokens, Usable(r, t),
             loc' = [loc EXCEPT ![r].user = t.user, ![r].email = t.email],
             Hold(r, {TokenLock(t.kind, t.user)}), Goto(r, "lock_user")
      PROVE  Typed'
  <2>1. /\ t.user \in UserIds /\ t.kind \in Kinds
        /\ t.email \in Emails \cup {None}
    BY DEF Typed, TypeOK, TokenRow
  <2>2. loc' \in [Requests -> Locals]
    BY <1>2, <2>1, LocTyped
  <2>3. loc'[r].email = t.email
    BY <1>2 DEF Typed, TypeOK, Locals
  <2>4. locks' \in [Requests -> SUBSET Lockable]
    BY <1>2, <2>1, HoldTyped, LocksTyped
  <2>5. TypeOK'
    BY <1>2, <2>2, <2>4 DEF GetToken, Goto, Statements, Typed, TypeOK, db
  <2>6. FilledIn'
    BY <1>2, <2>1, <2>3
    DEF GetToken, ConfirmOps, Usable, Goto, Typed, TypeOK, FilledIn
  <2> QED
    BY <2>5, <2>6 DEF Typed
<1> QED
  BY <1>1, <1>2 DEF TokenForNoKeyUpdate, GetToken, Presented

\* saveToken stores a row.
LEMMA UpsertTyped ==
  ASSUME Typed, NEW r \in Requests, NEW e \in Emails \cup {None}, Upsert(r, e),
         loc[r].user \in Ids(users)
  PROVE  tokens' \subseteq TokenRow
BY KindOfKinds, ConfigAssumption
DEF Upsert, Typed, TypeOK, TokenRow, Ids, UserRow

LEMMA SaveTokenTyped ==
  ASSUME Typed, NEW r \in Requests, SaveToken(r)
  PROVE  Typed'
<1>1. in[r].op = "ChangeEmail" => in[r].email \in Emails
  BY InputFields DEF SaveToken, Typed, TypeOK, NoInput
<1>2. tokens' \subseteq TokenRow /\ Answered(r)
  BY <1>1, UpsertTyped, CommitAnswers
  DEF SaveToken, Referenced, Answered, Answers, Typed, TypeOK
<1> QED
  BY <1>2, AnsweredTyped DEF SaveToken, Typed, TypeOK

\* A statement that locks the row of the user it acts on, and goes on.
LEMMA UserLockedTyped ==
  ASSUME Typed, NEW r \in Requests, NEW s \in Statements, Goto(r, s),
         loc[r].user \in Ids(users), Hold(r, {UserLock(loc[r].user)}),
         in[r].op # "CreateSession",
         in[r].op = "ChangeEmailToken" => pc[r] = "lock_user",
         UNCHANGED <<db, now, in, flow, loc>>
  PROVE  Typed'
<1>1. loc[r].user \in UserIds
  BY DEF Typed, TypeOK, Ids, UserRow
<1>2. locks' \in [Requests -> SUBSET Lockable]
  BY <1>1, HoldTyped, LocksTyped
<1>3. TypeOK'
  BY <1>2 DEF Goto, Typed, TypeOK, db
<1>4. FilledIn'
  BY DEF Goto, Typed, TypeOK, FilledIn
<1> QED
  BY <1>3, <1>4 DEF Typed

LEMMA AdminReadsTyped ==
  ASSUME Typed, NEW r \in Requests,
         \/ OwnStart(r) \/ OwnLock(r) \/ ConfirmLock(r)
         \/ VerifyLock(r) \/ VerifyCheckToken(r) \/ ResetStart(r)
  PROVE  Typed'
<1>1. UNCHANGED <<db, now, in, flow>>
  BY DEF OwnStart, OwnLock, ConfirmLock, VerifyLock, VerifyCheckToken, ResetStart
<1>2. CASE Answered(r)
  BY <1>1, <1>2, RefusedTyped
<1>3. CASE OwnStart(r) /\ ~Answered(r)
  <2>1. /\ loc' = [loc EXCEPT ![r].user = Caller(r)] /\ HasSession(r)
        /\ Goto(r, "lock_user") /\ UNCHANGED locks
        /\ in[r].op \in {"ChangePassword", "ChangeEmail", "VerifyUser"}
    BY <1>3 DEF Panic, OwnStart, Answered, Answers
  <2>2. Caller(r) \in UserIds
    BY <2>1 DEF Caller, HasSession, Typed, TypeOK, FluxSession
  <2>3. loc' \in [Requests -> Locals] /\ \A q \in Requests \ {r} : loc'[q] = loc[q]
    BY <2>1, <2>2, LocTyped
  <2> QED
    BY <1>1, <2>1, <2>3, ProceedTyped DEF Statements, Typed, TypeOK
<1>4. CASE OwnLock(r) /\ ~Answered(r)
  <2>1. /\ in[r].op \in {"ChangePassword", "ChangeEmail"}
        /\ loc[r].user \in Ids(users) /\ Hold(r, {UserLock(loc[r].user)})
        /\ Goto(r, "write") \/ Goto(r, "save_token")
        /\ UNCHANGED loc
    BY <1>4 DEF ForNoKeyUpdate, OwnLock, Answered, Answers, Ids
  <2> QED
    BY <1>1, <2>1, UserLockedTyped DEF Statements
<1>5. CASE ConfirmLock(r) /\ ~Answered(r)
  BY <1>1, <1>5, UserLockedTyped DEF ForNoKeyUpdate, ConfirmLock, Answered, Answers, Statements
<1>6. CASE VerifyLock(r) /\ ~Answered(r)
  <2>1. /\ in[r].op = "VerifyUser"
        /\ loc[r].user \in Ids(users) /\ Hold(r, {UserLock(loc[r].user)})
        /\ Goto(r, "check_token") /\ UNCHANGED loc
    BY <1>6 DEF ForNoKeyUpdate, VerifyLock, Answered, Answers, Ids
  <2> QED
    BY <1>1, <2>1, UserLockedTyped DEF Statements
<1>7. CASE VerifyCheckToken(r) /\ ~Answered(r)
  BY <1>1, <1>7, ProceedTyped
  DEF VerifyCheckToken, Answered, Answers, Statements, Typed, TypeOK
<1>8. CASE ResetStart(r) /\ ~Answered(r)
  <2>1. PICK u \in users : /\ loc' = [loc EXCEPT ![r].user = u.id]
                           /\ Goto(r, "save_token") /\ UNCHANGED locks
    BY <1>8 DEF ResetStart, Answered, Answers
  <2>2. u.id \in UserIds
    BY DEF Typed, TypeOK, UserRow
  <2>3. loc' \in [Requests -> Locals] /\ \A q \in Requests \ {r} : loc'[q] = loc[q]
    BY <2>1, <2>2, LocTyped
  <2> QED
    BY <1>1, <1>8, <2>1, <2>3, ProceedTyped DEF ResetStart, Statements, Typed, TypeOK
<1> QED
  BY <1>2, <1>3, <1>4, <1>5, <1>6, <1>7, <1>8

LEMMA AdminStepTyped ==
  ASSUME Typed, NEW r \in Requests, AdminStep(r)
  PROVE  Typed'
<1>1. CASE PasswordWrite(r) \/ ResetWrite(r)
  <2>1. in[r].newPw \in Passwords
    BY <1>1, InputFields DEF PasswordWrite, ResetWrite, Typed, TypeOK, NoInput
  <2>2. SetPassword(r) => users' \subseteq UserRow
    <3>1. \A u \in users : [u EXCEPT !.pw = in[r].newPw] \in UserRow
      BY <2>1 DEF Typed, TypeOK, UserRow
    <3> QED
      BY <3>1 DEF SetPassword, Typed, TypeOK
  <2>3. users' \subseteq UserRow
    BY <1>1, <2>2 DEF PasswordWrite, ResetWrite, Typed, TypeOK
  <2>4. /\ sessions' \subseteq sessions /\ tokens' \subseteq tokens
        /\ UNCHANGED <<bans, now, in, flow>>
    BY <1>1 DEF PasswordWrite, ResetWrite, deleteUserSessions, WithoutToken
  <2>5. Answered(r)
    BY <1>1, CommitAnswers DEF PasswordWrite, ResetWrite, Answered, Answers
  <2> QED
    BY <2>3, <2>4, <2>5, AnsweredTyped DEF Typed, TypeOK
<1>2. CASE EmailWrite(r)
  <2>1. loc[r].email \in Emails
    BY <1>2 DEF EmailWrite, Typed, FilledIn
  <2>2. Readdressed(r) \subseteq UserRow
    <3>1. \A u \in users : [u EXCEPT !.email = loc[r].email] \in UserRow
      BY <2>1 DEF Typed, TypeOK, UserRow
    <3> QED
      BY <3>1 DEF Readdressed, Typed, TypeOK
  <2>3. sessions' \subseteq sessions /\ tokens' \subseteq tokens
    BY <1>2 DEF EmailWrite, deleteUserSessions, WithoutToken
  <2> QED
    BY <1>2, <2>2, <2>3, AnsweredTyped, CommitAnswers DEF EmailWrite, Typed, TypeOK
<1>3. CASE VerifyWrite(r)
  <2>1. users' \subseteq UserRow /\ tokens' \subseteq tokens
    BY <1>3 DEF VerifyWrite, WithoutToken, Typed, TypeOK, UserRow
  <2> QED
    BY <1>3, <2>1, AnsweredTyped, CommitAnswers DEF VerifyWrite, Typed, TypeOK
<1> QED
  BY <1>1, <1>2, <1>3, GetTokenTyped, SaveTokenTyped, AdminReadsTyped
  DEF AdminStep

-----------------------------------------------------------------------------
(* Users                                                                   *)

\* The row a deletion locks next.
LEMMA NextRowTyped ==
  ASSUME Typed, NEW r \in Requests, NEW done, NextRow(r, done),
         in[r].op \in {"DeleteUsers", "deleteMyUser"},
         locks' \in [Requests -> SUBSET Lockable], UNCHANGED <<db, now, in, flow>>
  PROVE  Typed'
<1>1. \A u \in Remaining(r, done) : u \in UserIds
  BY DEF Remaining, Ids, Typed, TypeOK, UserRow
<1>2. loc' \in [Requests -> Locals] /\ \A q \in Requests \ {r} : loc'[q] = loc[q]
  BY <1>1, LocTyped DEF NextRow
<1>3. Goto(r, "cascade") \/ Goto(r, "lock_rows")
  BY DEF NextRow
<1> QED
  BY <1>2, <1>3, ProceedTyped DEF Statements

LEMMA UsersStepTyped ==
  ASSUME Typed, NEW r \in Requests, UsersStep(r)
  PROVE  Typed'
<1>1. CASE UserStart(r)
  BY <1>1, RefusedTyped, ProceedTyped
  DEF UserStart, Answered, Answers, Statements, Typed, TypeOK
<1>2. CASE UserInsert(r) /\ ~Answered(r)
  <2>1. /\ loc' = [loc EXCEPT ![r].user = Caller(r)] /\ HasSession(r)
        /\ Goto(r, "save_token") /\ Hold(r, {NameLock(in[r].username)})
        /\ in[r].op = "CreateUser" /\ UNCHANGED <<db, now, in, flow>>
    BY <1>2 DEF UserInsert, EntryOf, Answered, Answers
  <2>2. Caller(r) \in UserIds /\ in[r].username \in Usernames
    BY <2>1, InputFields
    DEF Caller, HasSession, Typed, TypeOK, FluxSession, NoInput
  <2>3. loc' \in [Requests -> Locals] /\ \A q \in Requests \ {r} : loc'[q] = loc[q]
    BY <2>1, <2>2, LocTyped
  <2>4. locks' \in [Requests -> SUBSET Lockable]
    BY <2>1, <2>2, HoldTyped, LocksTyped
  <2> QED
    BY <2>1, <2>3, <2>4, ProceedTyped DEF Statements
<1>3. CASE UserInsert(r) /\ Answered(r)
  BY <1>3, RefusedTyped DEF UserInsert
<1>4. CASE UserSaveToken(r)
  <2>1. NewUser(r) \in UserRow
    BY <1>4, InputFields
    DEF UserSaveToken, NewUser, UserRow, UserIds, Typed, TypeOK, NoInput
  <2>2. users' \subseteq UserRow /\ tokens' \subseteq TokenRow /\ Answered(r)
    BY <1>4, <2>1, UpsertTyped, CommitAnswers
    DEF UserSaveToken, Referenced, Answered, Answers, Typed, TypeOK
  <2> QED
    BY <1>4, <2>2, AnsweredTyped DEF UserSaveToken, Typed, TypeOK
<1>5. CASE DeleteStart(r)
  BY <1>5, RefusedTyped, NextRowTyped
  DEF Panic, DeleteStart, Answered, Answers, Typed, TypeOK
<1>6. CASE DeleteLockRow(r)
  <2> DEFINE row == {UserLock(loc[r].user), KeyLock(loc[r].user)}
             got == IF loc[r].user \in Ids(users) THEN row ELSE {}
  <2>1. loc[r].user \in Ids(users) => loc[r].user \in UserIds
    BY DEF Ids, Typed, TypeOK, UserRow
  <2>2. got \in SUBSET Lockable
    BY <2>1, LocksTyped
  <2>3. Hold(r, got) /\ NextRow(r, locks[r] \cup got)
    BY <1>6 DEF DeleteLockRow
  <2> QED
    BY <1>6, <2>2, <2>3, HoldTyped, NextRowTyped DEF DeleteLockRow
<1>7. CASE DeleteCascade(r)
  <2>1. /\ users' \subseteq users /\ sessions' \subseteq sessions
        /\ tokens' \subseteq tokens
    BY <1>7 DEF DeleteCascade, Survive
  <2>2. bans' \subseteq BanRow
    BY <1>7 DEF DeleteCascade, BannerGone, Survive, BanRow, Typed, TypeOK
  <2> QED
    BY <1>7, <2>1, <2>2, AnsweredTyped, CommitAnswers
    DEF DeleteCascade, Typed, TypeOK
<1> QED
  BY <1>1, <1>2, <1>3, <1>4, <1>5, <1>6, <1>7 DEF UsersStep

-----------------------------------------------------------------------------
(* The specification                                                       *)

LEMMA RollbackTyped ==
  ASSUME Typed, NEW r \in Requests, Rollback(r)
  PROVE  Typed'
BY RefusedTyped DEF Rollback, Answered, Answers

LEMMA NextTyped == Typed /\ [Next]_vars => Typed'
<1> SUFFICES ASSUME Typed, [Next]_vars PROVE Typed'
  OBVIOUS
<1>1. CASE \E r \in Requests : Receive(r)
  BY <1>1, ReceiveTyped
<1>2. CASE \E r \in Requests : Step(r)
  BY <1>2, AuthenticateTyped, SessionsStepTyped, SecurityStepTyped,
     AdminStepTyped, UsersStepTyped
  DEF Step
<1>3. CASE (\E r \in Requests : Abort(r)) \/ DeadlockVictim \/ StatementDeadlock
  BY <1>3, RollbackTyped DEF Abort, DeadlockVictim, StatementDeadlock
<1>4. CASE Tick
  BY <1>4 DEF Tick, db, Typed, TypeOK, FilledIn
<1>5. CASE UNCHANGED vars
  BY <1>5 DEF vars, db, Typed, TypeOK, FilledIn
<1> QED
  BY <1>1, <1>2, <1>3, <1>4, <1>5 DEF Next, Idle

\* Every reachable state is typed: the rows, the locks and what a handler
\* keeps between two statements.
THEOREM Typing == Spec => []Typed
BY InitTyped, NextTyped, PTL DEF Spec

\* No statement of any handler stores a row of another shape: a session has a
\* number between 1 and MaxSessions, a ban times that are not negative, a user
\* an address even when it came out of a token.
THEOREM TypeCorrect == Spec => []TypeOK
BY Typing, PTL DEF Typed
=============================================================================
