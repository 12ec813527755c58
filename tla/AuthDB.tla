------------------------------- MODULE AuthDB -------------------------------
(***************************************************************************)
(* The tables of the auth schema (db/auth.sql), the row locks PostgreSQL   *)
(* takes for the statements of package auth, and what every request has in *)
(* common: arrival (flow.init), authentication, the answer.                *)
(*                                                                         *)
(* Every request runs in a goroutine of its own, so requests interleave    *)
(* between any two statements.  A transaction runs at READ COMMITTED: each *)
(* statement reads what is committed when it runs.  Its writes are seen by *)
(* nobody before the commit, so a transaction's last writes and its commit *)
(* are one step; the locks of its earlier statements are in `locks`.       *)
(***************************************************************************)
EXTENDS Integers, FiniteSets

CONSTANTS
  Requests,        \* the requests that may arrive; also the ids they mint
  SeedUsers,       \* the rows of auth.users before the first request
  SeedSessions,    \* the rows of auth.sessions before the first request
  Usernames, Emails, Passwords,
  LongPasswords,   \* those bcrypt refuses to hash (more than 72 bytes)
  None,            \* nil, NULL or an empty string
  MaxSessions,     \* maxSessionsPerUser
  SessionDuration, \* cfg.SessionTokenDuration
  TokenDuration,   \* the lifetime of a token of each kind
  WaitTime,        \* cfg.VerificationTokenWaitTime
  BanDurations,    \* the durations a ban may ask for; negative is permanent
  Second,          \* time.Second in units of the clock
  DurationLimit,   \* 2^63: a time.Duration is an int64
  MaxTime,         \* bound: the clock stops here
  Ops,             \* bound: Ops[r], the operations request r may call
  Faulty           \* bound: the requests whose statements may fail

Kinds == {"verify_user", "reset_password", "change_email"}
Accounts == {u.id : u \in SeedUsers}
UserIds == Accounts \cup Requests  \* CreateUser r makes the user with id r
SessionIds == {s.id : s \in SeedSessions} \cup Requests

Cred == [pw: Passwords, email: Emails]

UserRow == [id: UserIds, username: Usernames, email: Emails, pw: Passwords,
            verified: BOOLEAN, lastLogin: Int]

\* `id` is both the id and the token.  `cred` is a history variable: the
\* password and e-mail address of the user when the session was opened.
SessionRow == [id: SessionIds, user: UserIds, num: 1 .. MaxSessions,
               created: Nat, expires: Nat, cred: Cred]

\* `email` is the new_email entry of meta.
TokenRow == [id: Requests, user: UserIds, kind: Kinds, created: Nat,
             expires: Nat, email: Emails \cup {None}]

\* `by` is banned_by.
BanRow == [user: UserIds, by: UserIds \cup {None}, bannedAt: Nat,
           unbannedAt: Nat]

\* What can be locked: a row of users for SELECT ... FOR NO KEY UPDATE or
\* UPDATE; its key too, by DELETE, which is what a foreign key check waits
\* for; a row of tokens, by its kind and user; a row of bans; an entry of the
\* unique index on username.  Rows of sessions are only locked by the last
\* statement of a transaction, so `locks` never holds one.
UserLock(u) == <<"users", u>>
KeyLock(u) == <<"key", u>>
TokenLock(kind, u) == <<kind, u>>
BanLock(u) == <<"bans", u>>
SessionLock(s) == <<"sessions", s>>
NameLock(n) == <<"username", n>>
Lockable == (Kinds \cup {"users", "key", "bans"}) \X UserIds
            \cup {"username"} \X Usernames

\* The inputs, by operation.  Where a handler has a branch for a token and
\* one without, the branch for a token is an operation of its own.
LoginInput == [op: {"CreateSession"}, username: Usernames, pw: Passwords]
BareInput == [op: {"RenewSession", "VerifyUser", "deleteMyUser"}]
ClearInput == [op: {"ClearSessions"}, ids: (SUBSET SessionIds) \cup {None},
               user: UserIds \cup {None}]
LogoutInput == [op: {"logout"}, ids: (SUBSET SessionIds) \cup {None}]
BanInput == [op: {"BanUser"}, user: UserIds, duration: BanDurations,
             replace: BOOLEAN]
UnbanInput == [op: {"UnbanUser"}, user: UserIds]
PasswordInput == [op: {"ChangePassword"}, pw: Passwords, newPw: Passwords]
EmailInput == [op: {"ChangeEmail"}, email: Emails, pw: Passwords]
TokenInput == [op: {"ChangeEmailToken", "VerifyUserToken"}, token: Requests]
ResetInput == [op: {"ResetPasswordToken"}, token: Requests, newPw: Passwords]
ForgotInput == [op: {"ResetPassword"}, username: Usernames]
UserInput == [op: {"CreateUser"}, username: Usernames, email: Emails,
              pw: Passwords]
DeleteInput == [op: {"DeleteUsers"}, ids: SUBSET UserIds]
NoInput == [op |-> "none"]
Input == UNION {LoginInput, BareInput, ClearInput, LogoutInput, BanInput,
                UnbanInput, PasswordInput, EmailInput, TokenInput, ResetInput,
                ForgotInput, UserInput, DeleteInput}

\* Bound: what request r may ask for.
Requested == [r \in Requests |-> {i \in Input : i.op \in Ops[r]}]

ASSUME ConfigAssumption ==
  /\ MaxSessions \in 1 .. 10
  /\ SessionDuration \in Nat \ {0}
  /\ TokenDuration \in [Kinds -> Nat \ {0}]
  /\ WaitTime \in Nat
  /\ MaxTime \in Nat
  /\ Second \in Nat \ {0} /\ DurationLimit \in Nat \ {0}
  /\ BanDurations \subseteq -DurationLimit .. DurationLimit - 1
  /\ LongPasswords \subseteq Passwords

ASSUME SeedAssumption ==
  /\ SeedUsers \subseteq UserRow
  /\ Accounts \cap Requests = {}
  /\ \A u, v \in SeedUsers :
       u.id = v.id \/ u.username = v.username => u = v
  /\ SeedSessions \subseteq SessionRow
  /\ \A s \in SeedSessions :
       /\ s.id \notin Requests
       /\ s.created = 0 /\ s.expires \in 0 .. SessionDuration
       /\ \E u \in SeedUsers :
            u.id = s.user /\ s.cred = [pw |-> u.pw, email |-> u.email]

VARIABLES
  users, sessions, tokens, bans,  \* the committed rows
  now,    \* the server's clock
  in,     \* in[r]: what r asks for
  flow,   \* flow[r]: flux.Flow, the time r arrived, its bearer, its session
  pc,     \* pc[r]: the statement r runs next
  loc,    \* loc[r]: the local variables of r's handler
  locks,  \* locks[r]: the locks r's transaction holds
  resp    \* resp[r]: the answer

db == <<users, sessions, tokens, bans>>
vars == <<db, now, in, flow, pc, loc, locks, resp>>

Answers == {"none", "ok", "validation", "unauthorized", "not_found", "exists",
            "internal", "invalid_credentials", "invalid_password",
            "invalid_token", "user_banned", "user_verified", "session_limit",
            "try_later"}
Statements == {"call", "find", "lock_user", "check_ban", "count", "number",
               "insert", "upsert_ban", "write", "check_token", "save_token",
               "insert_user", "lock_rows", "cascade"}

FluxSession == [id: SessionIds, user: UserIds]
ASSUME NilAssumption == None \notin FluxSession  \* nil is no session
Locals == [user: UserIds \cup {None}, num: 0 .. MaxSessions,
           cred: Cred \cup {None}, email: Emails \cup {None}]
NoLocals == [user |-> None, num |-> 0, cred |-> None, email |-> None]

-----------------------------------------------------------------------------
Ids(rows) == {row.id : row \in rows}
SessionsOf(u) == {s \in sessions : s.user = u}
Caller(r) == flow[r].session.user
HasSession(r) == flow[r].session # None
HaveToken(kind) == {t.user : t \in {x \in tokens : x.kind = kind}}
ActiveBan(b, t) == b.unbannedAt > t \/ b.bannedAt = b.unbannedAt

Goto(r, statement) == pc' = [pc EXCEPT ![r] = statement] /\ UNCHANGED resp

\* Mutant: the SELECT without FOR NO KEY UPDATE.
ForNothing(u) == {}
\* Mutant: FOR UPDATE, which foreign key checks wait for.
ForUpdate(u) == {UserLock(u), KeyLock(u)}
\* What SELECT ... FROM auth.users WHERE id = u FOR NO KEY UPDATE locks.
ForNoKeyUpdate(u) == {UserLock(u)}
Hold(r, rows) == locks' = [locks EXCEPT ![r] = @ \cup rows]

\* Mutant: no deferred Rollback, and the transaction stays open.
AnswerInTransaction(r, a) ==
  /\ pc' = [pc EXCEPT ![r] = "done"]
  /\ resp' = [resp EXCEPT ![r] = a]
  /\ loc' = [loc EXCEPT ![r] = NoLocals]
  /\ UNCHANGED locks
\* The handler returns: the deferred Rollback finds the transaction done or
\* ends it, either way its locks go, and the client gets the answer.
Answer(r, a) ==
  /\ pc' = [pc EXCEPT ![r] = "done"]
  /\ resp' = [resp EXCEPT ![r] = a]
  /\ locks' = [locks EXCEPT ![r] = {}]
  /\ loc' = [loc EXCEPT ![r] = NoLocals]

\* A handler that dereferences a nil f.Session: the router recovers, the
\* deferred Rollback runs all the same.
Panic(r) == Answer(r, "internal")

\* The last statement is applied.  When its acknowledgement is lost, pgx
\* returns an error and the client gets a 500 for what was done.
Commit(r) == Answer(r, "ok") \/ (r \in Faulty /\ Answer(r, "internal"))

-----------------------------------------------------------------------------
\* The kind of token an operation makes or redeems.
KindOf(op) ==
  CASE op \in {"ChangeEmail", "ChangeEmailToken"} -> "change_email"
    [] op \in {"VerifyUser", "VerifyUserToken", "CreateUser"} -> "verify_user"
    [] OTHER -> "reset_password"
ConfirmOps == {"ChangeEmailToken", "VerifyUserToken", "ResetPasswordToken"}
RequestOps == {"ChangeEmail", "VerifyUser", "ResetPassword", "CreateUser"}

\* Mutant: without the condition on kind.
PresentedOfAnyKind(r) ==
  {t \in tokens : t.id = in[r].token /\ t.expires > flow[r].time}
\* The row getToken selects: the token with this id and kind, not expired
\* when the request arrived.
Presented(r) ==
  {t \in tokens : t.id = in[r].token /\ t.kind = KindOf(in[r].op)
                  /\ t.expires > flow[r].time}

\* The users r's DELETE has locked, and what ON DELETE CASCADE and ON DELETE
\* SET NULL then write.
Deleted(r) == {u \in UserIds : UserLock(u) \in locks[r]}
CascadeRows(r) ==
  {TokenLock(t.kind, t.user) : t \in {x \in tokens : x.user \in Deleted(r)}}
  \cup {BanLock(b.user) :
          b \in {x \in bans : {x.user, x.by} \cap Deleted(r) # {}}}
  \cup {SessionLock(s) : s \in {x \in sessions : x.user \in Deleted(r)}}

\* The sessions that DELETE FROM auth.sessions finds with the filters given.
Matching(ids, user) ==
  {s \in sessions : /\ ids # None => s.id \in ids
                    /\ user # None => s.user = user}
ClearsOf(r) == IF in[r].op = "ClearSessions" THEN in[r].user ELSE Caller(r)
Clears(r) ==
  /\ in[r].op \in {"ClearSessions", "logout"}
  /\ in[r].op = "logout" => HasSession(r)
  /\ in[r].ids # None \/ ClearsOf(r) # None

\* The rows r's last statements lock one after the other, in an order that the
\* database chooses.
Rows(r) ==
  CASE pc[r] \in {"write", "upsert_ban"} ->
         {SessionLock(s) : s \in SessionsOf(loc[r].user)}
    [] pc[r] = "call" /\ Clears(r) ->
         {SessionLock(s) : s \in Matching(in[r].ids, ClearsOf(r))}
    [] pc[r] = "cascade" -> CascadeRows(r)
    [] OTHER -> {}

\* The locks r's next statement must get before any of those.
First(r) ==
  CASE pc[r] = "lock_user" -> {UserLock(loc[r].user)}
    [] pc[r] = "call" /\ in[r].op \in ConfirmOps ->
         {TokenLock(t.kind, t.user) : t \in Presented(r)}
    [] pc[r] = "call" /\ in[r].op = "UnbanUser" -> {BanLock(in[r].user)}
    [] pc[r] = "save_token" ->
         {TokenLock(KindOf(in[r].op), loc[r].user)}
         \cup {KeyLock(u) : u \in {loc[r].user} \ HaveToken(KindOf(in[r].op))}
    [] pc[r] = "check_ban" /\ in[r].op = "BanUser" -> {BanLock(loc[r].user)}
    [] pc[r] = "upsert_ban" /\ HasSession(r) ->
         {BanLock(loc[r].user), KeyLock(Caller(r))}
    [] pc[r] = "insert_user" ->
         {NameLock(in[r].username)}
         \cup {KeyLock(u.id) : u \in {v \in users : v.username = in[r].username}}
    [] pc[r] = "lock_rows" -> {UserLock(loc[r].user), KeyLock(loc[r].user)}
    [] OTHER -> {}

Wants(r) == First(r) \cup Rows(r)

Waits(r, q) == q # r /\ Wants(r) \cap locks[q] # {}
Granted(r) == \A q \in Requests : ~Waits(r, q)

\* Statements caught half way: got[p] is a lock that p's have taken and others
\* want, while p still needs some of its rows; None if there is none.  (A key
\* share counts as the whole key here.)
NoRow == [p \in Requests |-> None]
Partly(p) ==
  IF Rows(p) = {}
    THEN {}
    ELSE {l \in Wants(p) : \E q \in Requests \ {p} : l \in Wants(q)}
HalfWay ==
  {got \in [Requests -> {None} \cup UNION {Partly(p) : p \in Requests}] :
     \A p \in Requests : got[p] # None =>
       /\ got[p] \in Partly(p)
       /\ \A q \in Requests \ {p} :
            (First(p) \cup {got[p]}) \cap (locks[q] \cup {got[q]}) = {}}

Has(q, got) == locks[q] \cup ({got[q]} \ {None})
Lacks(p, got) == IF got[p] = None THEN Wants(p) ELSE Rows(p) \ {got[p]}
WaitsFor(p, q, got) == q # p /\ Lacks(p, got) \cap Has(q, got) # {}

\* r waits, and is on a circle of waits: a smallest set in which everyone
\* waits for one of the others.
AllWait(S, got) == \A p \in S : \E q \in S : WaitsFor(p, q, got)
OnCircle(r, got) ==
  /\ \E q \in Requests : WaitsFor(r, q, got)
  /\ \E S \in SUBSET Requests :
       /\ r \in S /\ AllWait(S, got)
       /\ \A T \in (SUBSET S) \ {S, {}} : ~AllWait(T, got)

-----------------------------------------------------------------------------
Init ==
  /\ users = SeedUsers
  /\ sessions = SeedSessions /\ tokens = {} /\ bans = {}
  /\ now = 0
  /\ in = [r \in Requests |-> NoInput]
  /\ flow = [r \in Requests |->
               [time |-> 0, bearer |-> None, session |-> None]]
  /\ pc = [r \in Requests |-> "new"]
  /\ loc = [r \in Requests |-> NoLocals]
  /\ locks = [r \in Requests |-> {}]
  /\ resp = [r \in Requests |-> "none"]

\* What a client can name: sessions and tokens there are or that it was told
\* of, users there are or were at the start.
KnownSessions ==
  Ids(sessions \cup SeedSessions) \cup
  {q \in Requests : in[q].op = "CreateSession" /\ resp[q] = "ok"}
KnownTokens ==
  Ids(tokens) \cup {q \in Requests : in[q].op \in RequestOps /\ resp[q] = "ok"}
KnownUsers == Accounts \cup Ids(users)

Presentable(i) ==
  /\ i \in LogoutInput \cup ClearInput /\ i.ids # None =>
       i.ids \subseteq KnownSessions
  /\ i \in ClearInput => i.user \in KnownUsers \cup {None}
  /\ i \in BanInput \cup UnbanInput => i.user \in KnownUsers
  /\ i \in TokenInput \cup ResetInput => i.token \in KnownTokens
  /\ i \in DeleteInput => i.ids \subseteq KnownUsers

\* Flow.init, in a Flow that another request may have used.
NewFlow(b) == [time |-> now, bearer |-> b, session |-> None]

\* ServeHTTP takes a Flow from the pool and init stamps it; the request goes
\* to the authenticator if it has a bearer token, else to its handler.
Receive(r) ==
  /\ pc[r] = "new"
  /\ \E i \in {j \in Requested[r] : Presentable(j)},
        b \in KnownSessions \cup {None} :
       /\ in' = [in EXCEPT ![r] = i]
       /\ flow' = [flow EXCEPT ![r] = NewFlow(b)]
       /\ Goto(r, IF b = None THEN "call" ELSE "authn")
  /\ UNCHANGED <<db, now, loc, locks>>

\* The authenticator's query, and ServeHTTP's answer when it finds nothing.
Authenticate(r) ==
  /\ pc[r] = "authn"
  /\ \/ \E s \in sessions :
          /\ s.id = flow[r].bearer
          /\ s.expires > flow[r].time
          /\ flow' = [flow EXCEPT ![r].session = [id |-> s.id, user |-> s.user]]
          /\ Goto(r, "call")
          /\ UNCHANGED <<loc, locks>>
     \/ /\ \A s \in sessions :
             s.id = flow[r].bearer => s.expires <= flow[r].time
        /\ Answer(r, "unauthorized")
        /\ UNCHANGED flow
  /\ UNCHANGED <<db, now, in>>

\* A query fails, or the client goes away and the context is cancelled: the
\* handler returns an error.
Rollback(r) ==
  /\ pc[r] \notin {"new", "done"}
  /\ Answer(r, "internal")
  /\ UNCHANGED <<db, now, in, flow>>

Abort(r) == r \in Faulty /\ Rollback(r)

\* The database ends one of the transactions that wait for each other.
DeadlockVictim == \E r \in Requests : OnCircle(r, NoRow) /\ Rollback(r)

\* So it does when some have got half way through their last statements.
StatementDeadlock ==
  \E got \in HalfWay \ {NoRow}, r \in Requests :
    OnCircle(r, got) /\ Rollback(r)

Tick ==
  /\ now < MaxTime
  /\ now' = now + 1
  /\ UNCHANGED <<db, in, flow, pc, loc, locks, resp>>

\* Every request that arrived has been answered and the clock has reached its
\* bound: the server waits for clients.
Idle ==
  /\ now = MaxTime
  /\ \A r \in Requests : pc[r] \in {"new", "done"}
  /\ UNCHANGED vars
=============================================================================
