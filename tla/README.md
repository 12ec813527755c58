# glut in TLA+

glut is an account service: users log in, get sessions, are banned, change their
password or e-mail address, and confirm what they asked for with tokens. It is a
Go HTTP server over PostgreSQL. Every request runs in a goroutine of its own, all
state lives in the tables of the `auth` schema, and what keeps the requests apart
is a handful of `SELECT ... FOR NO KEY UPDATE`, unique constraints and foreign keys
at isolation level READ COMMITTED. The order in which statements of different
requests meet is what no test of the repository exercises (`db/auth.test.sql` only
fills tables), and it is what this project is about.

Contents:

1. [Inventory](#inventory)
2. [Modules](#modules)
3. [How the model corresponds to the code](#how-the-model-corresponds-to-the-code)
4. [Runs, bounds, fairness](#runs)
5. [Proofs](#proofs)
6. [Findings](#findings)
7. [What is not modelled](#what-is-not-modelled)
8. [Plan](#plan)

## Inventory

| Component | Source | State it keeps | Operations | Talks to |
|---|---|---|---|---|
| Auth schema | `db/auth.sql` | tables `users`, `sessions`, `tokens`, `bans`, `roles`, `permissions` and two link tables; unique keys, foreign keys with cascades, CHECKs | - | every other part, by statements |
| Sessions | `auth/session.go`, `auth/api/session.go`, `auth/api/me.go` | rows of `sessions`; last login in `users` | CreateSession (log in), RenewSession, ClearSessions, logout, Sessions (read) | `bans` (a banned user cannot log in), `users` (password, lock) |
| Authenticator | `auth/authn.go`, `common/flux/auth.go` | `Flow.Session` | one query by bearer token | `sessions`, before every handler |
| Security | `auth/security.go`, `auth/api/security.go` | rows of `bans` | BanUser, UnbanUser, Bans (read) | deletes sessions; locks `users` |
| Tokens | `auth/token.go` | rows of `tokens`, one per user and kind | getToken, saveToken, deleteToken | called by Admin and Users in their transactions |
| Account administration | `auth/admin.go`, `auth/password.go`, `auth/api/admin.go` | password, address, `verified_at` in `users` | ChangePassword; ChangeEmail, VerifyUser, ResetPassword, each with a token (confirm) and without (ask for one); ForgotUsername (read) | tokens; deletes sessions |
| Users | `auth/user.go`, `auth/api/user.go`, `auth/api/me.go` | rows of `users` | CreateUser, DeleteUsers, deleteMyUser, Users (read) | makes a token; deletion cascades to sessions, tokens, bans |
| Roles, permissions | `auth/role.go`, `auth/permission.go`, `auth/api/rbac.go` | rows of `roles`; `permissions` is only read | CreateRole, UpdateRole, DeleteRole, reads | `users` (created_by, updated_by; deletion sets them NULL) |
| Auth service | `auth/service.go`, `auth/errors.go`, `auth/api/api.go`, `auth/api/errors.go` | configuration | wiring; errors to statuses | all of the above |
| Request pipeline | `common/flux/flux.go`, `flow.go`, `errors.go`, `router.go` | a pool of Flows; per request the time of arrival, session, answer | ServeHTTP: init, authenticate, handle, answer; recover from panics | handlers |
| Server lifecycle | `common/flux/server.go`, `cmd/glut/main.go` | the HTTP server, the signal | Start, Stop, run | pipeline, pool |
| Database pool | `common/postgres/postgres.go` | at most 10 connections | acquire for a transaction or a statement | every operation |
| Client address | `common/flux/ip.go` | - | a walk over `X-Forwarded-For` | Flow.IP |
| Query building | `common/sqlutil/*` | - | SQL text, sort orders, limits | reads |
| Validation, logging | `common/valid/*`, `common/log`, `common/flux/log.go`, `headers.go` | - | formats | everyone |

### How they interact

The router hands a request to a `Flux`, which takes a `Flow` from a pool and stamps
it with the time (`Flow.init`). If it carries a bearer token, the authenticator looks
it up; a token that finds no live session is a 401. Then the handler runs an
operation of `auth.Service`. An operation that writes more than one row opens a
transaction with a deferred `Rollback`; others are one statement, or (CreateUser's
first check, the roles) one statement before and outside the transaction. Operations
meet in the tables only: there is no cache, no queue and no lock in memory.

### What is hard, and what makes each part correct

* *Interleaving.* Whatever an operation has read and not locked may be stale when it
  writes. A login reads password, ban, count of sessions and a free number, and
  inserts last; a password change, a ban or another login may run between any two of
  these. Correct means: no session with a credential that was changed
  (`SessionsMatchCredentials`), no session of a banned user
  (`BannedUsersHaveNoSession`), no insert that trips over a constraint
  (`InsertNeverConflicts`).
* *Stale time.* Everything computes with `f.Time`, the time of arrival, and may wait
  for locks long after: lifetimes and bans must be right all the same
  (`SessionLifetimeBounded`, `ActiveBanKept`). Only the verification wait reads the
  clock again. Times are 64 bits wide, and a ban may ask for more than they hold: it must
  last as asked or wrap to what the table accepts (`LastsAsAsked` in `RequestsAreAtomic`).
* *Atomicity.* Several statements, some outside the transaction, must look to clients like one
  step at one moment (`RequestsAreAtomic`). Roles are written without a transaction
  (`RoleNamesUnique`, `UpdatesStay`, `AuthorsResolve`).
* *Stale session.* `Flow.Session` is read once; it may be revoked before the handler
  uses it (`RevokedStaysRevoked`).
* *Lock order.* A confirmation locks its token, then the user. A request for a token
  locks the user, then upserts the token. DeleteUsers locks users in an order that
  nothing fixes, then its cascade writes their tokens, sessions and bans, and the bans they
  imposed on others (`banned_by` becomes NULL). A DELETE of several sessions locks them in an
  order nothing fixes either. These wait in circles; PostgreSQL ends one of them and its
  client gets a 500 (`EveryRequestAnswered`). Logins, bans and password changes must
  not (`NeverDeadlocked`).
* *Once only.* A token must work once, for what it was made for, for the user it was
  made for (`TokenRedeemedOnce`, `TokensServeTheirKind`, `EmailsWereAskedFor`), and
  must not be replaced or deleted under a confirmation's feet
  (`ConfirmationKeepsToken`, `ConfirmationFindsUser`).
* *Deletion.* A token saved, a session opened or a ban stored beside a deletion of its
  user must not be left behind, and a ban outlives whoever imposed it, without naming them
  (`ReferencesResolve`, `ActiveBanKept`).
* *Shared resources.* Requests share a pool of Flows that are stamped and used again
  (`OwnSession`, `LogsOwnStatus`) and ten connections (`EveryoneServed`).
* *Shutdown.* A signal stops the server while requests run, some of which the database may keep
  waiting: those that can finish must (`StopsGracefully`), and the program must end
  (`EndsOnSignal`).
* *Reading while others write.* A client pages through a table that changes
  (`PagingMissesNobody`, `PagingEnds`); the caller may be deleted between
  authentication and query (`CallersNeverPanic`); filters compare with the time of arrival (`OwnSessionListed`).
* *Failure.* A statement may fail, the client may go away, or the acknowledgement of a
  commit may be lost: the client gets a 500 for something that was done.

The full list, each hazard at its line, is under `hazards` in `PROJECT.json`.

## Modules

Each module EXTENDS the one it builds on; a module has the actions of one source file.
There are four systems, kept apart because each is a different abstraction of the same program:
`AuthService` (accounts, statement by statement), `Roles` (one table, down to the waits inside a
statement), `Lifecycle` (HTTP requests, Flows and connections, where a handler is only how
often it asks the database), and `Listing` (queries of one moment, clients that send many).

| Module | Models | Extends |
|---|---|---|
| `AuthDB` | tables, row locks, deadlock detection, arrival, authentication, answers, failures | Integers, FiniteSets |
| `Sessions` | `session.go` | AuthDB |
| `Security` | `security.go` | Sessions |
| `Tokens` | `token.go` | AuthDB |
| `Admin` | `admin.go`, `password.go` | Sessions, Tokens |
| `Users` | `user.go`, `deleteMyUser` | Tokens |
| `AuthService` | the composition, `Spec`, `FairSpec`, all properties | all of the above |
| `MCAuthService` + its `.cfg`s | the instances | AuthRefinement |
| `Accounts` | what the auth service promises: every request one atomic step on the tables, no statements and no locks | Integers |
| `AuthRefinement` | `AuthService` implements `Accounts` (`INSTANCE Accounts WITH ...`, tables mapped to themselves, statements and locks hidden) | AuthService |
| `Roles`, `MCRoles` | `role.go`, `rbac.go`; deletion of users as far as roles notice | Integers, FiniteSets |
| `Flux` | `router.go`, `flux.go`, `flow.go`, `errors.go`, the pool of connections | Integers, FiniteSets |
| `Lifecycle`, `MCLifecycle` | `server.go` and `run` of `main.go`, over the requests of `Flux` | Flux |
| `Listing`, `MCListing` | the queries Users, Sessions, Bans, Roles, Permissions and the handlers that list | Integers, FiniteSets, FiniteSetsExt |
| `AuthTypeProofs` | `TypeOK` and typing of every action | AuthService, TLAPS |
| `AuthLockProofs` | who holds which lock, and until when; who can wait for whom | AuthTypeProofs |
| `AuthSessionProofs` | sessions, credentials, references and bans | AuthLockProofs |
| `AuthTokenProofs` | tokens, confirmations, addresses | AuthSessionProofs |
| `AuthRefinementProofs` | every step of AuthService is one of Accounts | AuthRefinement, AuthTokenProofs |
| `RoleProofs` | types, names, authors and updates of roles | Roles, TLAPS |
| `LifecycleProofs` | Flows, sessions, logged statuses, the graceful stop | Lifecycle, TLAPS |
| `ListingProofs` | pages, what a client has passed, one's own sessions | Listing, TLAPS |

## How the model corresponds to the code

**State.** `users`, `sessions`, `tokens`, `bans` are sets of records, the committed rows.
`now` is the clock. For a request `r`: `in[r]` is its decoded input, `flow[r]` its
`flux.Flow` (time of arrival, bearer token, session), `pc[r]` the statement it runs
next, `loc[r]` the local variables of its handler, `locks[r]` the locks its transaction
holds, `resp[r]` the answer. A request is used once: `pc` goes from `"new"` to
`"done"`. The ids the code generates (session ids and tokens, confirmation tokens,
user ids) are fresh by construction of `uuid.New` and `mustGenerateToken`; request `r`
mints the id `r`, and what an id stands for is told by its table. `cred` in a session
is a history variable, the password and address of the user when the session was
opened; no action reads it.

**Actions.** An action is one statement sent to the database together with the code
that runs up to the next one, because between two statements any other request may
run. At READ COMMITTED a statement reads what is committed when it runs, so every
action reads the tables as they are. A transaction's writes are seen by nobody before
its commit; the writing statements of a transaction come last in every operation of
this code, so they and the commit are one action (`LoginInsert`, `BanUpsert`,
`PasswordWrite`, ...). Two operations write earlier: CreateUser inserts the user and then
saves a token, so its unique index entry is held as a `NameLock` between the two; and
DELETE locks its rows one by one before it removes them. A `SELECT ... FOR NO KEY
UPDATE` is an action that is enabled when nobody else holds the row and evaluates its
WHERE on the row as it is then, which is what PostgreSQL does when it rechecks a row
after a wait.

**Locks.** `UserLock(u)` is the lock of `FOR NO KEY UPDATE` and UPDATE. DELETE takes
`KeyLock(u)` as well, which is what the foreign key check of an insert (FOR KEY SHARE)
waits for; a foreign key check itself is a wait and not a hold, since the insert it
belongs to is in the last step of its transaction. `TokenLock` and `BanLock` are rows of
`tokens` and `bans`; `NameLock` an entry of the unique index on `username`. `Wants(r)`
says what the next statement needs and `Waits(r, q)` who stands in the way.

`Wants` has two parts. `First` are locks a statement must get before others. `Rows` are rows that
the last statements of a transaction write one after the other, in an order the database chooses: the sessions that
BanUser, a confirmation, ChangePassword or a clearing deletes, and what a deletion of users reaches by
ON DELETE CASCADE (tokens, sessions, bans of the user) and ON DELETE SET NULL (bans the user imposed;
`CascadeRows`). These rows are written in one step, once all of them are free. That a statement stops
half way, holding some of its rows and waiting for others, is what `HalfWay` adds: all the ways
`got` in which some statements have one row each that somebody else wants. `OnCircle(r, got)`
says that `r` waits and is on a smallest circle of waits. PostgreSQL ends one request of a circle:
`DeadlockVictim` when only the locks of earlier statements are to blame, `StatementDeadlock` when
some are half way.

**Answers.** `Answer` is every return from a handler: the deferred Rollback ends the
transaction, locks go, the client gets the answer. `Commit` is the last statement: the
answer is `"ok"`, or, for a request in `Faulty`, `"internal"` for what was done all the
same. A handler that dereferences a nil `f.Session` panics, and the router answers 500
(`Panic`): no route sets `RequireAuth`, so any of them is reached without a session.

**Quirks of the code that the model keeps**, since they decide what holds:

* ClearSessions with `ids: []` and a user id passes the validation and then makes
  `IN ()`, an error (`ClearRows`).
* The count of sessions includes expired ones; nothing deletes those (`LoginCount`).
* A permanent ban has two equal times; any negative duration makes one (`NewBan`).
* `UnbanUser` and `RenewSession` are single statements without the user's lock.
* `ResetPassword` without a token reads the user and locks nothing (`ResetStart`).
* `VerifyUser` with a token goes on when its UPDATE finds no user (`VerifyWrite`); that
  this cannot happen is `ConfirmationFindsUser`.
* `CreateUser` saves its verification token for the caller, without the caller's row and
  without the wait time. It replaces the caller's pending token whatever its age, so
  `VerificationThrottled` speaks of the tokens of VerifyUser only.

**Accounts and the refinement.** `Accounts` states, without looking at statements, what each
operation means to a client: on which condition it may take effect, and what the four tables are
afterwards. `"ok"` is only given for an effect, `"internal"` may hide one, every other answer means there was
none. `AuthService` implements it with `users`, `sessions`, `tokens`, `bans`, `now`, `in`, `flow`
and `resp` mapped to themselves and `pc`, `loc`, `locks` hidden; all steps but the committing one stutter or
refuse. What makes this hard is that the conditions are true at the commit, not when the handler read
them. Three things are weaker than one would promise, since the code gives no more: the wait
time binds tokens of VerifyUser only; ResetPassword says "ok" for a name nobody has; and
a password that cannot be hashed is "ok" without a user.

**Durations.** The clock counts in its own units; `Second` is how many make a second and
`DurationLimit` stands for 2^63. `Duration` multiplies and wraps as int64 does. `Accounts` says, without
multiplying into 64 bits, what is promised (`LastsAsAsked`): a ban whose length fits lasts as asked, and of one that
does not only that the CHECK of the table holds.

**Roles.** Here a step is smaller: an INSERT or UPDATE waits in turn for the row, for the entry of the
unique index on `name`, and for the key of the user its foreign key names, and is committed at
the end. `Wants` gives these waits, as in `AuthDB`. DELETE of a user locks the user, then the roles its
`ON DELETE SET NULL` updates, those of `created_by` first.

**Flux and Lifecycle.** `cell[f]` has the fields of Flow `f` and of its `statusWriter`, `flow[r]` says which
one `r` uses; a new Flow is a cell nobody has used. A handler is `left[r]`, how often it still takes a connection, and an
outcome out of `ends`: success, a client's error, an internal error that no statement is to blame
for (Bind, hashPassword), success with nothing written (`"silent"`: `changeEmail` returns nil without
`f.Respond`), or a panic (`panicked`). Success may turn out to have a body that cannot be encoded (two
calls of WriteHeader, `RespondTwice`), and a statement may fail at any time. Who writes nothing
(`Silently`) leaves the status to `Unwind`: after a panic the router writes a 500, else net/http a 200.
`main` is where `run` stands, `cause` why the server
stops. After `Close` the context of a request is cancelled only once its body has been read:
`net/http` watches the connection from then on. `Hanging` are the requests the database may
never answer.

**Listing.** A query is one step on the rows of one moment. A page is a set of rows that some order
allows: any order where the code has no ORDER BY, any among equal keys. A broken connection cuts a page short, since no
query reads `rows.Err`. A paging client asks on, its offset raised by the rows it got, until a
page is empty. `saw`, `seen`, `stayed`, `slipped` and `broke` are history variables. The rows change as
the other modules change them, one commit at a time.

**Left out of the data.** `reason`, IP addresses, `created_at` of users and
`updated_at` are not stored. A password and its
hash are one value; `LongPasswords` are those bcrypt refuses. A distinct input error
of a missing field is left out where it is a matter of the request alone; it is kept where a branch of the
code depends on it (`duration = 0`, no ids).

## Runs

`MCAuthService` (the runs down to `deadlock`, and the last) gives every request the operations it may call (`Ops`), so that three
requests meet in the orders that matter; any request may come with or without a
session and at any time.

| Run | Asks | Requests |
|---|---|---|
| `sessions` | `TypeOK`, `SessionsMatchCredentials`, `InsertNeverConflicts`, `SessionLifetimeBounded`, `RevokedStaysRevoked`, `RequestsAreAtomic` | a login; a login, renewal, clearing or logout; a ban or password change |
| `bans` | `BannedUsersHaveNoSession`, `ActiveBanKept` | a login, a ban, a ban or unban; one user |
| `mutual_bans` | `NeverDeadlocked` | two bans, by and of one another, and a login or password change |
| `tokens` | `TokenRedeemedOnce`, `ConfirmationKeepsToken`, `TokensServeTheirKind`, `VerificationThrottled`, `RequestsAreAtomic` | three requests for tokens or confirmations of all kinds, or a login |
| `accounts` | `EmailsWereAskedFor`, `RequestsAreAtomic` | two requests, any operation beside any other, two users and their two addresses, a name and a password that is too long; a second is two units of the clock, and 4 its limit |
| `users` | `ConfirmationFindsUser`, `ReferencesResolve`, `RequestsAreAtomic` | a creation, a request for a token or a ban; a creation, login, ban or confirmation; a deletion of one or two users; two users, who share an address |
| `deadlock` | `EveryRequestAnswered`, under `FairSpec` | a request to reset or a creation; a confirmation of the reset, a request to verify or a ban; a deletion or password change. A creation and a ban without a session panic with locks held |
| `roles` | `TypeOK`, `RoleNamesUnique`, `UpdatesStay`, `AuthorsResolve`, and `EveryRoleRequestAnswered` under `FairSpec` | two that create or update, and a deletion of roles or of the user; one role, two names |
| `server` | `TypeOK`, `OwnSession`, `LogsOwnStatus`, `StopsGracefully`; `EndsOnSignal`, `EveryoneServed` under fairness | three requests, one that may hang; two Flows, one connection |
| `listing` | `TypeOK`, `PagingMissesNobody`, `CallersNeverPanic`, `OwnSessionListed`, `PagingEnds` | one client that pages or asks once; up to four users, two changes (`MaxWrites`) |
| `new_user_token`, `created_user` | violated, see [Findings](#findings) | creations |

Deadlock in TLC's sense is checked in all of them but `listing`: the only state without a proper
step is the one where every request has been answered and the clock stands at its
bound (`Idle`), or the program has ended (`Gone`). In `listing` a client that has come to its end
is done for good, so that is not a fault there.

**Bounds and why they are enough.** Each property speaks of at most two requests that
race and what a third does to them; three requests and one or two users contain each of
these races, and the mutants below show that each bound reaches the bad state when the
code is broken. `MaxTime` is 1 with lifetimes of 1: a session, token or ban can be
live or have expired, and a request can arrive before and act after the tick, which
is all the code distinguishes. `mutual_bans`, `accounts`, `users` and `deadlock` do not
depend on time and have `MaxTime` 0. `MaxSessions` is 2 (10 in the code), so that the
limit is met with one session open. `Faulty` lets a request fail at any statement or
lose the acknowledgement. Two bounds cut behaviour: `EveryRequestAnswered` and
`NeverDeadlocked` are checked on the operations listed only (with the others,
`NeverDeadlocked` is false, and rightly so). The proofs below have no bound but
`MaxTime`, which is arbitrary.

In `accounts` only two requests meet, but of all operations: the atomicity of an operation is broken
by one other. `sessions`, `tokens` and `users` check the same refinement with three. `roles`
has one user, who is the caller and the author of the role, since the waits of `AuthorsResolve`
need no other. In `server` two Flows for three requests make one be used again, one connection makes one of
two requests wait for the other, and one hanging request is what a shutdown can meet. It can keep the
only connection: `EveryoneServed` excepts the time when all connections hang (`AllHang`), for then the code serves nobody else. In `listing` a page has
at most two rows, so four users are several pages, and two changes (`MaxWrites`) can insert and delete
before and after the place a client has reached; clients do not meet, so there is one. `OwnSessionListed` rests on an
assumption the constants of the code satisfy: a user has at most 10 sessions (expired ones count), and a page at least 20 rows.

**Mutants.** Every property of a passing run has a mutant, an operator next to the one it
replaces whose comment starts with "Mutant": SELECT without its lock (`ForNothing`, `TokenForNothing`), a lock that is too strong
(`ForUpdate`), a foreign key left out of the schema (`Unreferenced`), a dropped condition on the kind of a
token, a renewal that upserts, a token that is not deleted, a transaction left open.
TLC finds the property violated by each.

**Fairness.** `FairSpec` asks for two things. `WF(Step(r))` for every request: a goroutine whose next
statement can run runs it, which Go's scheduler and PostgreSQL's queue of waiters give;
weak fairness is enough, since a statement that waits for a lock
becomes enabled for good once the holders end, in the finitely many steps left to a
finite number of requests. `WF(DeadlockVictim)`: PostgreSQL breaks every circle of waits
after `deadlock_timeout`. None is asked of `StatementDeadlock`: a model statement that writes several rows takes
them at once, so nobody depends on it to go on. Nothing is asked of clients (`Receive`), of failures (`Abort`) or of the clock.
`Roles` asks for the same two. `Lifecycle` asks that goroutines run (`Serve`), that the program starts or fails and timers fire
(`Boot`, `Run`), and that the database answers the authenticator's query, which waits for no lock, and every
statement but those of `Hanging` requests; those end when their context is cancelled (`Prompt`). It asks nothing of clients, of the
signal or of Serve's failure. `PagingEnds` needs no fairness: it bounds the offset.

## Proofs

The theorems hold for any finite or infinite set of requests and users, any durations
and any limit that `ConfigAssumption` and `SeedAssumption` (`AuthDB`) admit: durations
positive, the limit from 1 to 10, and the rows there are at the start consistent with each other
(`NilAssumption`: nil is not the Flow of a request); those
of `RoleProofs` for any that `RolesAssumption` admits, those of `LifecycleProofs` for any number of
requests, Flows and connections (`PoolAssumption`), those of `ListingProofs` for any rows, queries, limits and number of
clients and changes (`LimitAssumption`: a user has no more sessions than a page rows; `RowAssumption`: ids and
usernames are unique, a user keeps its name and a session its user; `QueryAssumption`: what is asked for one's own has no filter). TLC evaluates each assumption in the runs of its system.

| Theorem | Module | States |
|---|---|---|
| `TypeCorrect` | `AuthTypeProofs` | `[]TypeOK` |
| `LocksAreExclusive`, `LockedUsersAreKept` | `AuthLockProofs` | no two transactions hold one lock; a user whose row is locked stays. The later proofs rest on both |
| `SessionsMatch`, `BansAreEffective`, `LifetimesAreBounded`, `InsertsSucceed`, `ReferencesAlwaysResolve` | `AuthSessionProofs` | `[]SessionsMatchCredentials`, `[]BannedUsersHaveNoSession`, `[]SessionLifetimeBounded`, `[]InsertNeverConflicts`, `[]ReferencesResolve` |
| `RevocationIsFinal`, `ActiveBansAreKept` | `AuthSessionProofs` | the action properties `RevokedStaysRevoked`, `ActiveBanKept` |
| `TokensAreRedeemedOnce`, `TokensAreKept`, `ConfirmationsFindUser`, `TokensKeepTheirKind`, `EmailsAreAskedFor` | `AuthTokenProofs` | `[]TokenRedeemedOnce`, `[]ConfirmationKeepsToken`, `[]ConfirmationFindsUser`, `[]TokensServeTheirKind`, `[]EmailsWereAskedFor` |
| `VerificationsAreThrottled` | `AuthTokenProofs` | the action property `VerificationThrottled` |
| `AuthServiceIsAtomic` | `AuthRefinementProofs` | `RequestsAreAtomic`: the refinement `Spec => Accounts!Spec` under the mapping of `AuthRefinement` |
| `NobodyWaitsInACircle` | `AuthLockProofs` | `[]NeverDeadlocked`, for requests as `NoCircle` has them |
| `TypesHold`, `RoleNamesStayUnique`, `AuthorsStayResolved`, `UpdatesAlwaysStay` | `RoleProofs` | of `Roles`: `[]TypeOK`, `[]RoleNamesUnique`, `[]AuthorsResolve`, `[]UpdatesStay` |
| `TypesHold`, `SessionsAreOwn`, `LogsAreOwn`, `StopIsGraceful` | `LifecycleProofs` | of `Lifecycle`: `[]TypeOK`, `[]OwnSession`, `[]LogsOwnStatus`, `[]StopsGracefully` |
| `TypesHold`, `NobodyPanics`, `OwnSessionsAreListed`, `PagingAlwaysEnds` | `ListingProofs` | of `Listing`: `[]TypeOK`, `[]CallersNeverPanic`, `[]OwnSessionListed`, `[]PagingEnds` |
| `PagingByNameMissesNobody` | `ListingProofs` | `[]PagingMissesNobody`, for clients that begin at the first row (`FromTheFirst`) |

None of the invariants is inductive as it stands. The strengthenings come in layers,
each proved with the one below as a known fact, and each checked with TLC before:

1. `Typed`: `TypeOK`, and for every request past a statement that its local variables are
   filled in (`FilledIn`). Without it nothing follows from `loc[r].user`.
2. `LockInv`: no lock is held twice; who holds the lock of a ban also holds the row of
   the banned user (`BanLockedWithUser`); whoever
   is past the statement that locks the user holds the row (`HoldsUser`); and therefore
   the row stays (`LockedUsersStay`), since DELETE needs the same lock.
3. `SessionInv`: what a login knows from the moment it holds the row (`LoginKnows`): the
   credentials are the user's, no ban is active, the number is free. Whoever could make one of
   these false (a password change, a confirmation, a ban, another login) must hold the same row,
   so they are still true at the insert. A ban without Replace knows in the same
   way that there is nothing to overwrite (`BanKnows`). Expired bans need care: a login judges a
   ban by `f.Time`, the property by `now`, and `FlowsArePast` connects the two; a renewal
   by stale time is bounded by `BearersAreOld`.
4. `TokenInv`: a confirmation holds the lock of its token from getToken on (`HoldsToken`),
   so `ConfirmationKeepsToken`; ids of tokens are not used twice (`TokenIdsFresh`) and what
   was redeemed is gone (`Redeemed`), so no second request gets an "ok";
   what VerifyUser has checked still holds when it saves (`VerifyKnows`); every token of
   ChangeEmail was asked for by the user it is for (`AddressesAsked`).

`RoleProofs` has one invariant of its own kind, `Inv`. Without transactions there is no lock from the check of a
name to its write, so all it can say of a statement is what its locks vouch for at the stage before
the write (`Secured`): the name's entry is held and nobody has the name, or the row that is
updated has it and is held. For AuthorsResolve it says that a deletion of a user
about to commit holds every row that names the user (`DeleterHolds`); whoever would add another waits
for the user's key, or is updating a row that named the user already, which is held too. `UpdatesStay` needs
none of the locks (`StayInv`), only that nobody was told of an update of an id yet to be minted.

For `ReferencesAlwaysResolve` a session, a token and a ban need their user, and a ban whoever imposed it as well. The insert
waits for the keys of both, and a deletion holds the key until its cascade has removed what names the user, or set
`banned_by` to NULL (`BansEffect`). `ActiveBansAreKept` therefore compares bans without `by` (`SameBan`).

The refinement is the fifth layer. A request takes effect with its last statement, on conditions it has read with earlier
ones, so the invariant says what a request knows (`Knows`) when that statement is next, and why it is still so: the row was
locked when it was read (`PasswordKnown`, `UnverifiedKnown`), the name's index entry is held (`CreateKnows`), or it is something that
never changes: the name of a user, the expiry of a token, an id that exists (`OldId`). That a ban lasts as asked needs no
more than whom BanUser's local user stands for (`BanInv`), and that a product that fits survives 64 bits (`Int64Fits`). With `SessionInv` and `TokenInv`
these are the guards of the actions of `Accounts`. The proof then takes the actions one by one: each is a step of its
operation, a refusal, or leaves all that `Accounts` sees as it was.

`NobodyWaitsInACircle` is about requests as `NoCircle` has them: no deletion of users and no clearing of sessions or logout at
all, and where tokens are redeemed, no ChangeEmail or VerifyUser asking for one. The proof first says which locks
a request can hold, and where (`Holdings`). What a statement then writes row by row are the sessions of one user, and who
deletes those holds the user's row; so no two requests want one such row (`RowsAlone`), nobody is caught half way (`WaitsForWhole`),
and a circle is one of locks of earlier statements. Who is waited for and waits itself is then one of two
(`WaitingHolders`): a creation that has its name and saves a token, or a confirmation that has its token and wants its user; a
ban that wants the ban of a user it has does not wait, since the other would hold the user too. Of two in a row that are
waited for and wait, the first creates and the second confirms (`WaitingPairs`); nobody does both, so no circle closes.

What `NoCircle` keeps out does close circles: a confirmation beside a request of the same user for a token, two deletions
of several users, a deletion that sets `banned_by` to NULL in a ban that somebody replaces who waits for the deleted key, two
clearings that meet on the same sessions in opposite orders. The run `deadlock` shows how some of them end,
`users` and `sessions` that what they leave is consistent. The requests of `mutual_bans` satisfy `NoCircle`.

`ListingProofs` has `ListInv`: rows stay unique by id, and no user gets more sessions than allowed, whatever is inserted and
changed (`RowsKept`); every request is one a client can make (`Asked`). `PageOf` says once what `LIMIT` and `OFFSET` give: how many rows, and that the rows skipped come before
them. `MySessionsShows` then counts: all sessions of a user fit on the page. For paging it needs to know how far a client is
(`Progress`): the users that match and stand no later than one it was shown (`Passed`) are at least as many as it skips next, so what
it skips lies among them, and of those who stayed it was shown all. An insertion or a change can only add to `Passed`; a
deletion from it is what `slipped` records. `FromTheFirst` is part of what the property means: a client that starts in the middle misses the beginning.

`NextCases` reduces a step of the system to four cases (arrival, authentication, a step
of a handler, the clock), and `HandlerEffect`, `UsersEffect`, `SessionsEffect`, `BansEffect`,
`TokensEffect` say once what a handler may do to each table; the later proofs speak of
those and not of the thirty actions.

Only model-checked: all liveness under fairness (`EveryRequestAnswered`, `EveryRoleRequestAnswered`, `EndsOnSignal`,
`EveryoneServed`), which is out of the prover's reach. Every other property of a passing run is a theorem.

## Findings

* `new_user_token`: CreateUser makes its verification token for `f.Session.User`, the caller
  (`auth/user.go:245`), not for the user it has just created, although the next line
  plans to send it to the new user (`auth/user.go:250`). `NewUserGetsToken` is violated.
* `created_user`: the error of `hashPassword` is dropped (`auth/user.go:218`), so a password bcrypt refuses is
  answered with 200 and an empty user, where `common/flux/flux.go:31` says 200 is
  "returned when execution is successful". `CreatedMeansStored` is violated.

Met while modelling, and in the models as the code has it, but contradicted by no sentence of the repository that a
run could quote:

* When Serve fails, `run` returns before Stop is deferred: `db.Close` waits for running requests without
  a limit, and a signal does not end it. `EndsOnSignal` excepts this case.
* A forced Close does not reach a request whose body was not read (`renewSession` and `deleteMyUser` never
  read theirs), so a statement of it that waits keeps the program from ending. Also excepted.
* The success of a ChangeEmail (`auth/api/admin.go:54`) and every panic are logged with status 0, while the client gets the 200 of
  net/http or the router's 500; a response whose body cannot be encoded is logged with 500 after the client got 200.
  `LogsOwnStatus` names these three and says what the client gets then; there is no other difference.
* When the database keeps every connection waiting, nobody else is served: nothing limits how long a request waits
  for a connection (`AllHang` in `EveryoneServed`).
* No query reads `rows.Err`: a broken connection turns a list into a shorter one and an existing
  row into a 404 (`broke` in `Listing`).
* A detailed query of a role or permission by id is always a 500, since `id` is ambiguous; a query of
  sessions by an id that is not there is a 500 and not a 404, since `querySessions` has no case for it.
* `Options.Permissions` and `Options.SuccessStatus` are documented (`flux.go:23-33`) and read by nothing.

## What is not modelled

* ForgotUsername: one query whose result is dropped until the e-mail is written.
* The tables `role_permissions`, `user_roles`, `session_roles`: no code touches them. No route checks roles.
* The steps inside a statement of `AuthService` that writes several rows: it writes them at once when all are free. What
  stopping between two rows can do, which is a deadlock, is modelled (`StatementDeadlock`), with one contended row per statement at a time, and with the
  key share of a foreign key check counted as the whole key. (`Roles` models the rows one by one.)
* A crash of the server: it holds nothing that outlives it, and PostgreSQL rolls back
  what was open, which for the tables is `Abort` of every request.
* The connections a request holds are not composed with the locks it waits for: `Lifecycle` lets a
  statement of a hanging request take for ever instead.
* The walk over `X-Forwarded-For` and `X-Real-IP` (`ip.go`): `run` does not use it.
* Parsing, formatting, logging, SQL text; the values of timeouts and limits in the configuration.

## Plan

Done: the core (`AuthDB` to `AuthService`), the abstract `Accounts` and the refinement, `Roles`, `Flux` and
`Lifecycle`, `Listing`, each checked with TLC and all of their safety proved. Next:

1. Where `NoCircle` does not hold: which requests every circle of waits has in it, and so which ones `DeadlockVictim` may end.
2. For `Roles`: between which requests a circle of waits can close, and that no other can.
3. Lemmas that the bounds of the liveness runs suggest: how often a request can step before it is answered.
