------------------------------ MODULE Listing -------------------------------
(***************************************************************************)
(* The queries of package auth: Users, Sessions, Bans, Roles, Permissions, *)
(* and the handlers that answer with what they find.                       *)
(*                                                                         *)
(* A query is one statement, and sees the tables of one moment.  What is   *)
(* hard is around it: the caller was authenticated before it, its filters  *)
(* compare with the time the request arrived, and a client that pages      *)
(* through a table sends many, while other requests change the rows.  Only *)
(* Users has an ORDER BY; without one, and between equal keys, the rows    *)
(* come in any order, another for each query.                              *)
(***************************************************************************)
EXTENDS Integers, FiniteSets, FiniteSetsExt

CONSTANTS
  Requests,     \* the clients, each with one query
  Queries,      \* bound: Queries[r], what r may ask
  Pool,         \* bound: Pool[t], the rows table t can come to hold
  Seed,         \* Seed[t], the rows it holds at first
  DefaultLimit, MaxLimit,  \* default...QueryLimit and max...QueryLimit
  MaxSessions,  \* maxSessionsPerUser
  None,         \* an empty string, nil
  Bad,          \* an id or a sort that does not parse
  MaxTime,      \* bound: the clock stops here
  MaxWrites     \* bound: how often the tables change

Tables == {"users", "sessions", "bans", "roles", "permissions"}
Mine == {"my_user", "my_sessions"}
Ids(rows) == {x.id : x \in rows}

SessionsOf(u, rows) == {s \in rows : s.user = u}

ASSUME LimitAssumption ==
  /\ DefaultLimit \in Nat \ {0} /\ MaxLimit \in Nat /\ DefaultLimit <= MaxLimit
  /\ MaxSessions \in 1 .. DefaultLimit
  /\ MaxTime \in Nat /\ MaxWrites \in Nat

\* Ids are unique, usernames too; a user keeps its name and a session its user;
\* a user that has sessions has an id.
ASSUME RowAssumption ==
  /\ Seed \in [Tables -> SUBSET UNION {Pool[t] : t \in Tables}]
  /\ \A t \in Tables :
       /\ IsFiniteSet(Pool[t])
       /\ Seed[t] \subseteq Pool[t]
       /\ \A x, y \in Seed[t] : x.id = y.id => x = y
  /\ \A x, y \in Pool["users"] :
       x.username \in Int /\ (x.id = y.id <=> x.username = y.username)
  /\ \A x, y \in Pool["sessions"] :
       x.user # None /\ x.expires \in Int /\ (x.id = y.id => x.user = y.user)
  /\ \A x \in Seed["sessions"] :
       Cardinality(SessionsOf(x.user, Seed["sessions"])) <= MaxSessions

\* A query.  One for what is the caller's own has no filter and no page.
IsQuery(q) ==
  /\ q = [op |-> q.op, id |-> q.id, user |-> q.user, email |-> q.email,
          username |-> q.username, sort |-> q.sort, detailed |-> q.detailed,
          expired |-> q.expired, limit |-> q.limit, offset |-> q.offset]
  /\ q.op \in Tables \cup Mine /\ q.limit \in Int /\ q.offset \in Int
  /\ q.op \in Mine => q.id = None /\ ~q.expired /\ q.limit <= 0 /\ q.offset <= 0

ASSUME QueryAssumption == \A r \in Requests : \A q \in Queries[r] : IsQuery(q)

VARIABLES
  table,   \* table[t]: the committed rows
  writes,  \* how often they changed
  now,     \* the server's clock
  in,      \* in[r]: what r asks for
  session, \* session[r]: f.Session, the row of the caller's session
  time,    \* time[r]: f.Time
  pc, resp, page,  \* page[r]: the rows r was answered with
  saw,     \* history, saw[r]: the rows its statement chose from
  seen, stayed,    \* history: the users a client was shown, and those who
                   \* matched its query all the time
  slipped, \* history: a user left from a place the client had passed
  broke    \* history: the connection broke while rows were read

client == <<in, session, time, pc, resp, page, saw, seen, stayed, slipped, broke>>
vars == <<table, writes, now, client>>

-----------------------------------------------------------------------------
\* Mutant: a limit is taken as it comes, and 0 leaves out LIMIT.
Unlimited(q) == IF q.limit > 0 THEN q.limit ELSE MaxLimit + 1
Limited(q) ==
  IF q.limit <= 0 \/ q.limit > MaxLimit THEN DefaultLimit ELSE q.limit
\* Mutant: the offset is dropped.
FromTheStart(q) == 0
Skipped(q) == IF q.offset < 0 THEN 0 ELSE q.offset

\* Mutant: the sort a client asks for is parsed and not used.
Oldest(sort) == [by |-> "created_at", asc |-> TRUE]
\* The column and direction of getUserSort.
UserSort(sort) == IF sort = None THEN [by |-> "created_at", asc |-> TRUE] ELSE sort
Before(q, x, y) ==
  LET s == UserSort(q.sort)
  IN IF s.asc THEN x[s.by] <= y[s.by] ELSE x[s.by] >= y[s.by]

MatchingUsers(q, rows) ==
  {u \in rows : /\ q.id \in {None, u.id}
                /\ (q.email = None \/ u.email \in q.email)
                /\ q.username = None \/ u.username \in q.username}

\* Mutant: compared with the clock when the query is built.
UnexpiredNow(s, t) == s.expires > now
Unexpired(s, t) == s.expires > t
MatchingSessions(q, t, rows) ==
  {s \in rows : /\ q.id \in {None, s.id}
                /\ q.user \in {None, s.user}
                /\ (q.expired \/ Unexpired(s, t))}

InForce(b, t) == b.unbannedAt > t \/ b.bannedAt = b.unbannedAt
MatchingBans(q, t, rows) ==
  {b \in rows : q.user \in {None, b.id} /\ (q.expired \/ InForce(b, t))}

-----------------------------------------------------------------------------
Answer(r, a, p) ==
  /\ pc' = [pc EXCEPT ![r] = "answered"]
  /\ resp' = [resp EXCEPT ![r] = a]
  /\ page' = [page EXCEPT ![r] = p]
  /\ seen' = [seen EXCEPT ![r] =
       IF in[r].op = "users" THEN @ \cup {x.username : x \in p} ELSE @]

\* The pages of n rows the statement can return, as sets: the rows it skips
\* come before those it returns, and these before the rest.
InOrder(q, x, y) == q.op = "users" => Before(q, x, y)
Pages(q, rows, n) ==
  LET skipped == Min({Skipped(q), Cardinality(rows)})
      count == Min({n, Cardinality(rows) - skipped})
  IN {p \in kSubset(count, rows) :
        \E first \in kSubset(skipped, rows \ p) :
          \A x \in first \cup p, y \in rows \ first :
            x \in first \/ y \notin p => InOrder(q, x, y)}

\* rows.Err is never read: when the connection breaks after the statement was
\* accepted, the rows that came before are the result.
Reads(q, rows) ==
  {[page |-> p, broke |-> FALSE] : p \in Pages(q, rows, Limited(q))}
    \cup {[page |-> p, broke |-> TRUE] :
             p \in UNION {Pages(q, rows, n) : n \in 0 .. Limited(q)}}

\* Mutant: an empty result is a result.
AlwaysFound(key, p) == TRUE
\* A query by key that finds nothing is an error.
Found(key, p) == key = None \/ p # {}

Running(r, op) == pc[r] = "query" /\ in[r].op = op
Saw(r, rows) ==
  /\ saw' = [saw EXCEPT ![r] = rows]
  /\ UNCHANGED <<table, writes, now, in, session, time, stayed, slipped>>

\* An answer made of the rows read, and one without a row read.
AnswerRead(r, a, x) ==
  Answer(r, a, x.page) /\ broke' = [broke EXCEPT ![r] = @ \/ x.broke]
Refuse(r, a) == Answer(r, a, {}) /\ UNCHANGED broke

Users(r) ==
  /\ Running(r, "users")
  /\ LET q == in[r] IN
     \/ Bad \in {q.id, q.sort} /\ Refuse(r, "validation")
     \/ /\ Bad \notin {q.id, q.sort}
        /\ \E x \in Reads(q, MatchingUsers(q, table["users"])) :
             AnswerRead(r, IF Found(q.id, x.page) THEN "ok" ELSE "not_found", x)
  /\ Saw(r, table["users"])

\* querySessions has no case for ErrSessionNotFound.
Sessions(r) ==
  /\ Running(r, "sessions")
  /\ LET q == in[r] IN
     \/ Bad \in {q.id, q.user} /\ Refuse(r, "validation")
     \/ /\ Bad \notin {q.id, q.user}
        /\ \E x \in Reads(q, MatchingSessions(q, time[r], table["sessions"])) :
             AnswerRead(r, IF Found(q.id, x.page) THEN "ok" ELSE "internal", x)
  /\ Saw(r, table["sessions"])

Bans(r) ==
  /\ Running(r, "bans")
  /\ LET q == in[r] IN
     \/ q.user = Bad /\ Refuse(r, "validation")
     \/ /\ q.user # Bad
        /\ \E x \in Reads(q, MatchingBans(q, time[r], table["bans"])) :
             AnswerRead(r, IF Found(q.user, x.page) THEN "ok" ELSE "not_found", x)
  /\ Saw(r, table["bans"])

\* With the users joined, the "id" of the condition is ambiguous and the
\* statement is refused.
Named(r, t) ==
  /\ Running(r, t)
  /\ LET q == in[r] IN
     \/ q.id = Bad /\ Refuse(r, "validation")
     \/ q.id \notin {None, Bad} /\ q.detailed /\ Refuse(r, "internal")
     \/ /\ q.id = None \/ (q.id # Bad /\ ~q.detailed)
        /\ \E x \in Reads(q, {x \in table[t] : q.id \in {None, x.id}}) :
             AnswerRead(r, IF Found(q.id, x.page) THEN "ok" ELSE "not_found", x)
  /\ Saw(r, table[t])
Roles(r) == Named(r, "roles")
Permissions(r) == Named(r, "permissions")

\* Users by the id of f.Session, and its first row.
MyUser(r) ==
  /\ Running(r, "my_user")
  /\ \/ session[r] = None /\ Refuse(r, "panic")
     \/ /\ session[r] # None
        /\ LET q == [in[r] EXCEPT !.id = session[r].user] IN
           \E x \in Reads(q, MatchingUsers(q, table["users"])) :
             \/ ~Found(q.id, x.page) /\ AnswerRead(r, "not_found", x)
             \/ /\ Found(q.id, x.page)
                /\ AnswerRead(r, IF x.page = {} THEN "panic" ELSE "ok", x)
  /\ Saw(r, table["users"])

MySessions(r) ==
  /\ Running(r, "my_sessions")
  /\ \/ session[r] = None /\ Refuse(r, "panic")
     \/ /\ session[r] # None
        /\ LET q == [in[r] EXCEPT !.user = session[r].user] IN
           \E x \in Reads(q, MatchingSessions(q, time[r], table["sessions"])) :
             AnswerRead(r, "ok", x)
  /\ Saw(r, table["sessions"])

\* db.Query returns the error.
QueryFails(r) ==
  /\ pc[r] = "query"
  /\ Refuse(r, "internal")
  /\ Saw(r, {})

-----------------------------------------------------------------------------
Usernames(rows) == {u.username : u \in rows}

\* A request arrives and its token, if it has one, passes the authenticator.
Ask(r) ==
  /\ pc[r] = "new"
  /\ \E q \in Queries[r] : in' = [in EXCEPT ![r] = q]
  /\ \E s \in {x \in table["sessions"] : x.expires > now} \cup {None} :
       /\ s # None => in'[r].op \in Mine
       /\ session' = [session EXCEPT ![r] = s]
  /\ time' = [time EXCEPT ![r] = now]
  /\ pc' = [pc EXCEPT ![r] = "query"]
  /\ stayed' = [stayed EXCEPT ![r] =
       IF in'[r].op = "users" THEN Usernames(MatchingUsers(in'[r], table["users"])) ELSE {}]
  /\ UNCHANGED <<table, writes, now, resp, page, saw, seen, slipped, broke>>

\* A client that pages asks for what follows until a page is empty.
MorePages(r) ==
  /\ pc[r] = "answered" /\ resp[r] = "ok" /\ page[r] # {}
  /\ in[r].op \in Tables /\ in[r].id = None /\ in[r].user = None
NextPage(r) ==
  /\ MorePages(r)
  /\ in' = [in EXCEPT ![r].offset = (IF @ < 0 THEN 0 ELSE @) + Cardinality(page[r])]
  /\ time' = [time EXCEPT ![r] = now]
  /\ pc' = [pc EXCEPT ![r] = "query"]
  /\ UNCHANGED <<table, writes, now, session, resp, page, saw, seen, stayed, slipped, broke>>

\* The requests of the other modules change the rows: what a query can tell
\* of them is the rows that come, change and go with one commit.
Write(new) ==
  /\ writes < MaxWrites
  /\ \E r \in Requests : pc[r] = "query" \/ MorePages(r)  \* bound: only when it matters
  /\ writes' = writes + 1
  /\ table' = new
  /\ LET Left(r) == {x \in MatchingUsers(in[r], table["users"]) :
                      x.username \notin Usernames(MatchingUsers(in[r], new["users"]))}
     IN /\ stayed' = [r \in Requests |->
             IF pc[r] = "new" \/ in[r].op # "users" THEN stayed[r]
             ELSE stayed[r] \cap Usernames(MatchingUsers(in[r], new["users"]))]
        /\ slipped' = [r \in Requests |->
             \/ slipped[r]
             \/ /\ pc[r] # "new" /\ in[r].op = "users"
                /\ \E x \in Left(r) : \E y \in Pool["users"] :
                     y.username \in seen[r] /\ Before(in[r], x, y)]
  /\ UNCHANGED <<now, in, session, time, pc, resp, page, saw, seen, broke>>

Insert(t) ==
  \E x \in Pool[t] :
    /\ x.id \notin Ids(table[t])
    /\ t \in {"sessions", "bans"} => x.user \in Ids(table["users"])
    /\ t = "sessions" =>
         Cardinality(SessionsOf(x.user, table[t])) < MaxSessions
    /\ Write([table EXCEPT ![t] = @ \cup {x}])

\* A login, a new address, a renewed session, another ban.
Change(t) ==
  \E x \in table[t], y \in Pool[t] :
    /\ x # y /\ x.id = y.id
    /\ Write([table EXCEPT ![t] = (@ \ {x}) \cup {y}])

\* DELETE, and what it cascades to.
Delete(t) ==
  \E x \in table[t] :
    LET Kept(s) == {y \in table[s] : t # "users" \/ y.user # x.id}
    IN Write([[table EXCEPT !["sessions"] = Kept("sessions"), !["bans"] = Kept("bans")]
              EXCEPT ![t] = table[t] \ {x}])

Tick ==
  /\ now < MaxTime
  /\ now' = now + 1
  /\ UNCHANGED <<table, writes, client>>

-----------------------------------------------------------------------------
NoQuery == [op |-> "none"]

Init ==
  /\ table = Seed
  /\ writes = 0 /\ now = 0
  /\ in = [r \in Requests |-> NoQuery]
  /\ session = [r \in Requests |-> None]
  /\ time = [r \in Requests |-> 0]
  /\ pc = [r \in Requests |-> "new"]
  /\ resp = [r \in Requests |-> "none"]
  /\ page = [r \in Requests |-> {}]
  /\ saw = [r \in Requests |-> {}]
  /\ seen = [r \in Requests |-> {}]
  /\ stayed = [r \in Requests |-> {}]
  /\ slipped = [r \in Requests |-> FALSE]
  /\ broke = [r \in Requests |-> FALSE]

Step(r) ==
  \/ Users(r) \/ Sessions(r) \/ Bans(r) \/ Roles(r) \/ Permissions(r)
  \/ MyUser(r) \/ MySessions(r) \/ QueryFails(r)
  \/ NextPage(r)

Next ==
  \/ \E r \in Requests : Ask(r) \/ Step(r)
  \/ \E t \in Tables : Insert(t) \/ Change(t) \/ Delete(t)
  \/ Tick

Spec == Init /\ [][Next]_vars

-----------------------------------------------------------------------------
\* The variables have the values the code gives them; of the rows a query
\* returns there are never more than the maximum.
TypeOK ==
  /\ \A t \in Tables : table[t] \subseteq Pool[t]
  /\ writes \in 0 .. MaxWrites /\ now \in 0 .. MaxTime
  /\ \A r \in Requests :
       /\ session[r] \in Pool["sessions"] \cup {None}
       /\ time[r] \in 0 .. now
       /\ pc[r] \in {"new", "query", "answered"}
       /\ resp[r] \in {"none", "ok", "validation", "not_found", "internal", "panic"}
       /\ page[r] \subseteq saw[r] /\ Cardinality(page[r]) <= MaxLimit
       /\ slipped[r] \in BOOLEAN /\ broke[r] \in BOOLEAN

\* A client that pages through the users by username until a page is empty
\* has seen everyone who matched all the time, whoever came or changed
\* meanwhile, unless someone left from the part it had passed: the key is
\* unique and never changes, and the offset counts what was shown (Users).
PagingMissesNobody ==
  \A r \in Requests :
    /\ in[r] # NoQuery /\ in[r].op = "users" /\ in[r].id = None
    /\ in[r].sort # None /\ in[r].sort # Bad /\ in[r].sort.by = "username"
    /\ pc[r] = "answered" /\ resp[r] = "ok" /\ page[r] = {}
    /\ ~slipped[r] /\ ~broke[r]
    => stayed[r] \subseteq seen[r]

\* A caller with a session never makes a handler panic, not even when its
\* user is deleted between the authenticator and the query or the connection
\* breaks while the row is read: myUser takes users[0] unchecked.
CallersNeverPanic ==
  \A r \in Requests : resp[r] = "panic" => session[r] = None

\* Whoever lists their sessions finds the one they called with, unless it was
\* cleared or lost time since: the filter and the authenticator use one time,
\* f.Time, and a user has fewer sessions than a page holds (mySessions).
OwnSessionListed ==
  \A r \in Requests :
    /\ in[r] # NoQuery /\ in[r].op = "my_sessions"
    /\ pc[r] = "answered" /\ resp[r] = "ok" /\ ~broke[r]
    => \A s \in saw[r] :
         s.id = session[r].id /\ s.expires >= session[r].expires => s \in page[r]

\* A client that pages comes to an end, in whatever order the rows come: a
\* page that is not empty takes it further, and it never skips more rows than
\* there can be (the offset of Users, Sessions, Bans, Roles, Permissions).
PagingEnds ==
  \A r \in Requests :
    in[r] # NoQuery /\ in[r].op \in Tables /\ MorePages(r) =>
      in[r].offset < Cardinality(Ids(Pool[in[r].op]))
=============================================================================
