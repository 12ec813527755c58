---------------------------- MODULE ListingProofs ----------------------------
(***************************************************************************)
(* What a client is shown by the queries of Listing, for any rows, limits  *)
(* and number of clients.                                                  *)
(*                                                                         *)
(* Whether paging misses somebody depends on how far the client is: the    *)
(* users that match and stand no later than one it was shown (Passed) are  *)
(* at least as many as it skips next, so what it skips lies among them.    *)
(***************************************************************************)
EXTENDS Listing, FiniteSetTheorems, TLAPS

\* Ids stay unique, and nobody has more sessions than allowed.
RowsKept ==
  /\ table \in [Tables -> SUBSET UNION {Pool[t] : t \in Tables}]
  /\ \A t \in Tables :
       /\ table[t] \subseteq Pool[t]
       /\ \A x, y \in table[t] : x.id = y.id => x = y
  /\ \A x \in Pool["sessions"] :
       Cardinality(SessionsOf(x.user, table["sessions"])) <= MaxSessions

\* The variables are functions.
Shaped ==
  /\ in = [r \in Requests |-> in[r]]
  /\ session = [r \in Requests |-> session[r]]
  /\ time = [r \in Requests |-> time[r]]
  /\ pc = [r \in Requests |-> pc[r]]
  /\ resp = [r \in Requests |-> resp[r]]
  /\ page = [r \in Requests |-> page[r]]
  /\ saw = [r \in Requests |-> saw[r]]
  /\ seen = [r \in Requests |-> seen[r]]
  /\ stayed = [r \in Requests |-> stayed[r]]
  /\ slipped = [r \in Requests |-> slipped[r]]
  /\ broke = [r \in Requests |-> broke[r]]

\* What every client is known to have.
Asked(r) ==
  /\ pc[r] = "new" =>
       /\ in[r] = NoQuery /\ session[r] = None /\ resp[r] = "none"
       /\ seen[r] = {} /\ stayed[r] = {} /\ ~slipped[r] /\ ~broke[r]
  /\ pc[r] # "new" => IsQuery(in[r])
  /\ seen[r] \subseteq Usernames(Pool["users"]) /\ IsFiniteSet(page[r])
  /\ session[r] # None => in[r].op \in Mine /\ session[r].expires > time[r]

ListInv ==
  /\ Shaped
  /\ RowsKept
  /\ TypeOK
  /\ \A r \in Requests : Asked(r)

-----------------------------------------------------------------------------
\* A client that pages through the users by username.
ByName(r) ==
  /\ pc[r] # "new" /\ in[r].op = "users" /\ in[r].id = None
  /\ in[r].sort \notin {None, Bad} /\ in[r].sort.by = "username"

NotAfter(q, m, n) == IF q.sort.asc THEN m <= n ELSE m >= n
Matching(r) == Usernames(MatchingUsers(in[r], table["users"]))
\* The names that match and stand no later than one the client was shown.
UpTo(q, names, shown) == {m \in names : \E n \in shown : NotAfter(q, m, n)}
Passed(r) == UpTo(in[r], Matching(r), seen[r])

\* How far the client is, as long as nobody has left from the part it passed.
Progress(r) ==
  ByName(r) /\ ~slipped[r] /\ ~broke[r] =>
    /\ stayed[r] \subseteq Matching(r)
    /\ UpTo(in[r], stayed[r], seen[r]) \subseteq seen[r]
    /\ pc[r] = "query" => Skipped(in[r]) <= Cardinality(Passed(r))
    /\ pc[r] = "answered" /\ resp[r] = "ok" =>
         /\ Skipped(in[r]) + Cardinality(page[r]) <= Cardinality(Passed(r))
         /\ page[r] = {} => stayed[r] \subseteq seen[r]

PagingInv == \A r \in Requests : Progress(r)

\* A client that was shown something has not skipped all there can be.
Further ==
  \A r \in Requests :
    pc[r] = "answered" /\ page[r] # {} /\ in[r].op \in Tables =>
      Skipped(in[r]) < Cardinality(Ids(Pool[in[r].op]))

\* Whoever pages by username begins at the first.
FromTheFirst ==
  \A r \in Requests : \A q \in Queries[r] :
    q.op = "users" /\ q.id = None => q.offset <= 0

-----------------------------------------------------------------------------
(* Pages                                                                   *)

LEMMA MinOfTwo ==
  ASSUME NEW a \in Int, NEW b \in Int
  PROVE  Min({a, b}) = IF a <= b THEN a ELSE b
<1> DEFINE m == IF a <= b THEN a ELSE b
<1>1. m \in {a, b} /\ \A y \in {a, b} : m <= y
  OBVIOUS
<1>2. \A x \in {a, b} : (\A y \in {a, b} : x <= y) => x = m
  OBVIOUS
<1> QED
  BY <1>1, <1>2 DEF Min

LEMMA Limits ==
  ASSUME NEW q, q.limit \in Int, q.offset \in Int
  PROVE  /\ Limited(q) \in 1 .. MaxLimit
         /\ q.limit <= 0 => Limited(q) = DefaultLimit
         /\ Skipped(q) \in Nat /\ q.offset <= Skipped(q)
         /\ q.offset <= 0 => Skipped(q) = 0
BY LimitAssumption DEF Limited, Skipped

\* How many rows a page has, and where they stand.
LEMMA PageOf ==
  ASSUME NEW q, q.offset \in Int, NEW rows, IsFiniteSet(rows), NEW n \in Nat,
         NEW p \in Pages(q, rows, n)
  PROVE  /\ p \subseteq rows /\ IsFiniteSet(p) /\ Cardinality(p) \in 0 .. n
         /\ Cardinality(rows) \in Nat
         /\ p # {} => Skipped(q) < Cardinality(rows)
         /\ Skipped(q) + n <= Cardinality(rows) => Cardinality(p) = n
         /\ Skipped(q) <= Cardinality(rows) /\ Cardinality(rows) <= Skipped(q) + n =>
              Cardinality(p) = Cardinality(rows) - Skipped(q)
         /\ Skipped(q) <= Cardinality(rows) =>
              \E first \in SUBSET (rows \ p) :
                /\ Cardinality(first) = Skipped(q)
                /\ \A x \in first \cup p, y \in rows \ first :
                     x \in first \/ y \notin p => InOrder(q, x, y)
<1> DEFINE size == Cardinality(rows)
           skipped == Min({Skipped(q), size})
           count == Min({n, size - skipped})
<1>1. size \in Nat /\ Skipped(q) \in Nat
  BY FS_CardinalityType DEF Skipped
<1>2. skipped = IF Skipped(q) <= size THEN Skipped(q) ELSE size
  BY <1>1, MinOfTwo
<1>3. count = IF n <= size - skipped THEN n ELSE size - skipped
  BY <1>1, <1>2, MinOfTwo
<1>4. /\ p \in SUBSET rows /\ Cardinality(p) = count
      /\ \E first \in SUBSET (rows \ p) :
           /\ Cardinality(first) = skipped
           /\ \A x \in first \cup p, y \in rows \ first :
                x \in first \/ y \notin p => InOrder(q, x, y)
  BY DEF Pages, kSubset
<1>5. IsFiniteSet(p) /\ (p # {} => Cardinality(p) # 0)
  <2>1. IsFiniteSet(p)
    BY <1>4, FS_Subset
  <2> QED
    BY <2>1, FS_EmptySet
<1>6. count \in 0 .. n
  BY <1>1, <1>2, <1>3
<1>7. p # {} => Skipped(q) < size
  BY <1>1, <1>2, <1>3, <1>4, <1>5
<1>8. /\ Skipped(q) + n <= size => count = n
      /\ Skipped(q) <= size /\ size <= Skipped(q) + n => count = size - Skipped(q)
  BY <1>1, <1>2, <1>3
<1>9. Skipped(q) <= size => skipped = Skipped(q)
  BY <1>2
<1> QED
  BY <1>1, <1>4, <1>5, <1>6, <1>7, <1>8, <1>9

\* A page that was read to its end, and one whose connection broke.
LEMMA ReadPages ==
  ASSUME NEW q, q.limit \in Int, q.offset \in Int, NEW rows, NEW x \in Reads(q, rows)
  PROVE  /\ x.broke \in BOOLEAN
         /\ \E n \in Nat : n <= MaxLimit /\ x.page \in Pages(q, rows, n)
         /\ ~x.broke => x.page \in Pages(q, rows, Limited(q))
<1>1. Limited(q) \in Nat /\ Limited(q) <= MaxLimit
  BY Limits, LimitAssumption
<1>2. CASE \E p \in Pages(q, rows, Limited(q)) : x = [page |-> p, broke |-> FALSE]
  BY <1>1, <1>2
<1>3. CASE \E p \in UNION {Pages(q, rows, n) : n \in 0 .. Limited(q)} :
             x = [page |-> p, broke |-> TRUE]
  <2>1. PICK n \in 0 .. Limited(q) : \E p \in Pages(q, rows, n) : x = [page |-> p, broke |-> TRUE]
    BY <1>3
  <2>2. n \in Nat /\ n <= MaxLimit
    BY <1>1, LimitAssumption
  <2> QED
    BY <2>1, <2>2
<1> QED
  BY <1>2, <1>3 DEF Reads

\* The rows of a table are no more than the ids there can be.
LEMMA RowsBounded ==
  ASSUME RowsKept, NEW t \in Tables, NEW rows \in SUBSET table[t]
  PROVE  /\ IsFiniteSet(rows) /\ IsFiniteSet(Ids(Pool[t]))
         /\ Cardinality(rows) \in Nat
         /\ Cardinality(rows) <= Cardinality(Ids(Pool[t]))
<1>1. IsFiniteSet(Pool[t]) /\ rows \subseteq Pool[t]
  BY RowAssumption DEF RowsKept
<1>2. IsFiniteSet(rows)
  BY <1>1, FS_Subset
<1>3. IsFiniteSet(Ids(Pool[t]))
  <2> DEFINE f == [x \in Pool[t] |-> x.id]
  <2>1. f \in Surjection(Pool[t], Ids(Pool[t]))
    BY DEF Surjection, Ids
  <2> QED
    BY <1>1, <2>1, FS_Surjection
<1>4. Cardinality(rows) <= Cardinality(Ids(Pool[t]))
  <2> DEFINE f == [x \in rows |-> x.id]
  <2>1. f \in [rows -> Ids(Pool[t])]
    BY <1>1 DEF Ids
  <2>2. \A x, y \in rows : f[x] = f[y] => x = y
    BY DEF RowsKept
  <2>3. f \in Injection(rows, Ids(Pool[t]))
    BY <2>1, <2>2 DEF Injection, IsInjective
  <2> QED
    BY <1>3, <2>3, FS_Injection
<1> QED
  BY <1>2, <1>3, <1>4, FS_CardinalityType

-----------------------------------------------------------------------------
(* What a query does                                                       *)

Querying(r) ==
  \/ Users(r) \/ Sessions(r) \/ Bans(r) \/ Roles(r) \/ Permissions(r)
  \/ MyUser(r) \/ MySessions(r) \/ QueryFails(r)

\* r is answered a, with the rows p of those it saw, over a connection that
\* broke or not.
Answered(r, a, p, rows, b) ==
  /\ pc[r] = "query"
  /\ Answer(r, a, p)
  /\ broke' = [broke EXCEPT ![r] = broke'[r]]
  /\ broke'[r] \in BOOLEAN /\ (~broke'[r] => ~broke[r] /\ ~b)
  /\ Saw(r, rows)

LEMMA RefuseAnswers ==
  ASSUME ListInv, NEW r \in Requests, NEW a, NEW rows, pc[r] = "query",
         Refuse(r, a), Saw(r, rows)
  PROVE  Answered(r, a, {}, rows, FALSE)
BY DEF ListInv, Shaped, TypeOK, Refuse, Answered

LEMMA ReadAnswers ==
  ASSUME ListInv, NEW r \in Requests, NEW a, NEW rows, pc[r] = "query",
         NEW q, q.limit \in Int, q.offset \in Int, NEW some, NEW x \in Reads(q, some),
         AnswerRead(r, a, x), Saw(r, rows)
  PROVE  Answered(r, a, x.page, rows, x.broke)
<1>1. x.broke \in BOOLEAN
  BY ReadPages
<1>2. /\ broke' = [broke EXCEPT ![r] = broke[r] \/ x.broke]
      /\ broke[r] \in BOOLEAN
  BY DEF AnswerRead, ListInv, TypeOK
<1>3. broke'[r] = (broke[r] \/ x.broke)
  BY <1>2 DEF ListInv, Shaped
<1> QED
  BY <1>1, <1>2, <1>3 DEF AnswerRead, Answered

\* The rows read are some of those of the table, no more than a page takes,
\* and what came before them was not all.
Shown(r, p, t) ==
  /\ p \subseteq table[t] /\ IsFiniteSet(p) /\ Cardinality(p) \in 0 .. MaxLimit
  /\ in[r].op \in Tables /\ p # {} =>
       t = in[r].op /\ Skipped(in[r]) < Cardinality(Ids(Pool[t]))

LEMMA ReadShows ==
  ASSUME ListInv, NEW r \in Requests, NEW t \in Tables,
         NEW q, q.limit \in Int, q.offset \in Int,
         in[r].op \in Tables => t = in[r].op /\ q = in[r],
         NEW rows \in SUBSET table[t], NEW x \in Reads(q, rows)
  PROVE  Shown(r, x.page, t)
<1>1. /\ IsFiniteSet(rows) /\ Cardinality(rows) <= Cardinality(Ids(Pool[t]))
      /\ Cardinality(rows) \in Nat /\ Cardinality(Ids(Pool[t])) \in Nat
  BY RowsBounded, FS_CardinalityType DEF ListInv
<1>2. PICK n \in Nat : n <= MaxLimit /\ x.page \in Pages(q, rows, n)
  BY ReadPages
<1>3. /\ x.page \subseteq rows /\ IsFiniteSet(x.page) /\ Cardinality(x.page) \in 0 .. n
      /\ x.page # {} => Skipped(q) < Cardinality(rows)
  BY <1>1, <1>2, PageOf
<1>4. Skipped(q) \in Nat /\ MaxLimit \in Nat
  BY Limits, LimitAssumption
<1> QED
  BY <1>1, <1>2, <1>3, <1>4 DEF Shown

LEMMA NothingShown ==
  ASSUME ListInv, NEW r \in Requests, NEW t
  PROVE  Shown(r, {}, t)
BY FS_EmptySet, LimitAssumption DEF Shown

\* What every query does.
Effect(r) ==
  \E a \in {"ok", "validation", "not_found", "internal", "panic"},
     t \in Tables, b \in BOOLEAN : \E p, rows :
    /\ Answered(r, a, p, rows, b) /\ Shown(r, p, t) /\ p \subseteq rows
    /\ a = "panic" => session[r] = None

LEMMA QueryEffect ==
  ASSUME ListInv, NEW r \in Requests, Querying(r)
  PROVE  Effect(r)
<1>1. pc[r] = "query"
  BY DEF Querying, Users, Sessions, Bans, Roles, Permissions, Named, MyUser,
         MySessions, QueryFails, Running
<1>2. IsQuery(in[r])
  BY <1>1 DEF ListInv, Asked
<1>3. in[r].limit \in Int /\ in[r].offset \in Int
  BY <1>2 DEF IsQuery
<1>4. ASSUME NEW a \in {"validation", "internal", "panic"}, NEW t \in Tables, NEW rows,
             Refuse(r, a), Saw(r, rows), a = "panic" => session[r] = None
      PROVE  Effect(r)
  BY <1>1, <1>4, RefuseAnswers, NothingShown DEF Effect
<1>5. ASSUME NEW a \in {"ok", "not_found", "internal"}, NEW t \in Tables,
             NEW q, q.limit \in Int, q.offset \in Int,
             in[r].op \in Tables => t = in[r].op /\ q = in[r],
             NEW rows \in SUBSET table[t], NEW x \in Reads(q, rows),
             AnswerRead(r, a, x), Saw(r, table[t])
      PROVE  Effect(r)
  <2>1. Answered(r, a, x.page, table[t], x.broke)
    BY <1>1, <1>5, ReadAnswers
  <2>2. Shown(r, x.page, t) /\ x.broke \in BOOLEAN
    BY <1>5, ReadShows, ReadPages
  <2> QED
    BY <2>1, <2>2 DEF Shown, Effect
<1>6. CASE Users(r)
  <2>1. CASE Bad \in {in[r].id, in[r].sort}
    BY <1>4, <1>6, <2>1 DEF Users, Tables
  <2>2. CASE Bad \notin {in[r].id, in[r].sort}
    <3>1. PICK x \in Reads(in[r], MatchingUsers(in[r], table["users"])) :
            AnswerRead(r, IF Found(in[r].id, x.page) THEN "ok" ELSE "not_found", x)
      BY <1>6, <2>2 DEF Users
    <3>2. MatchingUsers(in[r], table["users"]) \in SUBSET table["users"]
      BY DEF MatchingUsers
    <3>3. in[r].op = "users" /\ Saw(r, table["users"]) /\ "users" \in Tables
      BY <1>6 DEF Users, Running, Tables
    <3> QED
      BY <1>3, <1>5, <3>1, <3>2, <3>3
  <2> QED
    BY <2>1, <2>2
<1>7. CASE Sessions(r)
  <2>1. CASE Bad \in {in[r].id, in[r].user}
    BY <1>4, <1>7, <2>1 DEF Sessions, Tables
  <2>2. CASE Bad \notin {in[r].id, in[r].user}
    <3>1. PICK x \in Reads(in[r], MatchingSessions(in[r], time[r], table["sessions"])) :
            AnswerRead(r, IF Found(in[r].id, x.page) THEN "ok" ELSE "internal", x)
      BY <1>7, <2>2 DEF Sessions
    <3>2. MatchingSessions(in[r], time[r], table["sessions"]) \in SUBSET table["sessions"]
      BY DEF MatchingSessions
    <3>3. in[r].op = "sessions" /\ Saw(r, table["sessions"]) /\ "sessions" \in Tables
      BY <1>7 DEF Sessions, Running, Tables
    <3> QED
      BY <1>3, <1>5, <3>1, <3>2, <3>3
  <2> QED
    BY <2>1, <2>2
<1>8. CASE Bans(r)
  <2>1. CASE in[r].user = Bad
    BY <1>4, <1>8, <2>1 DEF Bans, Tables
  <2>2. CASE in[r].user # Bad
    <3>1. PICK x \in Reads(in[r], MatchingBans(in[r], time[r], table["bans"])) :
            AnswerRead(r, IF Found(in[r].user, x.page) THEN "ok" ELSE "not_found", x)
      BY <1>8, <2>2 DEF Bans
    <3>2. MatchingBans(in[r], time[r], table["bans"]) \in SUBSET table["bans"]
      BY DEF MatchingBans
    <3>3. in[r].op = "bans" /\ Saw(r, table["bans"]) /\ "bans" \in Tables
      BY <1>8 DEF Bans, Running, Tables
    <3> QED
      BY <1>3, <1>5, <3>1, <3>2, <3>3
  <2> QED
    BY <2>1, <2>2
<1>9. ASSUME NEW t \in {"roles", "permissions"}, Named(r, t) PROVE Effect(r)
  <2>1. in[r].op = t /\ Saw(r, table[t]) /\ t \in Tables
    BY <1>9 DEF Named, Running, Tables
  <2>2. CASE Refuse(r, "validation") \/ Refuse(r, "internal")
    BY <1>4, <2>1, <2>2
  <2>3. CASE ~(Refuse(r, "validation") \/ Refuse(r, "internal"))
    <3>1. PICK x \in Reads(in[r], {y \in table[t] : in[r].id \in {None, y.id}}) :
            AnswerRead(r, IF Found(in[r].id, x.page) THEN "ok" ELSE "not_found", x)
      BY <1>9, <2>3 DEF Named
    <3>2. {y \in table[t] : in[r].id \in {None, y.id}} \in SUBSET table[t]
      OBVIOUS
    <3> QED
      BY <1>3, <1>5, <2>1, <3>1, <3>2
  <2> QED
    BY <2>2, <2>3
<1>10. CASE MyUser(r)
  <2>1. /\ in[r].op \notin Tables /\ Saw(r, table["users"]) /\ "users" \in Tables
    BY <1>10 DEF MyUser, Running, Tables
  <2>2. CASE session[r] = None
    BY <1>4, <1>10, <2>1, <2>2 DEF MyUser
  <2>3. CASE session[r] # None
    <3> DEFINE q == [in[r] EXCEPT !.id = session[r].user]
    <3>1. q.limit \in Int /\ q.offset \in Int /\ q.id = session[r].user
      BY <1>2, <1>3 DEF IsQuery
    <3>2. q.id # None
      BY <2>3, <3>1, RowAssumption DEF ListInv, TypeOK
    <3>3. PICK x \in Reads(q, MatchingUsers(q, table["users"])) :
            \/ AnswerRead(r, "not_found", x)
            \/ /\ Found(q.id, x.page)
               /\ AnswerRead(r, IF x.page = {} THEN "panic" ELSE "ok", x)
      BY <1>10, <2>3 DEF MyUser
    <3>4. AnswerRead(r, "not_found", x) \/ AnswerRead(r, "ok", x)
      BY <3>2, <3>3 DEF Found
    <3>5. MatchingUsers(q, table["users"]) \in SUBSET table["users"]
      BY DEF MatchingUsers
    <3> QED
      BY <1>5, <2>1, <3>1, <3>3, <3>4, <3>5
  <2> QED
    BY <2>2, <2>3
<1>11. CASE MySessions(r)
  <2>1. /\ in[r].op \notin Tables /\ Saw(r, table["sessions"]) /\ "sessions" \in Tables
    BY <1>11 DEF MySessions, Running, Tables
  <2>2. CASE session[r] = None
    BY <1>4, <1>11, <2>1, <2>2 DEF MySessions
  <2>3. CASE session[r] # None
    <3> DEFINE q == [in[r] EXCEPT !.user = session[r].user]
    <3>1. q.limit \in Int /\ q.offset \in Int
      BY <1>2, <1>3 DEF IsQuery
    <3>2. PICK x \in Reads(q, MatchingSessions(q, time[r], table["sessions"])) :
            AnswerRead(r, "ok", x)
      BY <1>11, <2>3 DEF MySessions
    <3>3. MatchingSessions(q, time[r], table["sessions"]) \in SUBSET table["sessions"]
      BY DEF MatchingSessions
    <3> QED
      BY <1>5, <2>1, <3>1, <3>2, <3>3
  <2> QED
    BY <2>2, <2>3
<1>12. CASE QueryFails(r)
  BY <1>4, <1>12 DEF QueryFails, Tables
<1> QED
  BY <1>6, <1>7, <1>8, <1>9, <1>10, <1>11, <1>12
  DEF Querying, Roles, Permissions

-----------------------------------------------------------------------------
(* The rows                                                                *)

LEMMA InitRows == Init => RowsKept
<1> SUFFICES ASSUME Init PROVE RowsKept
  OBVIOUS
<1>1. table = Seed
  BY DEF Init
<1>2. ASSUME NEW x \in Pool["sessions"]
      PROVE  Cardinality(SessionsOf(x.user, Seed["sessions"])) <= MaxSessions
  <2>1. CASE SessionsOf(x.user, Seed["sessions"]) = {}
    BY <2>1, FS_EmptySet, LimitAssumption
  <2>2. CASE SessionsOf(x.user, Seed["sessions"]) # {}
    <3>1. PICK s \in Seed["sessions"] : s.user = x.user
      BY <2>2 DEF SessionsOf
    <3> QED
      BY <3>1, RowAssumption
  <2> QED
    BY <2>1, <2>2
<1> QED
  BY <1>1, <1>2, RowAssumption DEF RowsKept

\* Few enough sessions of everyone, in rows.
Few(rows) ==
  \A x \in Pool["sessions"] : Cardinality(SessionsOf(x.user, rows)) <= MaxSessions

LEMMA FewerSessions ==
  ASSUME RowsKept, NEW rows \in SUBSET table["sessions"]
  PROVE  Few(rows)
<1> SUFFICES ASSUME NEW x \in Pool["sessions"]
             PROVE  Cardinality(SessionsOf(x.user, rows)) <= MaxSessions
  BY DEF Few
<1> DEFINE old == SessionsOf(x.user, table["sessions"])
           new == SessionsOf(x.user, rows)
<1>1. IsFiniteSet(old)
  BY RowsBounded DEF SessionsOf, Tables
<1>2. new \in SUBSET old
  BY DEF SessionsOf
<1>3. Cardinality(new) <= Cardinality(old) /\ Cardinality(old) \in Nat /\ Cardinality(new) \in Nat
  BY <1>1, <1>2, FS_Subset, FS_CardinalityType
<1>4. Cardinality(old) <= MaxSessions
  BY DEF RowsKept
<1> QED
  BY <1>3, <1>4, LimitAssumption

LEMMA OneMore ==
  ASSUME NEW S, NEW x, IsFiniteSet(S)
  PROVE  /\ Cardinality(S \cup {x}) \in Nat
         /\ Cardinality(S \cup {x}) <= Cardinality(S) + 1
         /\ x \notin S => Cardinality(S \cup {x}) = Cardinality(S) + 1
<1>1. /\ IsFiniteSet(S \cup {x})
      /\ Cardinality(S \cup {x}) = IF x \in S THEN Cardinality(S) ELSE Cardinality(S) + 1
  BY FS_AddElement
<1>2. Cardinality(S) \in Nat /\ Cardinality(S \cup {x}) \in Nat
  BY <1>1, FS_CardinalityType
<1> QED
  BY <1>1, <1>2

LEMMA OneMoreSession ==
  ASSUME RowsKept, NEW y \in Pool["sessions"],
         Cardinality(SessionsOf(y.user, table["sessions"])) < MaxSessions
  PROVE  Few(table["sessions"] \cup {y})
<1> SUFFICES ASSUME NEW x \in Pool["sessions"]
             PROVE  Cardinality(SessionsOf(x.user, table["sessions"] \cup {y})) <= MaxSessions
  BY DEF Few
<1> DEFINE old == SessionsOf(x.user, table["sessions"])
<1>1. IsFiniteSet(old)
  BY RowsBounded DEF SessionsOf, Tables
<1>2. Cardinality(old) \in Nat /\ Cardinality(old) <= MaxSessions
  BY <1>1, FS_CardinalityType DEF RowsKept
<1>3. CASE x.user = y.user
  <2>1. SessionsOf(x.user, table["sessions"] \cup {y}) = old \cup {y}
    BY <1>3 DEF SessionsOf
  <2> DEFINE n == Cardinality(old)
             m == Cardinality(old \cup {y})
  <2>2. m \in Nat /\ m <= n + 1
    BY <1>1, OneMore
  <2>3. n \in Nat /\ n < MaxSessions
    BY <1>2, <1>3
  <2>4. m = Cardinality(SessionsOf(x.user, table["sessions"] \cup {y}))
    BY <2>1
  <2> HIDE DEF n, m
  <2>5. m <= MaxSessions
    BY <2>2, <2>3, LimitAssumption
  <2> QED
    BY <2>4, <2>5
<1>4. CASE x.user # y.user
  <2>1. SessionsOf(x.user, table["sessions"] \cup {y}) = old
    BY <1>4 DEF SessionsOf
  <2> QED
    BY <1>2, <2>1
<1> QED
  BY <1>3, <1>4

\* A session that changes stays with its user.
LEMMA ChangedSession ==
  ASSUME RowsKept, NEW s \in table["sessions"], NEW y \in Pool["sessions"],
         s.id = y.id, s # y
  PROVE  Few((table["sessions"] \ {s}) \cup {y})
<1> DEFINE rows == (table["sessions"] \ {s}) \cup {y}
<1> SUFFICES ASSUME NEW x \in Pool["sessions"]
             PROVE  Cardinality(SessionsOf(x.user, rows)) <= MaxSessions
  BY DEF Few
<1> DEFINE old == SessionsOf(x.user, table["sessions"])
<1>1. IsFiniteSet(old)
  BY RowsBounded DEF SessionsOf, Tables
<1>2. Cardinality(old) \in Nat /\ Cardinality(old) <= MaxSessions
  BY <1>1, FS_CardinalityType DEF RowsKept
<1>3. s.user = y.user /\ y \notin table["sessions"]
  BY RowAssumption DEF RowsKept, Tables
<1>4. CASE x.user = y.user
  <2>1. SessionsOf(x.user, rows) = (old \ {s}) \cup {y} /\ s \in old /\ y \notin old
    BY <1>3, <1>4 DEF SessionsOf
  <2>2. Cardinality(old \ {s}) = Cardinality(old) - 1 /\ IsFiniteSet(old \ {s})
    BY <1>1, <2>1, FS_RemoveElement
  <2>3. Cardinality((old \ {s}) \cup {y}) = Cardinality(old)
    <3> DEFINE less == old \ {s}
    <3>1. IsFiniteSet(less) /\ y \notin less /\ Cardinality(less) = Cardinality(old) - 1
      BY <2>1, <2>2
    <3> HIDE DEF less
    <3>2. Cardinality(less \cup {y}) = Cardinality(less) + 1
      BY <3>1, OneMore
    <3>3. Cardinality(less \cup {y}) = Cardinality(old)
      BY <1>2, <3>1, <3>2
    <3> QED
      BY <3>3 DEF less
  <2> QED
    BY <1>2, <2>1, <2>3
<1>5. CASE x.user # y.user
  <2>1. SessionsOf(x.user, rows) = old
    BY <1>3, <1>5 DEF SessionsOf
  <2> QED
    BY <1>2, <2>1
<1> QED
  BY <1>4, <1>5

Changes(t) == Insert(t) \/ Change(t) \/ Delete(t)

LEMMA NextRows ==
  ASSUME RowsKept, NEW t \in Tables, Changes(t)
  PROVE  RowsKept' /\ Write(table')
<1> USE DEF Tables
<1>1. CASE Insert(t)
  <2>1. PICK x \in Pool[t] :
          /\ x.id \notin Ids(table[t])
          /\ t = "sessions" => Cardinality(SessionsOf(x.user, table[t])) < MaxSessions
          /\ Write([table EXCEPT ![t] = @ \cup {x}])
    BY <1>1 DEF Insert
  <2>2. table' = [table EXCEPT ![t] = @ \cup {x}] /\ Write(table')
    BY <2>1 DEF Write
  <2>3. Few(table'["sessions"])
    BY <2>1, <2>2, OneMoreSession DEF RowsKept, Few
  <2>4. /\ table' \in [Tables -> SUBSET UNION {Pool[s] : s \in Tables}]
        /\ \A s \in Tables : table'[s] \subseteq table[s] \cup (IF s = t THEN {x} ELSE {})
    BY <2>1, <2>2 DEF RowsKept
  <2>5. \A s \in Tables : table'[s] \subseteq Pool[s]
    BY <2>4 DEF RowsKept
  <2>6. \A s \in Tables : \A y, z \in table'[s] : y.id = z.id => y = z
    BY <2>1, <2>4 DEF RowsKept, Ids
  <2> QED
    BY <2>2, <2>3, <2>4, <2>5, <2>6 DEF RowsKept, Few
<1>2. CASE Change(t)
  <2>1. PICK x \in table[t], y \in Pool[t] :
          x # y /\ x.id = y.id /\ Write([table EXCEPT ![t] = (@ \ {x}) \cup {y}])
    BY <1>2 DEF Change
  <2>2. table' = [table EXCEPT ![t] = (@ \ {x}) \cup {y}] /\ Write(table')
    BY <2>1 DEF Write
  <2>3. Few(table'["sessions"])
    <3>1. CASE t = "sessions"
      <4>1. table'["sessions"] = (table["sessions"] \ {x}) \cup {y}
        BY <2>2, <3>1 DEF RowsKept
      <4> QED
        BY <2>1, <3>1, <4>1, ChangedSession
    <3>2. CASE t # "sessions"
      <4>1. table'["sessions"] = table["sessions"]
        BY <2>2, <3>2 DEF RowsKept
      <4> QED
        BY <4>1, FewerSessions
    <3> QED
      BY <3>1, <3>2
  <2>4. /\ table' \in [Tables -> SUBSET UNION {Pool[s] : s \in Tables}]
        /\ \A s \in Tables :
             table'[s] = IF s = t THEN (table[s] \ {x}) \cup {y} ELSE table[s]
    <3> DEFINE new == (table[t] \ {x}) \cup {y}
    <3>1. new \in SUBSET UNION {Pool[s] : s \in Tables}
      BY DEF RowsKept
    <3>2. table' = [table EXCEPT ![t] = new]
      BY <2>2
    <3> HIDE DEF new
    <3>3. /\ table' \in [Tables -> SUBSET UNION {Pool[s] : s \in Tables}]
          /\ \A s \in Tables : table'[s] = IF s = t THEN new ELSE table[s]
      BY <3>1, <3>2 DEF RowsKept
    <3> QED
      BY <3>3 DEF new
  <2>5. \A s \in Tables : table'[s] \subseteq Pool[s]
    BY <2>4 DEF RowsKept
  <2>6. \A s \in Tables : \A v, w \in table'[s] : v.id = w.id => v = w
    BY <2>1, <2>4 DEF RowsKept
  <2> QED
    BY <2>2, <2>3, <2>4, <2>5, <2>6 DEF RowsKept, Few
<1>3. CASE Delete(t)
  <2>1. PICK new : /\ Write(new) /\ new \in [Tables -> SUBSET UNION {Pool[s] : s \in Tables}]
                   /\ \A s \in Tables : new[s] \subseteq table[s]
    <3>1. PICK x \in table[t] :
            Write([[table EXCEPT !["sessions"] =
                                   {y \in table["sessions"] : t # "users" \/ y.user # x.id},
                                 !["bans"] =
                                   {y \in table["bans"] : t # "users" \/ y.user # x.id}]
                   EXCEPT ![t] = table[t] \ {x}])
      BY <1>3 DEF Delete
    <3> DEFINE less == [table EXCEPT !["sessions"] =
                          {y \in table["sessions"] : t # "users" \/ y.user # x.id},
                                     !["bans"] =
                          {y \in table["bans"] : t # "users" \/ y.user # x.id}]
    <3>2. /\ less \in [Tables -> SUBSET UNION {Pool[s] : s \in Tables}]
          /\ \A s \in Tables : less[s] \subseteq table[s]
      BY DEF RowsKept
    <3>3. Write([less EXCEPT ![t] = table[t] \ {x}])
      BY <3>1
    <3> HIDE DEF less
    <3>4. /\ [less EXCEPT ![t] = table[t] \ {x}]
               \in [Tables -> SUBSET UNION {Pool[s] : s \in Tables}]
          /\ \A s \in Tables : [less EXCEPT ![t] = table[t] \ {x}][s] \subseteq table[s]
      BY <3>2 DEF RowsKept
    <3> QED
      BY <3>3, <3>4
  <2>2. table' = new
    BY <2>1 DEF Write
  <2>3. Few(table'["sessions"])
    BY <2>1, <2>2, FewerSessions
  <2> QED
    BY <2>1, <2>2, <2>3 DEF RowsKept, Few
<1> QED
  BY <1>1, <1>2, <1>3 DEF Changes

-----------------------------------------------------------------------------
(* The invariant                                                           *)

LEMMA InitList == Init => ListInv
<1> SUFFICES ASSUME Init PROVE ListInv
  OBVIOUS
<1>1. Shaped /\ \A r \in Requests : Asked(r)
  BY FS_EmptySet DEF Init, Shaped, Asked
<1>2. TypeOK
  BY FS_EmptySet, LimitAssumption, RowAssumption DEF Init, TypeOK
<1> QED
  BY <1>1, <1>2, InitRows DEF ListInv

LEMMA AskKeeps ==
  ASSUME ListInv, NEW r \in Requests, Ask(r)
  PROVE  ListInv'
<1>1. PICK q \in Queries[r] : in' = [in EXCEPT ![r] = q]
  BY DEF Ask
<1>2. PICK s \in {x \in table["sessions"] : x.expires > now} \cup {None} :
        (s # None => in'[r].op \in Mine) /\ session' = [session EXCEPT ![r] = s]
  BY DEF Ask
<1>3. IsQuery(q) /\ in'[r] = q
  BY <1>1, QueryAssumption DEF ListInv, Shaped
<1>4. s # None => s \in Pool["sessions"] /\ s.expires > now
  BY <1>2 DEF ListInv, RowsKept, Tables
<1>5. Shaped'
  BY <1>1, <1>2 DEF Ask, ListInv, Shaped
<1>6. RowsKept'
  BY DEF Ask, ListInv, RowsKept
<1>7. TypeOK'
  BY <1>2, <1>4 DEF Ask, ListInv, Shaped, TypeOK
<1>8. ASSUME NEW c \in Requests PROVE Asked(c)'
  <2>1. CASE c = r
    BY <1>1, <1>2, <1>3, <1>4, <2>1 DEF Ask, ListInv, Shaped, Asked
  <2>2. CASE c # r
    BY <1>1, <1>2, <2>2 DEF Ask, ListInv, Shaped, Asked
  <2> QED
    BY <2>1, <2>2
<1> QED
  BY <1>5, <1>6, <1>7, <1>8 DEF ListInv

LEMMA QueryKeeps ==
  ASSUME ListInv, NEW r \in Requests, Querying(r)
  PROVE  ListInv'
<1>1. PICK a \in {"ok", "validation", "not_found", "internal", "panic"}, t \in Tables,
           b \in BOOLEAN : \E p, rows :
        /\ Answered(r, a, p, rows, b) /\ Shown(r, p, t) /\ p \subseteq rows
        /\ a = "panic" => session[r] = None
  BY QueryEffect DEF Effect
<1>2. PICK p, rows :
        Answered(r, a, p, rows, b) /\ Shown(r, p, t) /\ p \subseteq rows
  BY <1>1
<1>3. Shaped'
  BY <1>2 DEF Answered, Answer, Saw, ListInv, Shaped
<1>4. RowsKept'
  BY <1>2 DEF Answered, Saw, ListInv, RowsKept
<1>5. TypeOK'
  <2>1. p \subseteq rows /\ Cardinality(p) <= MaxLimit
    BY <1>2, LimitAssumption DEF Shown
  <2>2. broke' = [broke EXCEPT ![r] = broke'[r]] /\ broke'[r] \in BOOLEAN
    BY <1>2 DEF Answered
  <2>3. \A c \in Requests : broke'[c] \in BOOLEAN
    BY <2>2 DEF ListInv, Shaped, TypeOK
  <2> QED
    BY <1>2, <2>1, <2>3 DEF Answered, Answer, Saw, ListInv, Shaped, TypeOK
<1>6. ASSUME NEW c \in Requests PROVE Asked(c)'
  <2>1. CASE c = r
    <3>1. seen'[r] \subseteq Usernames(Pool["users"])
      <4>1. CASE in[r].op # "users"
        BY <1>2, <4>1 DEF Answered, Answer, ListInv, Shaped, Asked
      <4>2. CASE in[r].op = "users"
        <5>1. p \subseteq Pool["users"]
          BY <1>2, <4>2 DEF Shown, ListInv, RowsKept, Tables
        <5> QED
          BY <1>2, <4>2, <5>1 DEF Answered, Answer, ListInv, Shaped, Asked, Usernames
      <4> QED
        BY <4>1, <4>2
    <3>2. IsFiniteSet(page'[r])
      BY <1>2 DEF Shown, Answered, Answer, ListInv, Shaped
    <3> QED
      BY <1>2, <2>1, <3>1, <3>2 DEF Answered, Answer, Saw, ListInv, Shaped, Asked
  <2>2. CASE c # r
    BY <1>2, <2>2 DEF Answered, Answer, Saw, ListInv, Shaped, Asked
  <2> QED
    BY <2>1, <2>2
<1> QED
  BY <1>3, <1>4, <1>5, <1>6 DEF ListInv

LEMMA NextPageKeeps ==
  ASSUME ListInv, NEW r \in Requests, NextPage(r)
  PROVE  ListInv'
<1> DEFINE q == [in[r] EXCEPT !.offset = Skipped(in[r]) + Cardinality(page[r])]
<1>1. IsQuery(in[r]) /\ in[r].op \in Tables /\ pc[r] = "answered"
  BY DEF NextPage, MorePages, ListInv, Asked
<1>2. Cardinality(page[r]) \in Int
  BY FS_CardinalityType DEF ListInv, Asked
<1>3. in' = [in EXCEPT ![r] = q]
  BY DEF NextPage, Skipped, ListInv, Shaped
<1>4. IsQuery(q)
  BY <1>1, <1>2, Limits DEF IsQuery, Tables, Mine
<1>5. session[r] = None
  BY <1>1 DEF ListInv, Asked, Tables, Mine
<1> HIDE DEF q
<1>6. Shaped'
  BY <1>3 DEF NextPage, ListInv, Shaped
<1>7. RowsKept'
  BY DEF NextPage, ListInv, RowsKept
<1>8. TypeOK'
  BY DEF NextPage, ListInv, Shaped, TypeOK
<1>9. ASSUME NEW c \in Requests PROVE Asked(c)'
  <2>1. CASE c = r
    BY <1>1, <1>3, <1>4, <1>5, <2>1 DEF NextPage, ListInv, Shaped, Asked
  <2>2. CASE c # r
    BY <1>3, <2>2 DEF NextPage, ListInv, Shaped, Asked
  <2> QED
    BY <2>1, <2>2
<1> QED
  BY <1>6, <1>7, <1>8, <1>9 DEF ListInv

LEMMA ChangesKeep ==
  ASSUME ListInv, NEW t \in Tables, Changes(t)
  PROVE  ListInv'
<1>1. RowsKept' /\ Write(table')
  BY NextRows DEF ListInv
<1>2. Shaped'
  <2>1. stayed' = [r \in Requests |-> stayed'[r]]
    BY <1>1 DEF Write
  <2>2. slipped' = [r \in Requests |-> slipped'[r]]
    BY <1>1 DEF Write
  <2> QED
    BY <1>1, <2>1, <2>2 DEF Write, ListInv, Shaped
<1>3. TypeOK'
  <2>1. \A s \in Tables : table'[s] \subseteq Pool[s]
    BY <1>1 DEF RowsKept
  <2>2. writes' \in 0 .. MaxWrites
    BY <1>1, LimitAssumption DEF Write, ListInv, TypeOK
  <2>3. \A r \in Requests : slipped'[r] \in BOOLEAN
    BY <1>1 DEF Write, ListInv, TypeOK
  <2> QED
    BY <1>1, <2>1, <2>2, <2>3 DEF Write, ListInv, TypeOK
<1>4. ASSUME NEW r \in Requests PROVE Asked(r)'
  <2>1. pc[r] = "new" => stayed'[r] = {} /\ ~slipped'[r]
    BY <1>1 DEF Write, ListInv, Asked
  <2> QED
    BY <1>1, <2>1 DEF Write, ListInv, Asked
<1> QED
  BY <1>1, <1>2, <1>3, <1>4 DEF ListInv

\* Who moves: one client, the tables, the clock or nobody.
LEMMA NextCases ==
  ASSUME [Next]_vars
  PROVE  \/ \E r \in Requests : Ask(r) \/ Querying(r) \/ NextPage(r)
         \/ \E t \in Tables : Changes(t)
         \/ Tick \/ UNCHANGED vars
BY DEF Next, Step, Querying, Changes

LEMMA NextList == ListInv /\ [Next]_vars => ListInv'
<1> SUFFICES ASSUME ListInv, [Next]_vars PROVE ListInv'
  OBVIOUS
<1>1. CASE Tick
  BY <1>1, LimitAssumption
  DEF Tick, client, ListInv, Shaped, RowsKept, TypeOK, Asked
<1>2. CASE UNCHANGED vars
  BY <1>2 DEF vars, client, ListInv, Shaped, RowsKept, TypeOK, Asked
<1> QED
  BY <1>1, <1>2, NextCases, AskKeeps, QueryKeeps, NextPageKeeps, ChangesKeep

LEMMA Listed == Spec => []ListInv
BY InitList, NextList, PTL DEF Spec

\* Whatever is asked and changed, every variable has a value the code can give
\* it, and no answer is longer than the maximum.
THEOREM TypesHold == Spec => []TypeOK
BY Listed, PTL DEF ListInv

-----------------------------------------------------------------------------
(* Callers do not panic, and paging ends                                   *)

LEMMA NextPanics ==
  ListInv /\ CallersNeverPanic /\ [Next]_vars => CallersNeverPanic'
<1> SUFFICES ASSUME ListInv, CallersNeverPanic, [Next]_vars PROVE CallersNeverPanic'
  OBVIOUS
<1>1. ASSUME NEW r \in Requests, Ask(r) PROVE CallersNeverPanic'
  BY <1>1 DEF Ask, ListInv, Shaped, Asked, CallersNeverPanic
<1>2. ASSUME NEW r \in Requests, Querying(r) PROVE CallersNeverPanic'
  <2>1. PICK a, p, rows, b :
          Answered(r, a, p, rows, b) /\ (a = "panic" => session[r] = None)
    BY <1>2, QueryEffect DEF Effect
  <2> QED
    BY <2>1 DEF Answered, Answer, Saw, ListInv, Shaped, CallersNeverPanic
<1>3. CASE \E r \in Requests : NextPage(r)
  BY <1>3 DEF NextPage, CallersNeverPanic
<1>4. CASE \E t \in Tables : Changes(t)
  BY <1>4, NextRows DEF Write, ListInv, CallersNeverPanic
<1>5. CASE Tick \/ UNCHANGED vars
  BY <1>5 DEF Tick, vars, client, CallersNeverPanic
<1> QED
  BY <1>1, <1>2, <1>3, <1>4, <1>5, NextCases

\* myUser takes users[0] only when there is one: a key that finds nothing is an
\* error before, even if a broken connection is why.
THEOREM NobodyPanics == Spec => []CallersNeverPanic
<1>1. Init => CallersNeverPanic
  BY DEF Init, CallersNeverPanic
<1> QED
  BY <1>1, Listed, NextPanics, PTL DEF Spec

LEMMA NextFurther == ListInv /\ Further /\ [Next]_vars => Further'
<1> SUFFICES ASSUME ListInv, Further, [Next]_vars PROVE Further'
  OBVIOUS
<1>1. ASSUME NEW r \in Requests, Ask(r) PROVE Further'
  BY <1>1 DEF Ask, ListInv, Shaped, Further, Skipped
<1>2. ASSUME NEW r \in Requests, Querying(r) PROVE Further'
  <2>1. PICK a, p, rows, b, t : Answered(r, a, p, rows, b) /\ Shown(r, p, t)
    BY <1>2, QueryEffect DEF Effect
  <2> QED
    BY <2>1 DEF Answered, Answer, Saw, Shown, ListInv, Shaped, Further, Skipped
<1>3. ASSUME NEW r \in Requests, NextPage(r) PROVE Further'
  BY <1>3 DEF NextPage, ListInv, Shaped, Further, Skipped
<1>4. CASE \E t \in Tables : Changes(t)
  BY <1>4, NextRows DEF Write, ListInv, Further, Skipped
<1>5. CASE Tick \/ UNCHANGED vars
  BY <1>5 DEF Tick, vars, client, Further, Skipped
<1> QED
  BY <1>1, <1>2, <1>3, <1>4, <1>5, NextCases

\* A client that pages through a table comes to an end, however the rows are
\* ordered and change meanwhile.
THEOREM PagingAlwaysEnds == Spec => []PagingEnds
<1>1. Init => Further
  BY DEF Init, Further
<1>2. ListInv /\ Further => PagingEnds
  <2> SUFFICES ASSUME ListInv, Further, NEW r \in Requests,
                      in[r].op \in Tables, MorePages(r)
               PROVE  in[r].offset < Cardinality(Ids(Pool[in[r].op]))
    BY DEF PagingEnds
  <2>1. pc[r] = "answered" /\ page[r] # {}
    BY DEF MorePages
  <2>2. in[r].limit \in Int /\ in[r].offset \in Int
    BY <2>1 DEF ListInv, Asked, IsQuery
  <2>3. Skipped(in[r]) \in Nat /\ in[r].offset <= Skipped(in[r])
    BY <2>2, Limits
  <2>4. Cardinality(Ids(Pool[in[r].op])) \in Nat
    BY RowsBounded, FS_CardinalityType DEF ListInv
  <2>5. Skipped(in[r]) < Cardinality(Ids(Pool[in[r].op]))
    BY <2>1 DEF Further
  <2> QED
    BY <2>2, <2>3, <2>4, <2>5
<1> QED
  BY <1>1, <1>2, Listed, NextFurther, PTL DEF Spec

-----------------------------------------------------------------------------
(* One's own sessions                                                      *)

\* A page takes all the sessions a user can have.
LEMMA AllOnOnePage ==
  ASSUME ListInv, NEW u \in Pool["sessions"], NEW q, q.limit \in Int, q.offset \in Int,
         q.limit <= 0, q.offset <= 0, NEW rows,
         rows \subseteq SessionsOf(u.user, table["sessions"]),
         NEW x \in Reads(q, rows), ~x.broke
  PROVE  x.page = rows
<1> DEFINE all == SessionsOf(u.user, table["sessions"])
<1>1. IsFiniteSet(all) /\ Cardinality(all) \in Nat /\ Cardinality(all) <= MaxSessions
  BY RowsBounded, FS_CardinalityType DEF SessionsOf, Tables, ListInv, RowsKept
<1>2. IsFiniteSet(rows) /\ Cardinality(rows) \in Nat /\ Cardinality(rows) <= Cardinality(all)
  BY <1>1, FS_Subset, FS_CardinalityType
<1>3. Limited(q) = DefaultLimit /\ Skipped(q) = 0
  BY Limits
<1>4. x.page \in Pages(q, rows, DefaultLimit) /\ DefaultLimit \in Nat
  BY <1>3, ReadPages, LimitAssumption
<1>5. /\ x.page \subseteq rows
      /\ Skipped(q) <= Cardinality(rows) /\ Cardinality(rows) <= Skipped(q) + DefaultLimit =>
           Cardinality(x.page) = Cardinality(rows) - Skipped(q)
  BY <1>2, <1>4, PageOf
<1>6. Cardinality(rows) <= DefaultLimit
  BY <1>1, <1>2, LimitAssumption
<1>7. Cardinality(x.page) = Cardinality(rows)
  BY <1>2, <1>3, <1>4, <1>5, <1>6
<1> QED
  BY <1>2, <1>5, <1>7, FS_Subset

LEMMA MySessionsShows ==
  ASSUME ListInv, NEW r \in Requests, MySessions(r), resp'[r] = "ok", ~broke'[r],
         NEW s \in saw'[r], s.id = session[r].id, s.expires >= session[r].expires
  PROVE  s \in page'[r]
<1>1. saw' = [saw EXCEPT ![r] = table["sessions"]] /\ pc[r] = "query"
      /\ in[r].op = "my_sessions"
  BY DEF MySessions, Saw, Running
<1>2. s \in table["sessions"]
  BY <1>1 DEF ListInv, Shaped
<1>3. session[r] # None
  BY DEF MySessions, Refuse, Answer, ListInv, Shaped
<1> DEFINE q == [in[r] EXCEPT !.user = session[r].user]
           rows == MatchingSessions(q, time[r], table["sessions"])
<1>4. /\ IsQuery(in[r]) /\ in[r].id = None /\ ~in[r].expired
      /\ in[r].limit \in Int /\ in[r].offset \in Int
      /\ in[r].limit <= 0 /\ in[r].offset <= 0
  BY <1>1 DEF ListInv, Asked, IsQuery, Mine
<1>5. /\ q.limit \in Int /\ q.offset \in Int /\ q.limit <= 0 /\ q.offset <= 0
      /\ q.id = None /\ q.user = session[r].user /\ ~q.expired
  BY <1>4 DEF IsQuery
<1>6. session[r] \in Pool["sessions"] /\ s \in Pool["sessions"]
  BY <1>2, <1>3 DEF ListInv, TypeOK, RowsKept, Tables
<1>7. s.user = session[r].user /\ session[r].user # None
  BY <1>6, RowAssumption
<1>8. s.expires > time[r]
  <2>1. session[r].expires > time[r] /\ time[r] \in Int
    BY <1>3 DEF ListInv, Asked, TypeOK
  <2>2. s.expires \in Int /\ session[r].expires \in Int
    BY <1>6, RowAssumption
  <2> QED
    BY <2>1, <2>2
<1>9. s \in rows /\ rows \subseteq SessionsOf(session[r].user, table["sessions"])
  BY <1>2, <1>5, <1>7, <1>8 DEF MatchingSessions, Unexpired, SessionsOf
<1>10. PICK x \in Reads(q, rows) : AnswerRead(r, "ok", x)
  BY <1>3 DEF MySessions
<1> HIDE DEF q, rows
<1>11. ~x.broke /\ page'[r] = x.page
  <2>1. Answered(r, "ok", x.page, table["sessions"], x.broke)
    BY <1>1, <1>5, <1>10, ReadAnswers DEF MySessions
  <2>2. x.broke \in BOOLEAN
    BY <1>5, <1>10, ReadPages
  <2> QED
    BY <2>1, <2>2 DEF Answered, Answer, ListInv, Shaped
<1>12. x.page = rows
  BY <1>5, <1>6, <1>9, <1>10, <1>11, AllOnOnePage
<1> QED
  BY <1>9, <1>11, <1>12

LEMMA NextOwn ==
  ListInv /\ OwnSessionListed /\ [Next]_vars => OwnSessionListed'
<1> SUFFICES ASSUME ListInv, OwnSessionListed, [Next]_vars PROVE OwnSessionListed'
  OBVIOUS
<1>1. ASSUME NEW r \in Requests, Ask(r) PROVE OwnSessionListed'
  BY <1>1 DEF Ask, ListInv, Shaped, OwnSessionListed
<1>2. ASSUME NEW r \in Requests, Querying(r) PROVE OwnSessionListed'
  <2>1. PICK a, p, rows, b : Answered(r, a, p, rows, b)
    BY <1>2, QueryEffect DEF Effect
  <2>2. ASSUME NEW c \in Requests \ {r}
        PROVE  /\ in'[c] = in[c] /\ pc'[c] = pc[c] /\ resp'[c] = resp[c]
               /\ broke'[c] = broke[c] /\ saw'[c] = saw[c] /\ page'[c] = page[c]
               /\ session'[c] = session[c]
    BY <2>1 DEF Answered, Answer, Saw, ListInv, Shaped
  <2>3. CASE MySessions(r)
    <3>1. UNCHANGED <<in, session>>
      BY <2>3 DEF MySessions, Saw
    <3> QED
      BY <2>2, <2>3, <3>1, MySessionsShows DEF OwnSessionListed
  <2>4. CASE ~MySessions(r)
    <3>1. in[r].op # "my_sessions" \/ resp'[r] = "internal"
      BY <1>2, <2>4
      DEF Querying, Users, Sessions, Bans, Roles, Permissions, Named, MyUser,
          QueryFails, Running, Refuse, Answer, ListInv, Shaped
    <3>2. UNCHANGED <<in, session>>
      BY <2>1 DEF Answered, Saw
    <3> QED
      BY <2>2, <3>1, <3>2 DEF OwnSessionListed
  <2> QED
    BY <2>3, <2>4
<1>3. ASSUME NEW r \in Requests, NextPage(r) PROVE OwnSessionListed'
  BY <1>3 DEF NextPage, ListInv, Shaped, OwnSessionListed
<1>4. CASE \E t \in Tables : Changes(t)
  BY <1>4, NextRows DEF Write, ListInv, OwnSessionListed
<1>5. CASE Tick \/ UNCHANGED vars
  BY <1>5 DEF Tick, vars, client, OwnSessionListed
<1> QED
  BY <1>1, <1>2, <1>3, <1>4, <1>5, NextCases

\* Whoever lists their sessions is shown the one they called with, unless it was
\* cleared or lost time since they were authenticated.
THEOREM OwnSessionsAreListed == Spec => []OwnSessionListed
<1>1. Init => OwnSessionListed
  BY DEF Init, OwnSessionListed
<1> QED
  BY <1>1, Listed, NextOwn, PTL DEF Spec

-----------------------------------------------------------------------------
(* Paging by username                                                      *)

\* The rows of a table of users and their names.
LEMMA NameCount ==
  ASSUME ListInv, NEW rows \in SUBSET table["users"]
  PROVE  /\ IsFiniteSet(rows) /\ IsFiniteSet(Usernames(rows))
         /\ Cardinality(Usernames(rows)) = Cardinality(rows)
         /\ Cardinality(rows) \in Nat
         /\ Usernames(rows) \subseteq Int
         /\ \A x, y \in rows : x.username = y.username => x = y
<1>1. IsFiniteSet(rows) /\ Cardinality(rows) \in Nat /\ rows \subseteq Pool["users"]
  BY RowsBounded DEF ListInv, RowsKept, Tables
<1>2. \A x, y \in rows : x.username = y.username => x = y
  BY <1>1, RowAssumption DEF ListInv, RowsKept, Tables
<1>3. Usernames(rows) \subseteq Int
  BY <1>1, RowAssumption DEF Usernames
<1> DEFINE f == [x \in rows |-> x.username]
<1>4. f \in Surjection(rows, Usernames(rows))
  BY DEF Surjection, Usernames
<1>5. f \in Injection(rows, Usernames(rows))
  BY <1>2 DEF Injection, IsInjective, Usernames
<1>6. /\ IsFiniteSet(Usernames(rows))
      /\ Cardinality(Usernames(rows)) = Cardinality(rows)
  BY <1>1, <1>4, <1>5, FS_Surjection
<1> QED
  BY <1>1, <1>2, <1>3, <1>6

\* The order of a client's pages.
LEMMA InItsOrder ==
  ASSUME NEW q
  PROVE  /\ \A m \in Int : NotAfter(q, m, m)
         /\ \A m, n, k \in Int : NotAfter(q, m, n) /\ NotAfter(q, n, k) => NotAfter(q, m, k)
         /\ \A m, n \in Int : NotAfter(q, m, n) /\ NotAfter(q, n, m) => m = n
BY DEF NotAfter

LEMMA SortedByName ==
  ASSUME NEW q, q.op = "users", q.sort # None, q.sort.by = "username", NEW x, NEW y
  PROVE  /\ Before(q, x, y) <=> NotAfter(q, x.username, y.username)
         /\ InOrder(q, x, y) <=> NotAfter(q, x.username, y.username)
BY DEF Before, UserSort, NotAfter, InOrder

\* The next page begins no later than after what was passed and goes on without
\* a gap.
LEMMA PageAdvances ==
  ASSUME ListInv, NEW q, q.limit \in Int, q.offset \in Int, q.op = "users",
         q.sort # None, q.sort.by = "username",
         NEW rows \in SUBSET table["users"], NEW p \in Pages(q, rows, Limited(q)),
         NEW shown \in SUBSET Int, NEW stay \in SUBSET Usernames(rows),
         UpTo(q, stay, shown) \subseteq shown,
         Skipped(q) <= Cardinality(UpTo(q, Usernames(rows), shown))
  PROVE  /\ Skipped(q) + Cardinality(p)
              <= Cardinality(UpTo(q, Usernames(rows), shown \cup Usernames(p)))
         /\ UpTo(q, stay, shown \cup Usernames(p)) \subseteq shown \cup Usernames(p)
         /\ p = {} => stay \subseteq shown
<1> DEFINE names == Usernames(rows)
           passed == UpTo(q, names, shown)
           behind == {x \in rows : x.username \in passed}
           k == Skipped(q)
           shown2 == shown \cup Usernames(p)
<1>1. /\ IsFiniteSet(rows) /\ IsFiniteSet(names) /\ names \subseteq Int
      /\ Cardinality(names) = Cardinality(rows) /\ Cardinality(rows) \in Nat
      /\ \A x, y \in rows : x.username = y.username => x = y
  BY NameCount
<1>2. \A x \in rows : x.username \in names
  BY DEF Usernames
<1>3. k \in Nat /\ Limited(q) \in Nat /\ Limited(q) > 0
  BY Limits, LimitAssumption
<1>4. /\ passed \subseteq names /\ IsFiniteSet(passed) /\ Cardinality(passed) \in Nat
      /\ Cardinality(passed) <= Cardinality(rows)
  <2>1. passed \subseteq names
    BY DEF UpTo
  <2> QED
    BY <1>1, <2>1, FS_Subset, FS_CardinalityType
<1>5. behind \subseteq rows /\ Usernames(behind) = passed /\ IsFiniteSet(behind)
      /\ Cardinality(behind) = Cardinality(passed)
  <2>1. behind \in SUBSET table["users"] /\ behind \subseteq rows
    OBVIOUS
  <2>2. Usernames(behind) = passed
    BY <1>4 DEF Usernames
  <2> QED
    BY <2>1, <2>2, NameCount
<1>6. k <= Cardinality(rows)
  BY <1>1, <1>3, <1>4
<1>7. /\ p \subseteq rows /\ IsFiniteSet(p) /\ Cardinality(p) \in Nat
      /\ k + Limited(q) <= Cardinality(rows) => Cardinality(p) = Limited(q)
      /\ Cardinality(rows) <= k + Limited(q) => Cardinality(p) = Cardinality(rows) - k
  BY <1>1, <1>3, <1>6, PageOf
<1>8. PICK first \in SUBSET (rows \ p) :
        /\ Cardinality(first) = k
        /\ \A x \in first \cup p, y \in rows \ first :
             x \in first \/ y \notin p => InOrder(q, x, y)
  BY <1>1, <1>3, <1>6, PageOf
<1>9. /\ IsFiniteSet(first) /\ IsFiniteSet(first \cup p)
      /\ Cardinality(first \cup p) = k + Cardinality(p)
  <2>1. IsFiniteSet(first) /\ first \cap p = {}
    BY <1>1, <1>8, FS_Subset
  <2>2. Cardinality(first \cap p) = 0
    BY <2>1, FS_EmptySet
  <2>3. /\ IsFiniteSet(first \cup p)
        /\ Cardinality(first \cup p) =
             Cardinality(first) + Cardinality(p) - Cardinality(first \cap p)
    BY <1>7, <2>1, FS_Union
  <2> QED
    BY <1>3, <1>7, <1>8, <2>1, <2>2, <2>3
\* What is skipped was passed.
<1>10. ASSUME NEW x \in first PROVE x.username \in passed
  <2>1. CASE behind \subseteq first
    <3>1. Cardinality(behind) <= k
      BY <1>8, <1>9, <2>1, FS_Subset
    <3>2. Cardinality(behind) = Cardinality(first)
      BY <1>3, <1>4, <1>5, <1>8, <3>1
    <3>3. behind = first
      BY <1>9, <2>1, <3>2, FS_Subset
    <3> QED
      BY <3>3
  <2>2. CASE ~(behind \subseteq first)
    <3>1. PICK y \in behind : y \notin first
      BY <2>2
    <3>2. InOrder(q, x, y) /\ x \in rows /\ y \in rows
      BY <1>8, <3>1
    <3>3. NotAfter(q, x.username, y.username)
      BY <3>2, SortedByName
    <3>4. PICK n \in shown : NotAfter(q, y.username, n)
      BY <3>1 DEF UpTo
    <3>5. NotAfter(q, x.username, n)
      BY <1>1, <1>2, <3>2, <3>3, <3>4, InItsOrder
    <3> QED
      BY <1>2, <3>2, <3>4, <3>5 DEF UpTo
  <2> QED
    BY <2>1, <2>2
<1>11. k + Cardinality(p) <= Cardinality(UpTo(q, names, shown2))
  <2>1. first \cup p \in SUBSET table["users"] /\ first \cup p \subseteq rows
    BY <1>7, <1>8
  <2>2. Cardinality(Usernames(first \cup p)) = k + Cardinality(p)
    BY <1>9, <2>1, NameCount
  <2>3. Usernames(first \cup p) \subseteq UpTo(q, names, shown2)
    <3>1. SUFFICES ASSUME NEW x \in first \cup p
                   PROVE  x.username \in UpTo(q, names, shown2)
      BY DEF Usernames
    <3>2. x.username \in names /\ x.username \in Int
      BY <1>1, <1>2, <2>1
    <3>3. CASE x \in first
      BY <1>10, <3>2, <3>3 DEF UpTo
    <3>4. CASE x \in p
      <4>1. x.username \in shown2
        BY <3>4 DEF Usernames
      <4> QED
        BY <3>2, <4>1, InItsOrder DEF UpTo
    <3> QED
      BY <3>3, <3>4
  <2>4. IsFiniteSet(UpTo(q, names, shown2))
    <3>1. UpTo(q, names, shown2) \in SUBSET names
      BY DEF UpTo
    <3> QED
      BY <1>1, <3>1, FS_Subset
  <2>5. Cardinality(Usernames(first \cup p)) <= Cardinality(UpTo(q, names, shown2))
    BY <2>3, <2>4, FS_Subset
  <2> QED
    BY <2>2, <2>5
<1>12. ASSUME NEW n \in UpTo(q, stay, shown2) PROVE n \in shown2
  <2>1. n \in stay /\ n \in names
    BY DEF UpTo
  <2>2. PICK m \in shown2 : NotAfter(q, n, m)
    BY DEF UpTo
  <2>3. CASE m \in shown
    BY <2>1, <2>2, <2>3 DEF UpTo
  <2>4. CASE m \notin shown
    <3>1. PICK y \in p : y.username = m
      BY <2>2, <2>4 DEF Usernames
    <3>2. PICK x \in rows : x.username = n
      BY <2>1 DEF Usernames
    <3>3. CASE x \in first
      <4>1. \E i \in shown : NotAfter(q, n, i)
        BY <1>10, <3>2, <3>3 DEF UpTo
      <4> QED
        BY <2>1, <4>1 DEF UpTo
    <3>4. CASE x \in p
      BY <3>2, <3>4 DEF Usernames
    <3>5. CASE x \notin first /\ x \notin p
      <4>1. NotAfter(q, m, n)
        BY <1>8, <3>1, <3>2, <3>5, SortedByName
      <4>2. m \in Int /\ n \in Int
        BY <1>1, <1>2, <1>7, <3>1, <3>2
      <4>3. m = n
        BY <2>2, <4>1, <4>2, InItsOrder
      <4> QED
        BY <2>2, <4>3
    <3> QED
      BY <3>3, <3>4, <3>5
  <2> QED
    BY <2>3, <2>4
<1>13. ASSUME p = {} PROVE stay \subseteq shown
  <2>1. Cardinality(p) = 0
    BY <1>13, FS_EmptySet
  <2>2. Cardinality(rows) = k
    BY <1>1, <1>3, <1>6, <1>7, <2>1
  <2>3. Cardinality(passed) = Cardinality(names)
    BY <1>1, <1>3, <1>4, <2>2
  <2>4. passed = names
    BY <1>1, <1>4, <2>3, FS_Subset
  <2> QED
    BY <2>4 DEF UpTo
<1> QED
  BY <1>11, <1>12, <1>13

\* Nothing a client's progress depends on has changed.
LEMMA SameProgress ==
  ASSUME NEW r \in Requests, Progress(r), table' = table,
         in'[r] = in[r], pc'[r] = pc[r], resp'[r] = resp[r], page'[r] = page[r],
         seen'[r] = seen[r], stayed'[r] = stayed[r], slipped'[r] = slipped[r],
         broke'[r] = broke[r]
  PROVE  Progress(r)'
BY DEF Progress, ByName, Passed, Matching, UpTo, NotAfter, Usernames, MatchingUsers,
       Skipped

LEMMA AskBegins ==
  ASSUME ListInv, FromTheFirst, NEW r \in Requests, Ask(r)
  PROVE  Progress(r)'
<1>1. PICK q \in Queries[r] : in' = [in EXCEPT ![r] = q]
  BY DEF Ask
<1>2. IsQuery(q) /\ in'[r] = q /\ pc'[r] = "query"
  BY <1>1, QueryAssumption DEF Ask, ListInv, Shaped
<1>3. seen'[r] = {} /\ table' = table
  BY DEF Ask, ListInv, Asked
<1>4. ASSUME ByName(r)'
      PROVE  stayed'[r] = Matching(r)' /\ Skipped(in[r])' = 0
  <2>1. q.op = "users" /\ q.id = None /\ q.offset \in Int
    BY <1>2, <1>4 DEF ByName, IsQuery
  <2>2. Skipped(q) = 0
    BY <2>1 DEF FromTheFirst, Skipped
  <2>3. stayed'[r] = Usernames(MatchingUsers(q, table["users"]))
    BY <1>2, <2>1 DEF Ask, ListInv, Shaped
  <2> QED
    BY <1>2, <1>3, <2>2, <2>3 DEF Matching, Skipped, Usernames, MatchingUsers
<1>5. UpTo(in[r], stayed[r], seen[r])' = {} /\ Passed(r)' = {}
  BY <1>3 DEF UpTo, Passed
<1>6. Cardinality(Passed(r))' = 0
  BY <1>5, FS_EmptySet
<1> QED
  BY <1>2, <1>4, <1>5, <1>6 DEF Progress

\* What a client that pages by username is answered.
LEMMA PageByName ==
  ASSUME ListInv, NEW r \in Requests, Querying(r), ByName(r), ~broke'[r]
  PROVE  \/ resp'[r] # "ok" /\ seen'[r] = seen[r]
         \/ \E p \in Pages(in[r], MatchingUsers(in[r], table["users"]), Limited(in[r])) :
              page'[r] = p /\ seen'[r] = seen[r] \cup Usernames(p)
<1>1. Users(r) \/ QueryFails(r)
  BY DEF ByName, Querying, Sessions, Bans, Roles, Permissions, Named, MyUser,
         MySessions, Running
<1>2. IsQuery(in[r]) /\ in[r].limit \in Int /\ in[r].offset \in Int /\ in[r].op = "users"
  BY DEF ByName, ListInv, Asked, IsQuery
<1>3. ASSUME NEW a, a # "ok", Refuse(r, a)
      PROVE  resp'[r] # "ok" /\ seen'[r] = seen[r]
  BY <1>3 DEF Refuse, Answer, ListInv, Shaped
<1>4. ASSUME NEW a, NEW x \in Reads(in[r], MatchingUsers(in[r], table["users"])),
             AnswerRead(r, a, x)
      PROVE  \E p \in Pages(in[r], MatchingUsers(in[r], table["users"]), Limited(in[r])) :
               page'[r] = p /\ seen'[r] = seen[r] \cup Usernames(p)
  <2>1. ~x.broke
    BY <1>2, <1>4, ReadPages DEF AnswerRead, ListInv, Shaped, TypeOK
  <2>2. x.page \in Pages(in[r], MatchingUsers(in[r], table["users"]), Limited(in[r]))
    BY <1>2, <2>1, ReadPages
  <2>3. page'[r] = x.page /\ seen'[r] = seen[r] \cup Usernames(x.page)
    BY <1>2, <1>4 DEF AnswerRead, Answer, ListInv, Shaped, Usernames
  <2> QED
    BY <2>2, <2>3
<1>5. CASE Users(r)
  BY <1>3, <1>4, <1>5 DEF Users
<1>6. CASE QueryFails(r)
  BY <1>3, <1>6 DEF QueryFails
<1> QED
  BY <1>1, <1>5, <1>6

LEMMA QueryAdvances ==
  ASSUME ListInv, NEW r \in Requests, Progress(r), Querying(r)
  PROVE  Progress(r)'
<1> DEFINE q == in[r]
           rows == MatchingUsers(q, table["users"])
<1>1. PICK a, p, some, b : Answered(r, a, p, some, b)
  BY QueryEffect DEF Effect
<1>2. /\ table' = table /\ in' = in /\ stayed' = stayed /\ slipped' = slipped
      /\ pc[r] = "query" /\ pc'[r] = "answered" /\ (~broke'[r] => ~broke[r])
  BY <1>1 DEF Answered, Answer, Saw, ListInv, Shaped
<1>3. Matching(r)' = Matching(r) /\ Matching(r) = Usernames(rows)
  BY <1>2 DEF Matching
<1> SUFFICES ASSUME ByName(r), ~slipped[r], ~broke'[r]
             PROVE  /\ stayed[r] \subseteq Matching(r)
                    /\ UpTo(q, stayed[r], seen'[r]) \subseteq seen'[r]
                    /\ resp'[r] = "ok" =>
                         /\ Skipped(q) + Cardinality(page'[r])
                              <= Cardinality(UpTo(q, Matching(r), seen'[r]))
                         /\ page'[r] = {} => stayed[r] \subseteq seen'[r]
  BY <1>2, <1>3 DEF Progress, ByName, Passed, UpTo, NotAfter, Skipped
<1>4. /\ stayed[r] \subseteq Matching(r)
      /\ UpTo(q, stayed[r], seen[r]) \subseteq seen[r]
      /\ Skipped(q) <= Cardinality(UpTo(q, Matching(r), seen[r]))
  BY <1>2 DEF Progress, Passed
<1>5. CASE resp'[r] # "ok" /\ seen'[r] = seen[r]
  BY <1>4, <1>5
<1>6. CASE \E x \in Pages(q, rows, Limited(q)) :
             page'[r] = x /\ seen'[r] = seen[r] \cup Usernames(x)
  <2>1. PICK x \in Pages(q, rows, Limited(q)) :
          page'[r] = x /\ seen'[r] = seen[r] \cup Usernames(x)
    BY <1>6
  <2>2. /\ q.limit \in Int /\ q.offset \in Int /\ q.op = "users"
        /\ q.sort # None /\ q.sort.by = "username"
    BY DEF ByName, ListInv, Asked, IsQuery
  <2>3. rows \in SUBSET table["users"]
    BY DEF MatchingUsers
  <2>4. seen[r] \in SUBSET Int
    BY RowAssumption DEF ListInv, Asked, Usernames
  <2>5. stayed[r] \in SUBSET Usernames(rows)
    BY <1>3, <1>4
  <2>6. /\ UpTo(q, stayed[r], seen[r]) \subseteq seen[r]
        /\ Skipped(q) <= Cardinality(UpTo(q, Usernames(rows), seen[r]))
    BY <1>3, <1>4
  <2> HIDE DEF q, rows
  <2>7. /\ Skipped(q) + Cardinality(x)
             <= Cardinality(UpTo(q, Usernames(rows), seen[r] \cup Usernames(x)))
        /\ UpTo(q, stayed[r], seen[r] \cup Usernames(x)) \subseteq seen[r] \cup Usernames(x)
        /\ x = {} => stayed[r] \subseteq seen[r]
    BY <2>2, <2>3, <2>4, <2>5, <2>6, PageAdvances
  <2> QED
    BY <1>3, <1>4, <2>1, <2>7
<1> QED
  BY <1>5, <1>6, PageByName

LEMMA NextPageGoesOn ==
  ASSUME ListInv, NEW r \in Requests, Progress(r), NextPage(r)
  PROVE  Progress(r)'
<1> DEFINE q == in[r]
           q2 == [q EXCEPT !.offset = Skipped(q) + Cardinality(page[r])]
<1>1. /\ pc[r] = "answered" /\ pc'[r] = "query" /\ resp[r] = "ok" /\ IsQuery(q)
      /\ UNCHANGED <<table, seen, stayed, slipped, broke>>
  BY DEF NextPage, MorePages, ListInv, Shaped, Asked
<1>2. /\ Skipped(q) \in Nat /\ Cardinality(page[r]) \in Nat
      /\ Skipped(q) + Cardinality(page[r]) \in Nat
  <2>1. Cardinality(page[r]) \in Nat
    BY FS_CardinalityType DEF ListInv, Asked
  <2>2. Skipped(q) \in Nat
    BY <1>1, Limits DEF IsQuery
  <2> QED
    BY <2>1, <2>2
<1>3. in'[r] = q2
  BY DEF NextPage, Skipped, ListInv, Shaped
<1>4. /\ q2.op = q.op /\ q2.id = q.id /\ q2.email = q.email
      /\ q2.username = q.username /\ q2.sort = q.sort
      /\ q2.offset = Skipped(q) + Cardinality(page[r])
  BY <1>1 DEF IsQuery
<1> HIDE DEF q2
<1>5. Skipped(q2) = Skipped(q) + Cardinality(page[r])
  BY <1>2, <1>4 DEF Skipped
<1>6. Matching(r)' = Matching(r) /\ (ByName(r)' <=> ByName(r))
  BY <1>1, <1>3, <1>4 DEF Matching, MatchingUsers, Usernames, ByName
<1>7. /\ Passed(r)' = Passed(r)
      /\ UpTo(in[r], stayed[r], seen[r])' = UpTo(q, stayed[r], seen[r])
  BY <1>1, <1>3, <1>4, <1>6 DEF Passed, UpTo, NotAfter
<1>8. Skipped(in[r])' = Skipped(q2)
  BY <1>3 DEF Skipped
<1> QED
  BY <1>1, <1>5, <1>6, <1>7, <1>8 DEF Progress

\* Nobody has left from the part that was passed: it can only have grown.
LEMMA ChangesGoOn ==
  ASSUME ListInv, NEW t \in Tables, Changes(t), NEW r \in Requests, Progress(r)
  PROVE  Progress(r)'
<1> DEFINE q == in[r]
<1>1. RowsKept' /\ Write(table')
  BY NextRows DEF ListInv
<1>2. UNCHANGED <<in, pc, resp, page, seen, broke>>
  BY <1>1 DEF Write
<1>3. Matching(r)' = Usernames(MatchingUsers(q, table'["users"]))
  BY <1>2 DEF Matching
<1> SUFFICES ASSUME ByName(r), ~slipped'[r], ~broke[r]
             PROVE  /\ stayed'[r] \subseteq Matching(r)'
                    /\ UpTo(q, stayed'[r], seen[r]) \subseteq seen[r]
                    /\ stayed'[r] \subseteq stayed[r]
                    /\ Cardinality(Passed(r)) \in Nat /\ Cardinality(Passed(r))' \in Nat
                    /\ Cardinality(Passed(r)) <= Cardinality(Passed(r))'
  <2>1. ByName(r) => Skipped(q) \in Nat
    <3>1. ByName(r) => q.offset \in Int /\ q.limit \in Int
      BY DEF ByName, ListInv, Asked, IsQuery
    <3> QED
      BY <3>1, Limits
  <2>2. Cardinality(page[r]) \in Nat
    BY FS_CardinalityType DEF ListInv, Asked
  <2>3. /\ ByName(r)' = ByName(r) /\ Skipped(in[r])' = Skipped(q)
        /\ Cardinality(page[r])' = Cardinality(page[r])
        /\ UpTo(in[r], stayed[r], seen[r])' = UpTo(q, stayed'[r], seen[r])
    BY <1>2 DEF ByName, UpTo, NotAfter, Skipped
  <2>4. ~slipped'[r] /\ ByName(r) => ~slipped[r]
    BY <1>1 DEF Write, ByName
  <2> QED
    BY <1>2, <2>1, <2>2, <2>3, <2>4 DEF Progress
<1>4. ~slipped[r] /\ pc[r] # "new" /\ q.op = "users"
  BY <1>1 DEF Write, ByName
<1>5. stayed'[r] = stayed[r] \cap Matching(r)'
  BY <1>1, <1>3, <1>4 DEF Write
<1>6. UpTo(q, stayed'[r], seen[r]) \subseteq seen[r]
  BY <1>4, <1>5 DEF Progress, UpTo
<1>7. Passed(r) \subseteq Passed(r)'
  <2> SUFFICES ASSUME NEW m \in Passed(r) PROVE m \in Passed(r)'
    OBVIOUS
  <2>1. m \in Matching(r)
    BY DEF Passed, UpTo
  <2>2. PICK n \in seen[r] : NotAfter(q, m, n)
    BY DEF Passed, UpTo
  <2>3. PICK x \in MatchingUsers(q, table["users"]) : x.username = m
    BY <2>1 DEF Matching, Usernames
  <2>4. PICK y \in Pool["users"] : y.username = n
    BY <2>2 DEF ListInv, Asked, Usernames
  <2>5. Before(q, x, y)
    BY <1>4, <2>2, <2>3, <2>4, SortedByName DEF ByName
  <2>6. m \in Matching(r)'
    BY <1>1, <1>3, <1>4, <2>2, <2>3, <2>4, <2>5 DEF Write
  <2> QED
    BY <1>2, <2>2, <2>6 DEF Passed, UpTo, NotAfter
<1>8. IsFiniteSet(Passed(r)')
  <2>1. IsFiniteSet(table'["users"]) /\ table'["users"] \subseteq Pool["users"]
    BY <1>1, RowAssumption, FS_Subset DEF RowsKept, Tables
  <2> DEFINE rows == MatchingUsers(q, table'["users"])
             f == [x \in rows |-> x.username]
  <2>2. IsFiniteSet(rows)
    <3>1. rows \in SUBSET table'["users"]
      BY DEF MatchingUsers
    <3> QED
      BY <2>1, <3>1, FS_Subset
  <2>3. f \in Surjection(rows, Usernames(rows))
    BY DEF Surjection, Usernames
  <2>4. IsFiniteSet(Usernames(rows))
    BY <2>2, <2>3, FS_Surjection
  <2>5. Passed(r)' \in SUBSET Usernames(rows)
    BY <1>3 DEF Passed, UpTo
  <2> QED
    BY <2>4, <2>5, FS_Subset
<1>9. /\ Cardinality(Passed(r)) \in Nat /\ Cardinality(Passed(r)') \in Nat
      /\ Cardinality(Passed(r)) <= Cardinality(Passed(r)')
  <2>1. IsFiniteSet(Passed(r)) /\ Cardinality(Passed(r)) <= Cardinality(Passed(r)')
    BY <1>7, <1>8, FS_Subset
  <2> QED
    BY <1>8, <2>1, FS_CardinalityType
<1> QED
  BY <1>5, <1>6, <1>9

LEMMA NextPaging ==
  ASSUME FromTheFirst
  PROVE  ListInv /\ PagingInv /\ [Next]_vars => PagingInv'
<1> SUFFICES ASSUME ListInv, PagingInv, [Next]_vars, NEW c \in Requests
             PROVE  Progress(c)'
  BY DEF PagingInv
<1>1. Progress(c)
  BY DEF PagingInv
<1>2. ASSUME NEW r \in Requests, Ask(r) PROVE Progress(c)'
  <2>1. CASE c = r
    BY <1>2, <2>1, AskBegins
  <2>2. CASE c # r
    <3>1. /\ in'[c] = in[c] /\ pc'[c] = pc[c] /\ stayed'[c] = stayed[c]
          /\ UNCHANGED <<table, resp, page, seen, slipped, broke>>
      BY <1>2, <2>2 DEF Ask, ListInv, Shaped
    <3> QED
      BY <1>1, <3>1, SameProgress
  <2> QED
    BY <2>1, <2>2
<1>3. ASSUME NEW r \in Requests, Querying(r) PROVE Progress(c)'
  <2>1. CASE c = r
    BY <1>1, <1>3, <2>1, QueryAdvances
  <2>2. CASE c # r
    <3>1. PICK a, p, rows, b : Answered(r, a, p, rows, b)
      BY <1>3, QueryEffect DEF Effect
    <3>2. /\ pc'[c] = pc[c] /\ resp'[c] = resp[c] /\ page'[c] = page[c]
          /\ seen'[c] = seen[c] /\ UNCHANGED <<table, in, stayed, slipped>>
      BY <2>2, <3>1 DEF Answered, Answer, Saw, ListInv, Shaped
    <3>3. broke'[c] = broke[c]
      BY <2>2, <3>1 DEF Answered, ListInv, Shaped
    <3> QED
      BY <1>1, <3>2, <3>3, SameProgress
  <2> QED
    BY <2>1, <2>2
<1>4. ASSUME NEW r \in Requests, NextPage(r) PROVE Progress(c)'
  <2>1. CASE c = r
    BY <1>1, <1>4, <2>1, NextPageGoesOn
  <2>2. CASE c # r
    <3>1. /\ in'[c] = in[c] /\ pc'[c] = pc[c]
          /\ UNCHANGED <<table, resp, page, seen, stayed, slipped, broke>>
      BY <1>4, <2>2 DEF NextPage, ListInv, Shaped
    <3> QED
      BY <1>1, <3>1, SameProgress
  <2> QED
    BY <2>1, <2>2
<1>5. CASE \E t \in Tables : Changes(t)
  BY <1>1, <1>5, ChangesGoOn
<1>6. CASE Tick \/ UNCHANGED vars
  BY <1>1, <1>6, SameProgress DEF Tick, vars, client
<1> QED
  BY <1>2, <1>3, <1>4, <1>5, <1>6, NextCases

\* A client that pages through the users by username, from the first until a page
\* is empty, has been shown everyone who matched all the time, unless someone left
\* from the part it had passed or the connection broke.
THEOREM PagingByNameMissesNobody ==
  ASSUME FromTheFirst
  PROVE  Spec => []PagingMissesNobody
<1>1. Init => PagingInv
  BY DEF Init, PagingInv, Progress, ByName
<1>2. ListInv /\ PagingInv => PagingMissesNobody
  BY DEF ListInv, Asked, PagingInv, Progress, ByName, PagingMissesNobody
<1> QED
  BY <1>1, <1>2, Listed, NextPaging, PTL DEF Spec
=============================================================================
