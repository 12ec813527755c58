----------------------------- MODULE MCListing ------------------------------
(***************************************************************************)
(* The instance of Listing that TLC checks: a client that pages through a  *)
(* table or asks once, while the rows change.  Clients do not meet: one is *)
(* enough.                                                                 *)
(***************************************************************************)
EXTENDS Listing, TLC
CONSTANTS r1, u1, u2, u3, u4, x1, x2

User(id, name, email, login) ==
  [id |-> id, username |-> name, email |-> email, created_at |-> 0,
   last_login_at |-> login]
Session(id, user, expires) == [id |-> id, user |-> user, expires |-> expires]
Ban(user, at, til) == [id |-> user, user |-> user, bannedAt |-> at, unbannedAt |-> til]

SomeRows ==
  "users" :> {User(u1, 1, 1, -1), User(u2, 2, 1, -1), User(u3, 3, 2, -1),
              User(u4, 4, 2, -1), User(u2, 2, 2, 0)} @@
  "sessions" :> {Session(x1, u2, 1), Session(x1, u2, 2), Session(x2, u2, 1)} @@
  "bans" :> {Ban(u1, 0, 1), Ban(u3, 0, 0)} @@
  "roles" :> {[id |-> x1], [id |-> x2]} @@
  "permissions" :> {[id |-> x1]}
FirstRows ==
  "users" :> {User(u1, 1, 1, -1), User(u2, 2, 1, -1), User(u4, 4, 2, -1)} @@
  "sessions" :> {Session(x1, u2, 1)} @@
  "bans" :> {Ban(u1, 0, 1)} @@
  "roles" :> {[id |-> x1]} @@
  "permissions" :> {[id |-> x1]}

Query == [op |-> "users", id |-> None, user |-> None, email |-> None,
          username |-> None, sort |-> None, detailed |-> FALSE,
          expired |-> FALSE, limit |-> 0, offset |-> -1]
By(key, asc) == [by |-> key, asc |-> asc]

\* Who pages, with the default limit, one of one row, one beyond the maximum.
Paging ==
  {[Query EXCEPT !.sort = By("username", b), !.limit = n] : b \in BOOLEAN, n \in {1, 3}} \cup
  {[Query EXCEPT !.sort = s] : s \in {By("email", TRUE), By("last_login_at", FALSE), None, Bad}} \cup
  {[Query EXCEPT !.sort = By("username", TRUE), !.limit = 1, !.email = {1}]} \cup
  {[Query EXCEPT !.op = o, !.limit = 1] : o \in {"sessions", "bans", "roles", "permissions"}}
\* Who asks once: by key, and for what is theirs.
Once ==
  {[Query EXCEPT !.id = i, !.offset = n] : i \in {u1, u3, Bad}, n \in {0, 1}} \cup
  {[Query EXCEPT !.op = "sessions", !.id = i, !.expired = b] : i \in {x1, x2, Bad}, b \in BOOLEAN} \cup
  {[Query EXCEPT !.op = "bans", !.user = u, !.expired = b] : u \in {u1, u3, Bad}, b \in BOOLEAN} \cup
  {[Query EXCEPT !.op = o, !.id = i, !.detailed = b] :
     o \in {"roles", "permissions"}, i \in {x1, Bad}, b \in BOOLEAN} \cup
  {[Query EXCEPT !.op = o] : o \in Mine}
SomeQueries == r1 :> Paging \cup Once
=============================================================================
