----------------------------- MODULE RoleProofs -----------------------------
(***************************************************************************)
(* What Roles keeps for every set of requests, users and names: its types, *)
(* one role to a name, and authors that are there.                         *)
(*                                                                         *)
(* A name is checked by one statement and written by the next, so neither  *)
(* follows from what a statement reads.  The inductive invariant says what *)
(* the locks of a statement still vouch for when it writes: an entry of    *)
(* the index for a name that nobody has, or the row that has it; and, for  *)
(* a deletion of a user, every row that names the user.                    *)
(***************************************************************************)
EXTENDS Roles, TLAPS

\* The columns a statement writes at a stage are those its operation has.
Fits(r) ==
  /\ pc[r] \in {"name", "author"} => in[r].op \in {"CreateRole", "UpdateRole"}
  /\ pc[r] \in {"name", "author"} /\ in[r].op = "CreateRole" => in[r].name # None
  /\ pc[r] = "name" => in[r].name # None
  /\ pc[r] = "row" /\ in[r].op = "UpdateRole" => at[r] = in[r].id
  /\ pc[r] = "user" => in[r].op = "DeleteUsers"

\* The name r is about to write is its own: nobody has it and r holds its
\* entry, or the row r updates has it already.
Secured(r) ==
  \/ in[r].name = None
  \/ NameLock(in[r].name) \in locks[r] /\ Named(in[r].name) = {}
  \/ /\ in[r].op = "UpdateRole"
     /\ \E role \in Named(in[r].name) : role.id = in[r].id

WriterHolds(r) ==
  /\ pc[r] \in {"name", "author"} /\ in[r].op = "UpdateRole" =>
       RoleLock(in[r].id) \in locks[r]
  /\ pc[r] = "author" => Secured(r)

DeleterHolds(r) ==
  in[r].op = "DeleteUsers" =>
    /\ pc[r] \in {"row", "commit"} => UserLock(in[r].user) \in locks[r]
    /\ pc[r] = "commit" =>
         \A role \in References(in[r].user) : RoleLock(role.id) \in locks[r]

Exclusive == \A p, q \in Requests : p # q => locks[p] \cap locks[q] = {}
IdsMinted == \A role \in roles : role.id \in Requests => pc[role.id] = "done"

Inv ==
  /\ TypeOK
  /\ Exclusive
  /\ IdsMinted
  /\ \A r \in Requests : Fits(r) /\ WriterHolds(r) /\ DeleterHolds(r)
  /\ RoleNamesUnique
  /\ AuthorsResolve

-----------------------------------------------------------------------------
\* The locks of rows, keys and names are never confused.
LEMMA LocksDiffer ==
  /\ \A x, y : RoleLock(x) = RoleLock(y) => x = y
  /\ \A x, y : NameLock(x) = NameLock(y) => x = y
  /\ \A x, y : UserLock(x) = UserLock(y) => x = y
  BY DEF RoleLock, NameLock, UserLock

\* The fields an input has are those of its operation.
LEMMA InputShape ==
  ASSUME NEW i \in Input \cup {NoInput}
  PROVE  /\ i.op = "CreateRole" => i \in CreateInput
         /\ i.op = "UpdateRole" => i \in UpdateInput
         /\ i.op = "DeleteRole" => i \in DeleteInput
         /\ i.op = "DeleteUsers" => i \in UserInput
  BY DEF Input, NoInput, CreateInput, UpdateInput, DeleteInput, UserInput

\* What a statement waits for at each stage.
LEMMA WantsAt ==
  ASSUME NEW r \in Requests
  PROVE  /\ pc[r] = "row" => Wants(r) = {RoleLock(at[r])}
         /\ pc[r] = "name" => NameLock(in[r].name) \in Wants(r)
         /\ pc[r] = "author" => Wants(r) = {UserLock(u) : u \in RefersTo(r)}
         /\ pc[r] = "user" => Wants(r) = {UserLock(in[r].user)}
  BY DEF Wants

\* What a statement that does not wait asked for is held by nobody else.
LEMMA GrantedFree ==
  ASSUME NEW r \in Requests, Granted(r), NEW q \in Requests, q # r
  PROVE  Wants(r) \cap locks[q] = {}
  BY DEF Granted, Waits

LEMMA UpdatedRow ==
  ASSUME TypeOK, NEW r \in Requests, in[r].op = "UpdateRole", NEW role \in RoleRow
  PROVE  /\ Updated(r, role) \in RoleRow
         /\ Updated(r, role).id = role.id
         /\ Updated(r, role).name = IF in[r].name = None THEN role.name ELSE in[r].name
         /\ Updated(r, role).description =
              IF in[r].description = None THEN role.description ELSE in[r].description
         /\ Updated(r, role).createdBy = role.createdBy
         /\ Updated(r, role).updatedBy = caller[r]
  <1>1. in[r] \in UpdateInput /\ caller[r] \in SeedUsers \cup {None}
    BY InputShape DEF TypeOK
  <1> QED  BY <1>1 DEF Updated, RoleRow, UpdateInput

LEMMA CreatedRow ==
  ASSUME TypeOK, NEW r \in Requests, in[r].op = "CreateRole", in[r].name # None
  PROVE  /\ NewRole(r) \in RoleRow
         /\ NewRole(r).id = r
         /\ NewRole(r).name = in[r].name
         /\ NewRole(r).createdBy = caller[r]
         /\ NewRole(r).updatedBy = None
  <1>1. in[r] \in CreateInput /\ caller[r] \in SeedUsers \cup {None}
    BY InputShape DEF TypeOK
  <1> QED  BY <1>1 DEF NewRole, RoleRow, CreateInput, RoleIds

LEMMA ForgottenRow ==
  ASSUME NEW u, NEW role \in RoleRow
  PROVE  /\ Forgotten(u, role) \in RoleRow
         /\ Forgotten(u, role).id = role.id
         /\ Forgotten(u, role).name = role.name
         /\ Forgotten(u, role).description = role.description
         /\ Forgotten(u, role).createdBy = IF role.createdBy = u THEN None
                                                                 ELSE role.createdBy
         /\ Forgotten(u, role).updatedBy = IF role.updatedBy = u THEN None
                                                                 ELSE role.updatedBy
  BY DEF Forgotten, RoleRow

\* A DELETE with no row left to lock holds all rows it is about.
LEMMA NothingRemains ==
  ASSUME TypeOK, NEW r \in Requests, NEW done, Remaining(r, done) = {},
         in[r].op = "DeleteUsers"
  PROVE  \A role \in References(in[r].user) : RoleLock(role.id) \in done
  <1>1. Unlocked(References(in[r].user), done) = {}
    BY DEF Remaining
  <1>2. \A role \in References(in[r].user) : role.id \in RoleIds
    BY DEF References, TypeOK, RoleRow
  <1> QED  BY <1>1, <1>2 DEF Unlocked

-----------------------------------------------------------------------------
\* Locks granted to one, and locks given up, leave the rest apart.
LEMMA HoldKeepsApart ==
  ASSUME TypeOK, Exclusive, NEW r \in Requests, NEW rows, Hold(r, rows),
         rows \subseteq Wants(r), Granted(r)
  PROVE  Exclusive'
  <1> SUFFICES ASSUME NEW p \in Requests, NEW q \in Requests, p # q
               PROVE  locks'[p] \cap locks'[q] = {}
    BY DEF Exclusive
  <1>1. locks[p] \cap locks[q] = {}
    BY DEF Exclusive
  <1>2. \A x \in Requests : locks'[x] = IF x = r THEN locks[r] \cup rows ELSE locks[x]
    BY DEF Hold, TypeOK
  <1>3. \A x \in Requests \ {r} : rows \cap locks[x] = {}
    BY GrantedFree
  <1> QED  BY <1>1, <1>2, <1>3

LEMMA ReleaseKeepsApart ==
  ASSUME TypeOK, Exclusive, NEW r \in Requests,
         locks' = [locks EXCEPT ![r] = {}]
  PROVE  Exclusive'
  BY DEF Exclusive, TypeOK

\* A step of r that writes no row leaves the parts of everyone else alone.
LEMMA QuietStep ==
  ASSUME Inv, NEW r \in Requests, UNCHANGED <<users, roles, in, caller>>,
         TypeOK', Exclusive', pc[r] # "done",
         \A q \in Requests \ {r} :
           pc'[q] = pc[q] /\ at'[q] = at[q] /\ locks'[q] = locks[q],
         Fits(r)', WriterHolds(r)', DeleterHolds(r)'
  PROVE  Inv'
  <1>1. IdsMinted'
    BY DEF Inv, IdsMinted
  <1>2. ASSUME NEW q \in Requests
        PROVE  Fits(q)' /\ WriterHolds(q)' /\ DeleterHolds(q)'
    <2>1. CASE q = r
      BY <2>1
    <2>2. CASE q # r
      <3>1. Fits(q) /\ WriterHolds(q) /\ DeleterHolds(q)
        BY DEF Inv
      <3>2. pc'[q] = pc[q] /\ at'[q] = at[q] /\ locks'[q] = locks[q]
        BY <2>2
      <3>3. Fits(q)'
        BY <3>1, <3>2 DEF Fits
      <3>4. WriterHolds(q)'
        BY <3>1, <3>2 DEF WriterHolds, Secured, Named
      <3>5. DeleterHolds(q)'
        BY <3>1, <3>2 DEF DeleterHolds, References
      <3> QED  BY <3>3, <3>4, <3>5
    <2> QED  BY <2>1, <2>2
  <1>3. RoleNamesUnique' /\ AuthorsResolve'
    BY DEF Inv, RoleNamesUnique, AuthorsResolve
  <1> QED  BY <1>1, <1>2, <1>3 DEF Inv

\* An answer gives up every lock.
LEMMA AnswerStep ==
  ASSUME Inv, NEW r \in Requests, NEW a \in Answers, Answer(r, a),
         pc[r] # "done", UNCHANGED <<users, roles, in, caller, at>>
  PROVE  Inv'
  <1>1. TypeOK'
    BY DEF Inv, TypeOK, Answer
  <1>2. Exclusive'
    BY ReleaseKeepsApart DEF Inv, Answer
  <1>3. \A q \in Requests \ {r} :
          pc'[q] = pc[q] /\ at'[q] = at[q] /\ locks'[q] = locks[q]
    BY DEF Answer, Inv, TypeOK
  <1>4. pc'[r] = "done"
    BY DEF Answer, Inv, TypeOK
  <1>5. Fits(r)' /\ WriterHolds(r)' /\ DeleterHolds(r)'
    BY <1>4 DEF Fits, WriterHolds, DeleterHolds
  <1> QED  BY <1>1, <1>2, <1>3, <1>5, QuietStep

-----------------------------------------------------------------------------
LEMMA InitInv == Init => Inv
  <1> SUFFICES ASSUME Init PROVE Inv
    OBVIOUS
  <1> USE RolesAssumption DEF Init
  <1>1. TypeOK
    BY DEF TypeOK, Answers, RoleIds
  <1>2. Exclusive
    BY DEF Exclusive
  <1>3. IdsMinted
    BY DEF IdsMinted
  <1>4. ASSUME NEW r \in Requests
        PROVE  Fits(r) /\ WriterHolds(r) /\ DeleterHolds(r)
    BY DEF Fits, WriterHolds, DeleterHolds
  <1>5. RoleNamesUnique
    BY DEF RoleNamesUnique
  <1>6. AuthorsResolve
    BY DEF AuthorsResolve, RoleRow
  <1> QED  BY <1>1, <1>2, <1>3, <1>4, <1>5, <1>6 DEF Inv

LEMMA ReceiveStep ==
  ASSUME Inv, NEW r \in Requests, Receive(r)
  PROVE  Inv'
  <1>1. PICK i \in Input, u \in users \cup {None} :
          /\ in' = [in EXCEPT ![r] = i]
          /\ caller' = [caller EXCEPT ![r] = u]
          /\ Goto(r, "call")
    BY DEF Receive
  <1>2. TypeOK'
    BY <1>1 DEF Inv, TypeOK, Receive, Goto, Stages
  <1>3. Exclusive' /\ RoleNamesUnique' /\ AuthorsResolve'
    BY DEF Inv, Receive, Exclusive, RoleNamesUnique, AuthorsResolve
  <1>4. IdsMinted'
    BY <1>1 DEF Inv, TypeOK, Receive, Goto, IdsMinted
  <1>5. ASSUME NEW q \in Requests
        PROVE  Fits(q)' /\ WriterHolds(q)' /\ DeleterHolds(q)'
    <2>1. CASE q = r
      <3>1. pc'[q] = "call"
        BY <1>1, <2>1 DEF Goto, Inv, TypeOK
      <3> QED  BY <3>1 DEF Fits, WriterHolds, DeleterHolds
    <2>2. CASE q # r
      <3>1. /\ pc'[q] = pc[q] /\ in'[q] = in[q]
            /\ UNCHANGED <<roles, at, locks>>
        BY <1>1, <2>2 DEF Receive, Goto, Inv, TypeOK
      <3>2. Fits(q) /\ WriterHolds(q) /\ DeleterHolds(q)
        BY DEF Inv
      <3>3. Fits(q)'
        BY <3>1, <3>2 DEF Fits
      <3>4. WriterHolds(q)'
        BY <3>1, <3>2 DEF WriterHolds, Secured, Named
      <3>5. DeleterHolds(q)'
        BY <3>1, <3>2 DEF DeleterHolds, References
      <3> QED  BY <3>3, <3>4, <3>5
    <2> QED  BY <2>1, <2>2
  <1> QED  BY <1>2, <1>3, <1>4, <1>5 DEF Inv

\* A step of r to another stage, with more locks or as many.
LEMMA GotoStep ==
  ASSUME Inv, NEW r \in Requests, NEW s \in Stages, Goto(r, s),
         UNCHANGED <<users, roles, in, caller>>, pc[r] # "done",
         \/ UNCHANGED locks
         \/ \E rows \in SUBSET (Lockable \cap Wants(r)) : Hold(r, rows) /\ Granted(r),
         \/ UNCHANGED at
         \/ \E id \in RoleIds : at' = [at EXCEPT ![r] = id],
         Fits(r)', WriterHolds(r)', DeleterHolds(r)'
  PROVE  Inv'
  <1>1. TypeOK'
    <2>1. locks' \in [Requests -> SUBSET Lockable]
      BY DEF Inv, TypeOK, Hold
    <2>2. at' \in [Requests -> RoleIds \cup {None}]
      BY DEF Inv, TypeOK
    <2> QED  BY <2>1, <2>2 DEF Inv, TypeOK, Goto
  <1>2. Exclusive'
    <2>1. CASE UNCHANGED locks
      BY <2>1 DEF Inv, Exclusive
    <2>2. CASE \E rows \in SUBSET (Lockable \cap Wants(r)) : Hold(r, rows) /\ Granted(r)
      BY <2>2, HoldKeepsApart DEF Inv
    <2> QED  BY <2>1, <2>2
  <1>3. \A q \in Requests \ {r} :
          pc'[q] = pc[q] /\ at'[q] = at[q] /\ locks'[q] = locks[q]
    BY DEF Goto, Hold, Inv, TypeOK
  <1> QED  BY <1>1, <1>2, <1>3, QuietStep

LEMMA CreateCheckStep ==
  ASSUME Inv, NEW r \in Requests, CreateCheck(r)
  PROVE  Inv'
  <1>1. CASE \E a \in Answers : Answer(r, a)
    BY <1>1, AnswerStep DEF CreateCheck
  <1>2. CASE ~NameMissing(r) /\ Goto(r, "name") /\ UNCHANGED locks
    <2>1. pc'[r] = "name" /\ in'[r].op = "CreateRole" /\ in'[r].name # None
      BY <1>2 DEF Goto, Inv, TypeOK, CreateCheck, NameMissing
    <2>2. Fits(r)' /\ WriterHolds(r)' /\ DeleterHolds(r)'
      BY <2>1 DEF Fits, WriterHolds, DeleterHolds
    <2> QED  BY <1>2, <2>2, GotoStep DEF CreateCheck, Stages
  <1> QED  BY <1>1, <1>2 DEF CreateCheck, Answers

LEMMA UpdateCheckStep ==
  ASSUME Inv, NEW r \in Requests, UpdateCheck(r)
  PROVE  Inv'
  <1>1. CASE UNCHANGED at /\ \E a \in Answers : Answer(r, a)
    BY <1>1, AnswerStep DEF UpdateCheck
  <1>2. CASE at' = [at EXCEPT ![r] = in[r].id] /\ Goto(r, "row") /\ UNCHANGED locks
    <2>1. in[r] \in UpdateInput
      BY InputShape DEF Inv, TypeOK, UpdateCheck
    <2>2. pc'[r] = "row" /\ in'[r].op = "UpdateRole" /\ at'[r] = in'[r].id
      BY <1>2 DEF Goto, Inv, TypeOK, UpdateCheck
    <2>3. Fits(r)' /\ WriterHolds(r)' /\ DeleterHolds(r)'
      BY <2>2 DEF Fits, WriterHolds, DeleterHolds
    <2>4. in[r].id \in RoleIds
      BY <2>1 DEF UpdateInput
    <2> QED  BY <1>2, <2>3, <2>4, GotoStep DEF UpdateCheck, Stages
  <1> QED  BY <1>1, <1>2 DEF UpdateCheck, Answers

LEMMA UpdateRowStep ==
  ASSUME Inv, NEW r \in Requests, UpdateRow(r)
  PROVE  Inv'
  <1>1. in[r].op = "UpdateRole" /\ pc[r] = "row" /\ Granted(r) /\ in[r] \in UpdateInput
    BY InputShape DEF UpdateRow, Inv, TypeOK
  <1>2. CASE Answer(r, "not_found")
    BY <1>2, AnswerStep, <1>1 DEF UpdateRow, Answers
  <1>3. ASSUME NEW role \in RolesWith(in[r].id), NEW s \in {"author", "name"},
               s = (IF in[r].name \in {None, role.name} THEN "author" ELSE "name"),
               Hold(r, {RoleLock(role.id)}), Goto(r, s)
        PROVE  Inv'
    <2>1. role \in roles /\ role.id = in[r].id /\ in[r].id \in RoleIds
      BY <1>1 DEF RolesWith, UpdateInput
    <2>2. at[r] = in[r].id
      BY <1>1 DEF Inv, Fits
    <2>3. Wants(r) = {RoleLock(role.id)}
      BY <1>1, <2>1, <2>2, WantsAt
    <2>4. RoleLock(role.id) \in Lockable
      BY <2>1 DEF RoleLock, Lockable
    <2>5. pc'[r] = s /\ UNCHANGED <<in, roles>> /\ RoleLock(in[r].id) \in locks'[r]
      BY <1>3, <2>1 DEF Goto, Hold, Inv, TypeOK, UpdateRow
    <2>6. Fits(r)' /\ DeleterHolds(r)'
      BY <1>1, <1>3, <2>5 DEF Fits, DeleterHolds
    <2>7. s = "author" => Secured(r)'
      BY <1>1, <1>3, <2>1, <2>5 DEF Secured, Named
    <2>8. WriterHolds(r)'
      BY <2>5, <2>7, <1>3 DEF WriterHolds
    <2> QED
      BY <1>1, <1>3, <2>3, <2>4, <2>6, <2>8, GotoStep DEF UpdateRow, Stages
  <1> QED  BY <1>2, <1>3 DEF UpdateRow

LEMMA WriteNameStep ==
  ASSUME Inv, NEW r \in Requests, WriteName(r)
  PROVE  Inv'
  <1>1. pc[r] = "name" /\ Granted(r) /\ Fits(r) /\ WriterHolds(r)
    BY DEF WriteName, Inv
  <1>2. CASE Answer(r, "internal")
    BY <1>1, <1>2, AnswerStep DEF WriteName, Answers
  <1>3. CASE /\ Named(in[r].name) = {}
             /\ Hold(r, EntryOf(in[r].name)) /\ Goto(r, "author")
    <2>1. NameLock(in[r].name) \in Wants(r)
      BY <1>1, WantsAt
    <2>2. in[r].name \in Names
      BY <1>1, InputShape DEF Fits, CreateInput, UpdateInput, Inv, TypeOK
    <2>3. EntryOf(in[r].name) \subseteq Lockable \cap Wants(r)
      BY <2>1, <2>2 DEF EntryOf, NameLock, Lockable
    <2>4. /\ pc'[r] = "author" /\ UNCHANGED <<in, roles>>
          /\ locks'[r] = locks[r] \cup {NameLock(in[r].name)}
      BY <1>3 DEF Goto, Hold, EntryOf, Inv, TypeOK, WriteName
    <2>5. Fits(r)' /\ DeleterHolds(r)'
      BY <1>1, <2>4 DEF Fits, DeleterHolds
    <2>6. WriterHolds(r)'
      BY <1>1, <1>3, <2>4 DEF WriterHolds, Secured, Named
    <2> QED  BY <1>1, <1>3, <2>3, <2>5, <2>6, GotoStep DEF WriteName, Stages
  <1> QED  BY <1>2, <1>3 DEF WriteName

-----------------------------------------------------------------------------
\* The steps that write.  What the other requests rely on is the rows they
\* have locked, the names they have entered, and the users they delete.

\* The two ways a row comes out of WriteRole.
Written(r, role) ==
  IF in[r].op = "UpdateRole" /\ role.id = in[r].id THEN Updated(r, role) ELSE role

LEMMA WrittenRow ==
  ASSUME Inv, NEW r \in Requests, NEW role \in roles
  PROVE  /\ Written(r, role) \in RoleRow
         /\ Written(r, role).id = role.id
         /\ ~(in[r].op = "UpdateRole" /\ role.id = in[r].id) => Written(r, role) = role
         /\ in[r].op = "UpdateRole" /\ role.id = in[r].id =>
              /\ Written(r, role).name =
                   IF in[r].name = None THEN role.name ELSE in[r].name
              /\ Written(r, role).description =
                   IF in[r].description = None THEN role.description
                                               ELSE in[r].description
              /\ Written(r, role).createdBy = role.createdBy
              /\ Written(r, role).updatedBy = caller[r]
  BY UpdatedRow DEF Written, Inv, TypeOK

LEMMA WriteRoleEffect ==
  ASSUME Inv, NEW r \in Requests, WriteRole(r), RefersTo(r) \subseteq users
  PROVE  roles' = {Written(r, role) : role \in roles} \cup
                  (IF in[r].op = "CreateRole" THEN {NewRole(r)} ELSE {})
  <1>1. Fits(r) /\ pc[r] = "author"
    BY DEF Inv, WriteRole
  <1>2. CASE in[r].op = "CreateRole"
    <2>1. \A role \in roles : Written(r, role) = role
      BY <1>2 DEF Written
    <2> QED  BY <1>2, <2>1 DEF WriteRole
  <1>3. CASE in[r].op = "UpdateRole"
    BY <1>3 DEF WriteRole, Written
  <1> QED  BY <1>1, <1>2, <1>3 DEF Fits

\* What WriteRole leaves of the names: a request other than r that has secured
\* its own keeps it.
LEMMA WriteRoleSecures ==
  ASSUME Inv, NEW r \in Requests, WriteRole(r), RefersTo(r) \subseteq users,
         NEW q \in Requests, q # r, pc[q] = "author"
  PROVE  Secured(q)'
  <1>1. /\ Secured(q) /\ Secured(r) /\ Fits(r) /\ Fits(q)
        /\ locks[q] \cap locks[r] = {}
        /\ pc[r] = "author" /\ UNCHANGED in
        /\ in[q].op = "UpdateRole" => RoleLock(in[q].id) \in locks[q]
        /\ in[r].op = "UpdateRole" => RoleLock(in[r].id) \in locks[r]
    BY DEF Inv, Exclusive, WriteRole, WriterHolds
  <1>2. locks'[q] = locks[q]
    BY DEF WriteRole, Commit, Answer, Inv, TypeOK
  <1>3. CASE in[q].name = None
    BY <1>1, <1>3 DEF Secured
  <1>4. CASE NameLock(in[q].name) \in locks[q] /\ Named(in[q].name) = {}
    <2>1. in[r].name # in[q].name \/ in[r].name = None
      BY <1>1, <1>4 DEF Secured
    <2>2. \A role \in roles : Written(r, role).name # in[q].name
      BY <1>4, <2>1, WrittenRow DEF Named
    <2>3. in[r].op = "CreateRole" => NewRole(r).name # in[q].name
      BY <1>1, <2>1, CreatedRow DEF Fits, Inv
    <2>4. Named(in[q].name)' = {}
      BY <1>1, <2>2, <2>3, WriteRoleEffect DEF Named
    <2> QED  BY <1>1, <1>2, <1>4, <2>4 DEF Secured
  <1>5. CASE in[q].op = "UpdateRole" /\ \E role \in Named(in[q].name) : role.id = in[q].id
    <2>1. PICK role \in Named(in[q].name) : role.id = in[q].id
      BY <1>5
    <2>2. Written(r, role) = role
      BY <1>1, <2>1, <1>5, WrittenRow DEF Named
    <2>3. role \in roles'
      BY <2>1, <2>2, WriteRoleEffect DEF Named
    <2> QED  BY <1>1, <1>5, <2>1, <2>3 DEF Secured, Named
  <1> QED  BY <1>1, <1>3, <1>4, <1>5 DEF Secured

\* Two roles still have two names.
LEMMA WriteRoleUnique ==
  ASSUME Inv, NEW r \in Requests, WriteRole(r), RefersTo(r) \subseteq users
  PROVE  RoleNamesUnique'
  <1>1. Secured(r) /\ Fits(r) /\ pc[r] = "author"
    BY DEF Inv, WriteRole, WriterHolds
  <1>2. ASSUME NEW x \in roles, NEW y \in roles,
               \/ Written(r, x).id = Written(r, y).id
               \/ Written(r, x).name = Written(r, y).name
        PROVE  x = y
    <2>1. x.id = y.id \/ x.name = y.name => x = y
      BY DEF Inv, RoleNamesUnique
    <2>2. Written(r, x).id = x.id /\ Written(r, y).id = y.id
      BY WrittenRow
    <2>3. ASSUME NEW v \in roles, NEW w \in roles, in[r].op = "UpdateRole",
                 v.id = in[r].id, w.id # in[r].id, in[r].name # None
          PROVE  w.name # in[r].name
      BY <1>1, <2>3 DEF Secured, Named, Inv, RoleNamesUnique
    <2>4. CASE in[r].op = "UpdateRole"
      <3>1. CASE x.id = in[r].id /\ y.id # in[r].id
        BY <1>2, <2>1, <2>2, <2>3, <2>4, <3>1, WrittenRow
      <3>2. CASE x.id # in[r].id /\ y.id = in[r].id
        BY <1>2, <2>1, <2>2, <2>3, <2>4, <3>2, WrittenRow
      <3>3. CASE x.id # in[r].id /\ y.id # in[r].id
        BY <1>2, <2>1, <3>3, WrittenRow
      <3> QED  BY <2>1, <3>1, <3>2, <3>3
    <2>5. CASE in[r].op # "UpdateRole"
      BY <1>2, <2>1, <2>5, WrittenRow
    <2> QED  BY <2>4, <2>5
  <1>3. CASE in[r].op = "UpdateRole"
    <2>1. roles' = {Written(r, role) : role \in roles}
      BY <1>3, WriteRoleEffect
    <2> QED  BY <1>2, <2>1 DEF RoleNamesUnique
  <1>4. CASE in[r].op = "CreateRole"
    <2>1. /\ NewRole(r).id = r /\ NewRole(r).name = in[r].name
          /\ in[r].name # None
      BY <1>1, <1>4, CreatedRow DEF Fits, Inv
    <2>2. \A role \in roles : role.name # in[r].name
      BY <1>1, <1>4, <2>1 DEF Secured, Named
    <2>3. \A role \in roles : role.id # r
      BY <1>1 DEF Inv, IdsMinted
    <2>4. roles' = roles \cup {NewRole(r)}
      BY <1>4 DEF WriteRole
    <2> QED  BY <2>1, <2>2, <2>3, <2>4 DEF RoleNamesUnique, Inv
  <1> QED  BY <1>1, <1>3, <1>4 DEF Fits

\* Every author is there: the one of this statement is, or was the author of
\* the row before.
LEMMA WriteRoleAuthors ==
  ASSUME Inv, NEW r \in Requests, WriteRole(r), RefersTo(r) \subseteq users
  PROVE  AuthorsResolve'
  <1>1. Fits(r) /\ pc[r] = "author" /\ users' = users
    BY DEF Inv, WriteRole
  <1>2. \A x \in roles : x.createdBy \in users \cup {None} /\ x.updatedBy \in users \cup {None}
    BY DEF Inv, AuthorsResolve
  <1>3. CASE in[r].op = "UpdateRole"
    <2>1. caller[r] \in users \cup {None}
      BY <1>2, <1>3 DEF RefersTo, RolesWith
    <2>2. \A x \in roles : /\ Written(r, x).createdBy \in users \cup {None}
                           /\ Written(r, x).updatedBy \in users \cup {None}
      BY <1>2, <2>1, WrittenRow
    <2> QED  BY <1>1, <1>3, <2>2, WriteRoleEffect DEF AuthorsResolve
  <1>4. CASE in[r].op = "CreateRole"
    <2>1. NewRole(r).createdBy \in users /\ NewRole(r).updatedBy = None
      BY <1>1, <1>4, CreatedRow DEF RefersTo, Fits, Inv
    <2>2. roles' = roles \cup {NewRole(r)}
      BY <1>4 DEF WriteRole
    <2> QED  BY <1>1, <1>2, <2>1, <2>2 DEF AuthorsResolve
  <1> QED  BY <1>1, <1>3, <1>4 DEF Fits

\* A deletion of a user that holds every row that names the user still does:
\* nobody can have made the user an author of another row.
LEMMA WriteRoleDeleter ==
  ASSUME Inv, NEW r \in Requests, WriteRole(r), RefersTo(r) \subseteq users,
         NEW q \in Requests, q # r
  PROVE  DeleterHolds(q)'
  <1>1. /\ Fits(r) /\ pc[r] = "author" /\ Granted(r) /\ DeleterHolds(q)
        /\ UNCHANGED in /\ pc'[q] = pc[q] /\ locks'[q] = locks[q]
    BY DEF Inv, TypeOK, WriteRole, Commit, Answer
  <1> SUFFICES ASSUME in[q].op = "DeleteUsers", pc[q] = "commit",
                      NEW x \in References(in[q].user)'
               PROVE  RoleLock(x.id) \in locks[q]
    BY <1>1 DEF DeleterHolds
  <1> DEFINE u == in[q].user
  <1>2. x \in roles' /\ u \in {x.createdBy, x.updatedBy}
    BY <1>1 DEF References
  <1>3. u # None
    BY InputShape, RolesAssumption DEF Inv, TypeOK, UserInput
  <1>4. u \notin RefersTo(r)
    <2>1. UserLock(u) \in locks[q]
      BY <1>1 DEF DeleterHolds
    <2>2. UserLock(u) \notin Wants(r)
      BY <1>1, <2>1, GrantedFree
    <2> QED  BY <1>1, <2>2, WantsAt
  <1>5. \A y \in roles : u \in {y.createdBy, y.updatedBy} => RoleLock(y.id) \in locks[q]
    BY <1>1 DEF DeleterHolds, References
  <1>6. CASE in[r].op = "CreateRole"
    <2>1. x \in roles \/ x = NewRole(r)
      BY <1>2, <1>6 DEF WriteRole
    <2>2. NewRole(r).createdBy # u /\ NewRole(r).updatedBy # u
      BY <1>1, <1>3, <1>4, <1>6, CreatedRow DEF RefersTo, Fits, Inv
    <2> QED  BY <1>2, <1>5, <2>1, <2>2
  <1>7. CASE in[r].op = "UpdateRole"
    <2>1. PICK y \in roles : x = Written(r, y)
      BY <1>2, <1>7, WriteRoleEffect
    <2>2. x.id = y.id
      BY <2>1, WrittenRow
    <2>3. CASE u \in {y.createdBy, y.updatedBy}
      BY <1>5, <2>2, <2>3
    <2>4. CASE u \notin {y.createdBy, y.updatedBy}
      <3>1. y.id = in[r].id /\ caller[r] = u
        BY <1>2, <1>7, <2>1, <2>4, WrittenRow
      <3>2. PICK z \in RolesWith(in[r].id) : z.updatedBy = u
        BY <1>4, <1>7, <3>1 DEF RefersTo
      <3> QED  BY <1>5, <2>2, <3>1, <3>2 DEF RolesWith
    <2> QED  BY <2>3, <2>4
  <1> QED  BY <1>1, <1>6, <1>7 DEF Fits

\* A statement that commits and answers keeps the invariant if it keeps what
\* the others rely on.
LEMMA CommitStep ==
  ASSUME Inv, NEW r \in Requests, NEW a \in Answers, Answer(r, a),
         UNCHANGED <<in, caller, at>>, users' \subseteq SeedUsers,
         roles' \subseteq RoleRow,
         IdsMinted', RoleNamesUnique', AuthorsResolve',
         \A q \in Requests \ {r} : pc[q] = "author" => Secured(q)',
         \A q \in Requests \ {r} : DeleterHolds(q)'
  PROVE  Inv'
  <1>1. TypeOK'
    BY DEF Inv, TypeOK, Answer
  <1>2. Exclusive'
    BY ReleaseKeepsApart DEF Inv, Answer
  <1>3. ASSUME NEW q \in Requests
        PROVE  Fits(q)' /\ WriterHolds(q)' /\ DeleterHolds(q)'
    <2>1. CASE q = r
      <3>1. pc'[q] = "done"
        BY <2>1 DEF Answer, Inv, TypeOK
      <3> QED  BY <3>1 DEF Fits, WriterHolds, DeleterHolds
    <2>2. CASE q # r
      <3>1. pc'[q] = pc[q] /\ locks'[q] = locks[q]
        BY <2>2 DEF Answer, Inv, TypeOK
      <3>2. Fits(q) /\ WriterHolds(q)
        BY DEF Inv
      <3>3. Fits(q)'
        BY <3>1, <3>2 DEF Fits
      <3>4. WriterHolds(q)'
        BY <2>2, <3>1, <3>2 DEF WriterHolds
      <3> QED  BY <2>2, <3>3, <3>4
    <2> QED  BY <2>1, <2>2
  <1> QED  BY <1>1, <1>2, <1>3 DEF Inv

LEMMA WriteRoleStep ==
  ASSUME Inv, NEW r \in Requests, WriteRole(r)
  PROVE  Inv'
  <1>1. pc[r] = "author" /\ Fits(r)
    BY DEF WriteRole, Inv
  <1>2. CASE ~(RefersTo(r) \subseteq users)
    BY <1>1, <1>2, AnswerStep DEF WriteRole, Answers
  <1>3. CASE RefersTo(r) \subseteq users
    <2>1. PICK a \in Answers : Answer(r, a)
      BY <1>3 DEF WriteRole, Commit, Answers
    <2>2. roles' \subseteq RoleRow
      BY <1>1, <1>3, WriteRoleEffect, WrittenRow, CreatedRow DEF Fits, Inv
    <2>3. IdsMinted'
      <3>1. pc'[r] = "done" /\ \A q \in Requests \ {r} : pc'[q] = pc[q]
        BY <2>1 DEF Answer, Inv, TypeOK
      <3>2. \A x \in roles' : x.id = r \/ \E y \in roles : x.id = y.id
        BY <1>1, <1>3, WriteRoleEffect, WrittenRow, CreatedRow DEF Fits, Inv
      <3> QED  BY <3>1, <3>2 DEF IdsMinted, Inv
    <2>4. RoleNamesUnique' /\ AuthorsResolve'
      BY <1>3, WriteRoleUnique, WriteRoleAuthors
    <2>5. \A q \in Requests \ {r} : pc[q] = "author" => Secured(q)'
      BY <1>3, WriteRoleSecures
    <2>6. \A q \in Requests \ {r} : DeleterHolds(q)'
      BY <1>3, WriteRoleDeleter
    <2>7. users' \subseteq SeedUsers
      BY DEF WriteRole, Inv, TypeOK
    <2> QED  BY <2>1, <2>2, <2>3, <2>4, <2>5, <2>6, <2>7, CommitStep DEF WriteRole
  <1> QED  BY <1>2, <1>3

-----------------------------------------------------------------------------
\* The next stage of a deletion, when what it has locked by then is known.
LEMMA NextRowStep ==
  ASSUME Inv, NEW r \in Requests, in[r].op \in {"DeleteRole", "DeleteUsers"},
         pc[r] # "done", UNCHANGED <<users, roles, in, caller>>,
         NEW done, NextRow(r, done), done \subseteq locks'[r],
         in[r].op = "DeleteUsers" => UserLock(in[r].user) \in locks'[r],
         \/ UNCHANGED locks
         \/ \E rows \in SUBSET (Lockable \cap Wants(r)) : Hold(r, rows) /\ Granted(r)
  PROVE  Inv'
  <1>1. CASE Remaining(r, done) = {}
    <2>1. Goto(r, "commit") /\ UNCHANGED at
      BY <1>1 DEF NextRow
    <2>2. pc'[r] = "commit"
      BY <2>1 DEF Goto, Inv, TypeOK
    <2>3. in[r].op = "DeleteUsers" =>
            \A role \in References(in[r].user) : RoleLock(role.id) \in done
      BY <1>1, NothingRemains DEF Inv
    <2>4. Fits(r)' /\ WriterHolds(r)' /\ DeleterHolds(r)'
      BY <2>2, <2>3 DEF Fits, WriterHolds, DeleterHolds, References
    <2> QED  BY <2>1, <2>4, GotoStep DEF Stages
  <1>2. CASE Remaining(r, done) # {}
    <2>1. PICK id \in Remaining(r, done) : at' = [at EXCEPT ![r] = id]
      BY <1>2 DEF NextRow
    <2>2. Goto(r, "row")
      BY <1>2 DEF NextRow
    <2>3. id \in RoleIds
      BY <2>1 DEF Remaining, Unlocked, References, Inv, TypeOK, RoleRow
    <2>4. pc'[r] = "row"
      BY <2>2 DEF Goto, Inv, TypeOK
    <2>5. Fits(r)' /\ WriterHolds(r)' /\ DeleterHolds(r)'
      BY <2>4 DEF Fits, WriterHolds, DeleterHolds
    <2> QED  BY <2>1, <2>2, <2>3, <2>5, GotoStep DEF Stages
  <1> QED  BY <1>1, <1>2

LEMMA DeleteCheckStep ==
  ASSUME Inv, NEW r \in Requests, DeleteCheck(r)
  PROVE  Inv'
  <1>1. CASE Answer(r, "validation") /\ UNCHANGED at
    BY <1>1, AnswerStep DEF DeleteCheck, Answers
  <1>2. CASE NextRow(r, {}) /\ UNCHANGED locks
    BY <1>2, NextRowStep DEF DeleteCheck
  <1> QED  BY <1>1, <1>2 DEF DeleteCheck

LEMMA LockRowStep ==
  ASSUME Inv, NEW r \in Requests, LockRow(r)
  PROVE  Inv'
  <1> DEFINE got == {RoleLock(role.id) : role \in
                       {x \in RolesWith(at[r]) :
                          in[r].op = "DeleteUsers" => x \in References(in[r].user)}}
  <1>1. /\ in[r].op \in {"DeleteRole", "DeleteUsers"} /\ pc[r] = "row" /\ Granted(r)
        /\ Hold(r, got) /\ NextRow(r, locks[r] \cup got)
        /\ UNCHANGED <<users, roles, in, caller>>
    BY DEF LockRow
  <1>2. got \subseteq Wants(r)
    BY <1>1, WantsAt DEF RolesWith
  <1>3. got \subseteq Lockable
    BY DEF RolesWith, RoleLock, Lockable, Inv, TypeOK, RoleRow
  <1>4. locks'[r] = locks[r] \cup got
    BY <1>1 DEF Hold, Inv, TypeOK
  <1>5. in[r].op = "DeleteUsers" => UserLock(in[r].user) \in locks'[r]
    BY <1>1, <1>4 DEF Inv, DeleterHolds
  <1> HIDE DEF got
  <1> QED  BY <1>1, <1>2, <1>3, <1>4, <1>5, NextRowStep

LEMMA DeleteUserCheckStep ==
  ASSUME Inv, NEW r \in Requests, DeleteUserCheck(r)
  PROVE  Inv'
  <1>1. pc'[r] = "user" /\ in'[r].op = "DeleteUsers"
    BY DEF DeleteUserCheck, Goto, Inv, TypeOK
  <1>2. Fits(r)' /\ WriterHolds(r)' /\ DeleterHolds(r)'
    BY <1>1 DEF Fits, WriterHolds, DeleterHolds
  <1> QED  BY <1>2, GotoStep DEF DeleteUserCheck, Stages

LEMMA DeleteUserRowStep ==
  ASSUME Inv, NEW r \in Requests, DeleteUserRow(r)
  PROVE  Inv'
  <1>1. in[r].op = "DeleteUsers" /\ pc[r] = "user" /\ Granted(r) /\ in[r] \in UserInput
    BY InputShape DEF DeleteUserRow, Inv, Fits, TypeOK
  <1>2. CASE Answer(r, "ok") /\ UNCHANGED at
    BY <1>1, <1>2, AnswerStep DEF DeleteUserRow, Answers
  <1>3. CASE Hold(r, {UserLock(in[r].user)}) /\ NextRow(r, {})
    <2>1. {UserLock(in[r].user)} \in SUBSET (Lockable \cap Wants(r))
      BY <1>1, WantsAt DEF UserLock, Lockable, UserInput
    <2>2. UserLock(in[r].user) \in locks'[r]
      BY <1>3 DEF Hold, Inv, TypeOK
    <2> QED  BY <1>1, <1>3, <2>1, <2>2, NextRowStep DEF DeleteUserRow
  <1> QED  BY <1>2, <1>3 DEF DeleteUserRow

LEMMA DeleteRoleStep ==
  ASSUME Inv, NEW r \in Requests, DeleteRole(r)
  PROVE  Inv'
  <1>1. PICK a \in Answers : Answer(r, a)
    BY DEF DeleteRole, Commit, Answers
  <1>2. /\ roles' = {role \in roles : RoleLock(role.id) \notin locks[r]}
        /\ UNCHANGED <<users, in, caller, at>>
    BY DEF DeleteRole
  <1>3. RoleNamesUnique' /\ AuthorsResolve'
    BY <1>2 DEF Inv, RoleNamesUnique, AuthorsResolve
  <1>4. \A q \in Requests : pc[q] = "done" => pc'[q] = "done"
    BY <1>1 DEF Answer, Inv, TypeOK
  <1>5. IdsMinted'
    BY <1>2, <1>4 DEF IdsMinted, Inv
  <1>6. ASSUME NEW q \in Requests \ {r}
        PROVE  (pc[q] = "author" => Secured(q)') /\ DeleterHolds(q)'
    <2>1. /\ pc'[q] = pc[q] /\ locks'[q] = locks[q] /\ locks[q] \cap locks[r] = {}
          /\ WriterHolds(q) /\ DeleterHolds(q)
      BY <1>1 DEF Answer, Inv, TypeOK, Exclusive
    <2>2. DeleterHolds(q)'
      BY <1>2, <2>1 DEF DeleterHolds, References
    <2>3. ASSUME pc[q] = "author" PROVE Secured(q)'
      <3>1. Secured(q)
        BY <2>1, <2>3 DEF WriterHolds
      <3>2. \A role \in Named(in[q].name) :
              in[q].op = "UpdateRole" /\ role.id = in[q].id => role \in roles'
        BY <1>2, <2>1, <2>3 DEF WriterHolds, Named
      <3> QED  BY <1>2, <2>1, <3>1, <3>2 DEF Secured, Named
    <2> QED  BY <2>2, <2>3
  <1> QED  BY <1>1, <1>2, <1>3, <1>5, <1>6, CommitStep DEF Inv, TypeOK

LEMMA DeleteUserStep ==
  ASSUME Inv, NEW r \in Requests, DeleteUser(r)
  PROVE  Inv'
  <1> DEFINE u == in[r].user
             F(role) == IF RoleLock(role.id) \in locks[r] THEN Forgotten(u, role) ELSE role
  <1>1. PICK a \in Answers : Answer(r, a)
    BY DEF DeleteUser, Commit, Answers
  <1>2. /\ roles' = {F(role) : role \in roles}
        /\ users' = users \ {u}
        /\ UNCHANGED <<in, caller, at>>
    BY DEF DeleteUser
  <1>3. \A role \in roles :
          /\ F(role) \in RoleRow /\ F(role).id = role.id /\ F(role).name = role.name
          /\ F(role).createdBy \in {role.createdBy, None}
          /\ F(role).updatedBy \in {role.updatedBy, None}
    BY ForgottenRow DEF Inv, TypeOK
  <1>4. \A role \in roles : u \notin {F(role).createdBy, F(role).updatedBy}
    <2>1. \A role \in References(u) : RoleLock(role.id) \in locks[r]
      BY DEF DeleteUser, Inv, DeleterHolds
    <2>2. u # None
      BY InputShape, RolesAssumption DEF DeleteUser, Inv, TypeOK, UserInput
    <2> QED  BY <2>1, <2>2, ForgottenRow DEF References, Inv, TypeOK
  <1> HIDE DEF F
  <1>5. RoleNamesUnique'
    BY <1>2, <1>3 DEF Inv, RoleNamesUnique
  <1>6. AuthorsResolve'
    BY <1>2, <1>3, <1>4 DEF Inv, AuthorsResolve
  <1>7. IdsMinted'
    <2>1. \A q \in Requests : pc[q] = "done" => pc'[q] = "done"
      BY <1>1 DEF Answer, Inv, TypeOK
    <2> QED  BY <1>2, <1>3, <2>1 DEF IdsMinted, Inv
  <1>8. ASSUME NEW q \in Requests \ {r}
        PROVE  (pc[q] = "author" => Secured(q)') /\ DeleterHolds(q)'
    <2>1. /\ pc'[q] = pc[q] /\ locks'[q] = locks[q]
          /\ WriterHolds(q) /\ DeleterHolds(q)
      BY <1>1 DEF Answer, Inv, TypeOK
    <2>2. in[q].op = "DeleteUsers" => in[q].user # None
      BY InputShape, RolesAssumption DEF Inv, TypeOK, UserInput
    <2>3. DeleterHolds(q)'
      BY <1>2, <1>3, <2>1, <2>2 DEF DeleterHolds, References
    <2>4. pc[q] = "author" => Secured(q)'
      BY <1>2, <1>3, <2>1 DEF WriterHolds, Secured, Named
    <2> QED  BY <2>3, <2>4
  <1>9. roles' \subseteq RoleRow /\ users' \subseteq SeedUsers
    BY <1>2, <1>3 DEF Inv, TypeOK
  <1> QED  BY <1>1, <1>2, <1>5, <1>6, <1>7, <1>8, <1>9, CommitStep

-----------------------------------------------------------------------------
LEMMA NextInv == Inv /\ [Next]_vars => Inv'
  <1> SUFFICES ASSUME Inv, [Next]_vars PROVE Inv'
    OBVIOUS
  <1>1. CASE UNCHANGED vars
    BY <1>1 DEF vars, Inv, TypeOK, Exclusive, IdsMinted, Fits, WriterHolds, Secured,
              Named, DeleterHolds, References, RoleNamesUnique, AuthorsResolve
  <1>2. ASSUME NEW r \in Requests, Rollback(r) PROVE Inv'
    BY <1>2, AnswerStep DEF Rollback, Stages, Answers
  <1>3. ASSUME NEW r \in Requests, Step(r) PROVE Inv'
    BY <1>3, CreateCheckStep, UpdateCheckStep, UpdateRowStep, WriteNameStep,
       WriteRoleStep, DeleteCheckStep, LockRowStep, DeleteRoleStep,
       DeleteUserCheckStep, DeleteUserRowStep, DeleteUserStep DEF Step
  <1> QED  BY <1>1, <1>2, <1>3, ReceiveStep DEF Next, Abort, DeadlockVictim, Idle

THEOREM InvHolds == Spec => []Inv
  BY InitInv, NextInv, PTL DEF Spec

\* The variables of Roles have the types of the rows, inputs and locks.
THEOREM TypesHold == Spec => []TypeOK
  <1>1. Inv => TypeOK
    BY DEF Inv
  <1> QED  BY <1>1, InvHolds, PTL

\* Two roles never have one name, though the name is looked for by one
\* statement and written by another: the entry of the index is held from the
\* moment the name is seen to be free until the row is there.
THEOREM RoleNamesStayUnique == Spec => []RoleNamesUnique
  <1>1. Inv => RoleNamesUnique
    BY DEF Inv
  <1> QED  BY <1>1, InvHolds, PTL

\* created_by and updated_by name users there are, though an UPDATE that does
\* not change updated_by checks no key: a deletion of the user has locked, or
\* waits for, every row that names the user.
THEOREM AuthorsStayResolved == Spec => []AuthorsResolve
  <1>1. Inv => AuthorsResolve
    BY DEF Inv
  <1> QED  BY <1>1, InvHolds, PTL

-----------------------------------------------------------------------------
(***************************************************************************)
(* That no update is lost needs no lock, but that an UPDATE writes what it *)
(* was given into the row as it is by then, and that nobody was told of an *)
(* update of a role that is yet to be created.                             *)
(***************************************************************************)
Asked(r) ==
  /\ pc[r] = "new" => in[r] = NoInput
  /\ pc[r] # "done" => resp[r] = "none"
  /\ in[r].op = "UpdateRole" /\ in[r].id \in Requests => pc[in[r].id] = "done"

\* UpdatesStay of one role and one request.
Kept(role, r) ==
  Gave(r, role.id) /\ resp[r] = "ok" =>
    /\ in[r].name # None =>
         \/ role.name = in[r].name
         \/ \E q \in Requests \ {r} : Gave(q, role.id) /\ in[q].name = role.name
    /\ in[r].description # None =>
         \/ role.description = in[r].description
         \/ \E q \in Requests \ {r} :
              Gave(q, role.id) /\ in[q].description = role.description
              /\ in[q].description # None

StayInv == (\A r \in Requests : Asked(r)) /\ UpdatesStay

LEMMA StaysForEach == UpdatesStay <=> \A role \in roles, r \in Requests : Kept(role, r)
  BY DEF UpdatesStay, Kept

\* A step of r goes on or answers.
LEMMA StepShape ==
  ASSUME NEW r \in Requests, Step(r) \/ Rollback(r)
  PROVE  /\ pc[r] \in Stages
         /\ UNCHANGED in
         /\ (\E s \in Stages : Goto(r, s)) \/ (\E a \in Answers : Answer(r, a))
  <1> USE DEF Stages, Answers
  <1>1. CASE Rollback(r)
    BY <1>1 DEF Rollback
  <1>2. CASE CreateCheck(r) \/ UpdateCheck(r)
    BY <1>2 DEF CreateCheck, UpdateCheck
  <1>3. CASE UpdateRow(r) \/ WriteName(r)
    BY <1>3 DEF UpdateRow, WriteName
  <1>4. CASE WriteRole(r) \/ DeleteRole(r) \/ DeleteUser(r)
    BY <1>4 DEF WriteRole, DeleteRole, DeleteUser, Commit
  <1>5. CASE DeleteCheck(r) \/ LockRow(r) \/ DeleteUserCheck(r) \/ DeleteUserRow(r)
    BY <1>5 DEF DeleteCheck, LockRow, DeleteUserCheck, DeleteUserRow, NextRow
  <1> QED  BY <1>1, <1>2, <1>3, <1>4, <1>5 DEF Step

LEMMA AskedStep ==
  ASSUME TypeOK, \A q \in Requests : Asked(q), NEW r \in Requests,
         Step(r) \/ Rollback(r), NEW p \in Requests
  PROVE  Asked(p)'
  <1>1. /\ \A q \in Requests : pc[q] = "done" => pc'[q] = "done"
        /\ \A q \in Requests : pc'[q] = "new" => pc[q] = "new"
        /\ \A q \in Requests : pc'[q] # "done" => resp'[q] = resp[q] /\ pc[q] # "done"
        /\ UNCHANGED in
    BY StepShape DEF Goto, Answer, TypeOK, Stages
  <1> QED  BY <1>1 DEF Asked

\* Every action but WriteRole leaves names and descriptions alone, or takes
\* the row away, and tells nobody of an update.
LEMMA OtherStepsKeep ==
  ASSUME Inv, StayInv, NEW r \in Requests, Step(r) \/ Rollback(r), ~WriteRole(r)
  PROVE  UpdatesStay'
  <1>1. \A x \in roles' : \E y \in roles :
          x.id = y.id /\ x.name = y.name /\ x.description = y.description
    <2>1. CASE DeleteRole(r)
      BY <2>1 DEF DeleteRole
    <2>2. CASE DeleteUser(r)
      BY <2>2, ForgottenRow DEF DeleteUser, Inv, TypeOK
    <2>3. CASE UNCHANGED roles
      BY <2>3
    <2> QED
      BY <2>1, <2>2, <2>3 DEF Step, Rollback, CreateCheck, UpdateCheck, UpdateRow, WriteName,
         DeleteCheck, LockRow, DeleteUserCheck, DeleteUserRow
  <1>2. \A q \in Requests : resp'[q] = "ok" /\ in[q].op = "UpdateRole" => resp[q] = "ok"
    <2>1. CASE in[r].op = "UpdateRole"
      <3>1. UpdateCheck(r) \/ UpdateRow(r) \/ WriteName(r) \/ Rollback(r)
        BY <2>1 DEF Step, CreateCheck, DeleteCheck, LockRow, DeleteRole,
           DeleteUserCheck, DeleteUserRow, DeleteUser, Inv, Fits
      <3> QED
        BY <3>1 DEF UpdateCheck, UpdateRow, WriteName, Rollback, Goto, Answer, Inv, TypeOK
    <2>2. CASE in[r].op # "UpdateRole"
      BY <2>2, StepShape DEF Goto, Answer, Inv, TypeOK
    <2> QED  BY <2>1, <2>2
  <1>3. ASSUME NEW x \in roles', NEW q \in Requests PROVE Kept(x, q)'
    <2>1. PICK y \in roles : x.id = y.id /\ x.name = y.name /\ x.description = y.description
      BY <1>1, <1>3
    <2>2. Kept(y, q)
      BY StaysForEach DEF StayInv
    <2> QED  BY <1>2, <2>1, <2>2, StepShape DEF Kept, Gave
  <1> QED  BY <1>3 DEF UpdatesStay, Kept

LEMMA WriteRoleKeeps ==
  ASSUME Inv, StayInv, NEW r \in Requests, WriteRole(r)
  PROVE  UpdatesStay'
  <1>1. /\ pc[r] = "author" /\ Fits(r) /\ UNCHANGED in
        /\ \A q \in Requests \ {r} : resp'[q] = resp[q]
    BY DEF WriteRole, Inv, Commit, Answer, TypeOK
  <1>2. CASE ~(RefersTo(r) \subseteq users)
    BY <1>1, <1>2 DEF WriteRole, Answer, Inv, StayInv, TypeOK, UpdatesStay, Gave
  <1>3. CASE RefersTo(r) \subseteq users
    <2> SUFFICES ASSUME NEW x \in roles', NEW p \in Requests PROVE Kept(x, p)'
      BY DEF UpdatesStay, Kept
    <2>1. CASE in[r].op = "CreateRole" /\ x = NewRole(r)
      <3>1. x.id = r
        BY <1>1, <2>1, CreatedRow DEF Fits, Inv
      <3>2. ~Gave(p, r)
        BY <1>1 DEF Gave, StayInv, Asked
      <3> QED  BY <1>1, <3>1, <3>2 DEF Kept, Gave
    <2>2. ASSUME NEW y \in roles, x = Written(r, y) PROVE Kept(x, p)'
      <3>1. Kept(y, p) /\ x.id = y.id
        BY <2>2, WrittenRow, StaysForEach DEF StayInv
      <3>2. CASE Gave(r, y.id)
        <4>1. /\ x.name = IF in[r].name = None THEN y.name ELSE in[r].name
              /\ x.description = IF in[r].description = None THEN y.description
                                                             ELSE in[r].description
          BY <2>2, <3>2, WrittenRow DEF Gave
        <4>2. CASE p = r
          BY <1>1, <3>1, <3>2, <4>1, <4>2 DEF Kept, Gave
        <4>3. CASE p # r
          <5>1. r \in Requests \ {p} /\ resp'[p] = resp[p]
            BY <1>1, <4>3
          <5> QED  BY <1>1, <3>1, <3>2, <4>1, <5>1 DEF Kept, Gave
        <4> QED  BY <4>2, <4>3
      <3>3. CASE ~Gave(r, y.id)
        <4>1. x = y
          BY <2>2, <3>3, WrittenRow DEF Gave
        <4> QED  BY <1>1, <3>1, <3>3, <4>1 DEF Kept, Gave
      <3> QED  BY <3>2, <3>3
    <2> QED  BY <1>3, <2>1, <2>2, WriteRoleEffect
  <1> QED  BY <1>2, <1>3

LEMMA ReceiveKeeps ==
  ASSUME Inv, StayInv, NEW r \in Requests, Receive(r)
  PROVE  StayInv'
  <1>1. PICK i \in Input :
          /\ in' = [in EXCEPT ![r] = i]
          /\ Presentable(i)
          /\ Goto(r, "call")
    BY DEF Receive
  <1>2. /\ pc[r] = "new" /\ in[r] = NoInput /\ resp[r] = "none"
        /\ UNCHANGED <<roles, resp>>
    BY <1>1 DEF Receive, Goto, StayInv, Asked
  <1>3. \A q \in Requests :
          /\ q # r => in'[q] = in[q] /\ pc'[q] = pc[q]
          /\ q = r => in'[q] = i /\ pc'[q] = "call"
    BY <1>1 DEF Goto, Inv, TypeOK
  <1>4. i.op = "UpdateRole" /\ i.id \in Requests => pc[i.id] = "done"
    <2> SUFFICES ASSUME i.op = "UpdateRole", i.id \in Requests PROVE pc[i.id] = "done"
      OBVIOUS
    <2>1. i \in UpdateInput
      BY InputShape
    <2>2. i.id \in {role.id : role \in roles \cup SeedRoles}
      BY <1>1, <2>1 DEF Presentable, KnownRoles
    <2> QED  BY <2>2, RolesAssumption DEF Inv, IdsMinted
  <1>5. ASSUME NEW q \in Requests PROVE Asked(q)'
    BY <1>2, <1>3, <1>4 DEF StayInv, Asked
  <1>6. ASSUME NEW x \in roles', NEW q \in Requests PROVE Kept(x, q)'
    <2>1. Kept(x, q)
      BY <1>2, StaysForEach DEF StayInv
    <2>2. \A p \in Requests : Gave(p, x.id) => p # r
      BY <1>2 DEF Gave, NoInput
    <2> QED  BY <1>2, <1>3, <2>1, <2>2 DEF Kept, Gave
  <1> QED  BY <1>5, <1>6 DEF StayInv, UpdatesStay, Kept

LEMMA InitStays == Init => StayInv
  BY DEF Init, StayInv, Asked, NoInput, UpdatesStay, Gave

LEMMA NextStays == Inv /\ StayInv /\ [Next]_vars => StayInv'
  <1> SUFFICES ASSUME Inv, StayInv, [Next]_vars PROVE StayInv'
    OBVIOUS
  <1>1. CASE UNCHANGED vars
    BY <1>1 DEF vars, StayInv, Asked, UpdatesStay, Gave
  <1>2. ASSUME NEW r \in Requests, Step(r) \/ Rollback(r) PROVE StayInv'
    <2>1. \A p \in Requests : Asked(p)'
      BY <1>2, AskedStep DEF Inv, StayInv
    <2>2. UpdatesStay'
      BY <1>2, OtherStepsKeep, WriteRoleKeeps
    <2> QED  BY <2>1, <2>2 DEF StayInv
  <1> QED  BY <1>1, <1>2, ReceiveKeeps DEF Next, Abort, DeadlockVictim, Idle

\* A name or description that was set, and the client told so, is there until
\* another request gives the same column, however many updates of a role run
\* beside each other.
THEOREM UpdatesAlwaysStay == Spec => []UpdatesStay
  <1>1. StayInv => UpdatesStay
    BY DEF StayInv
  <1> QED  BY <1>1, InitInv, NextInv, InitStays, NextStays, PTL DEF Spec
=============================================================================
