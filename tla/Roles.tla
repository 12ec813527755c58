------------------------------- MODULE Roles --------------------------------
(***************************************************************************)
(* auth/role.go: creating, changing and deleting roles, with the handlers  *)
(* of auth/api/rbac.go, beside deletions of the users they refer to.       *)
(*                                                                         *)
(* No operation here opens a transaction.  A name is checked by a          *)
(* statement of its own, and the INSERT, UPDATE or DELETE that follows is  *)
(* a transaction for itself.  Such a statement waits at several places: for *)
(* the rows it changes, for whoever writes the same name, for a deletion of *)
(* the user its foreign key names.  A step is what runs between two waits; *)
(* the writes of a statement are seen when it commits.                     *)
(***************************************************************************)
EXTENDS Integers, FiniteSets

CONSTANTS
  Requests,   \* the requests that may arrive; also the ids they mint
  SeedUsers,  \* the ids of auth.users before the first request
  SeedRoles,  \* the rows of auth.roles before the first request
  Names, Descriptions,
  None,       \* nil, NULL or an empty string
  Ops,        \* bound: Ops[r], the operations request r may call
  Faulty      \* bound: the requests whose statements may fail

RoleIds == {role.id : role \in SeedRoles} \cup Requests
RoleRow == [id: RoleIds, name: Names, description: Descriptions \cup {None},
            createdBy: SeedUsers \cup {None}, updatedBy: SeedUsers \cup {None}]

CreateInput == [op: {"CreateRole"}, name: Names \cup {None},
                description: Descriptions \cup {None}]
UpdateInput == [op: {"UpdateRole"}, id: RoleIds, name: Names \cup {None},
                description: Descriptions \cup {None}]
DeleteInput == [op: {"DeleteRole"}, ids: SUBSET RoleIds]
UserInput == [op: {"DeleteUsers"}, user: SeedUsers]
NoInput == [op |-> "none"]
Input == UNION {CreateInput, UpdateInput, DeleteInput, UserInput}

\* What can be locked: a row of roles, a row of users with its key, an entry
\* of the unique index on name.
RoleLock(id) == <<"role", id>>
UserLock(u) == <<"user", u>>
NameLock(n) == <<"name", n>>
Lockable == {"role"} \X RoleIds \cup {"user"} \X SeedUsers \cup {"name"} \X Names

ASSUME RolesAssumption ==
  /\ SeedRoles \subseteq RoleRow
  /\ \A x, y \in SeedRoles : x.id = y.id \/ x.name = y.name => x = y
  /\ \A x \in SeedRoles : x.id \notin Requests
  /\ None \notin SeedUsers \cup Names \cup Descriptions

VARIABLES
  users, roles,  \* the committed rows; of users the ids
  in,       \* in[r]: what r asks for
  caller,   \* caller[r]: f.Session.User, None without a session
  pc,       \* pc[r]: where the statement of r stands
  at,       \* at[r]: the row of roles it stands at
  locks,    \* locks[r]: the locks it holds
  resp      \* resp[r]: the answer

vars == <<users, roles, in, caller, pc, at, locks, resp>>

Stages == {"call", "row", "name", "author", "user", "commit"}
Answers == {"none", "ok", "validation", "not_found", "exists", "internal"}

-----------------------------------------------------------------------------
RolesWith(id) == {role \in roles : role.id = id}
Named(n) == {role \in roles : role.name = n}

Goto(r, stage) == pc' = [pc EXCEPT ![r] = stage] /\ UNCHANGED resp
Hold(r, rows) == locks' = [locks EXCEPT ![r] = @ \cup rows]

\* Mutant: a statement that failed leaves its transaction open.
AnswerAndHold(r, a) ==
  /\ pc' = [pc EXCEPT ![r] = "done"]
  /\ resp' = [resp EXCEPT ![r] = a]
  /\ UNCHANGED locks
Answer(r, a) ==
  /\ pc' = [pc EXCEPT ![r] = "done"]
  /\ resp' = [resp EXCEPT ![r] = a]
  /\ locks' = [locks EXCEPT ![r] = {}]
Commit(r) == Answer(r, "ok") \/ (r \in Faulty /\ Answer(r, "internal"))

\* The row that the statement of r makes of an existing one: updated_by, and
\* of the other columns those that were given.
\* Mutant: both columns are set, given or not.
Overwritten(r, role) ==
  [role EXCEPT !.name = IF in[r].name = None THEN @ ELSE in[r].name,
               !.description = in[r].description,
               !.updatedBy = caller[r]]
Updated(r, role) ==
  [role EXCEPT !.name = IF in[r].name = None THEN @ ELSE in[r].name,
               !.description = IF in[r].description = None
                                 THEN @ ELSE in[r].description,
               !.updatedBy = caller[r]]
NewRole(r) ==
  [id |-> r, name |-> in[r].name, description |-> in[r].description,
   createdBy |-> caller[r], updatedBy |-> None]

\* Mutant: created_by and updated_by without REFERENCES.
RefersToNobody(r) == {}
\* The user whose key the foreign key check of the statement asks for.  The
\* check of a column that does not change is skipped.
RefersTo(r) ==
  IF in[r].op = "CreateRole" THEN {caller[r]}
  ELSE {caller[r]} \ {role.updatedBy : role \in RolesWith(in[r].id)}

\* A new entry of a unique index waits for whoever inserts the same one, and
\* for whoever is about to change or delete the row that has it.
Wants(r) ==
  CASE pc[r] = "row" -> {RoleLock(at[r])}
    [] pc[r] = "name" -> {NameLock(in[r].name)} \cup
                         {RoleLock(role.id) : role \in Named(in[r].name)}
    [] pc[r] = "author" -> {UserLock(u) : u \in RefersTo(r)}
    [] pc[r] = "user" -> {UserLock(in[r].user)}
    [] OTHER -> {}

Waits(r, q) == q # r /\ Wants(r) \cap locks[q] # {}
Granted(r) == \A q \in Requests : ~Waits(r, q)

AllWait(S) == \A p \in S : \E q \in S : Waits(p, q)
OnCycle(r) ==
  \E S \in SUBSET Requests :
    r \in S /\ AllWait(S) /\ \A T \in (SUBSET S) \ {S, {}} : ~AllWait(T)

-----------------------------------------------------------------------------
Init ==
  /\ users = SeedUsers /\ roles = SeedRoles
  /\ in = [r \in Requests |-> NoInput]
  /\ caller = [r \in Requests |-> None]
  /\ pc = [r \in Requests |-> "new"]
  /\ at = [r \in Requests |-> None]
  /\ locks = [r \in Requests |-> {}]
  /\ resp = [r \in Requests |-> "none"]

\* What a client can name.
KnownRoles == {role.id : role \in roles \cup SeedRoles}
Presentable(i) ==
  /\ i \in UpdateInput => i.id \in KnownRoles
  /\ i \in DeleteInput => i.ids \subseteq KnownRoles

\* A request arrives, with a session of a user there is or without one.
Receive(r) ==
  /\ pc[r] = "new"
  /\ \E i \in Input, u \in users \cup {None} :
       /\ i.op \in Ops[r] /\ Presentable(i)
       /\ in' = [in EXCEPT ![r] = i]
       /\ caller' = [caller EXCEPT ![r] = u]
       /\ Goto(r, "call")
  /\ UNCHANGED <<users, roles, at, locks>>

\* Mutant: an empty name is not refused.
NothingMissing(r) == FALSE
NameMissing(r) == in[r].name = None

\* The validation; SELECT EXISTS of the name, a statement of its own; then
\* f.Session.User, a panic without a session.
CreateCheck(r) ==
  /\ in[r].op = "CreateRole" /\ pc[r] = "call"
  /\ IF NameMissing(r) THEN Answer(r, "validation")
     ELSE IF Named(in[r].name) # {} THEN Answer(r, "exists")
     ELSE IF caller[r] = None THEN Answer(r, "internal")
     ELSE Goto(r, "name") /\ UNCHANGED locks
  /\ UNCHANGED <<users, roles, in, caller, at>>

\* SELECT EXISTS of another role of this name, when a name is given.
UpdateCheck(r) ==
  /\ in[r].op = "UpdateRole" /\ pc[r] = "call"
  /\ \/ /\ in[r].name = None /\ in[r].description = None
        /\ Answer(r, "validation")
        /\ UNCHANGED at
     \/ /\ in[r].name # None \/ in[r].description # None
        /\ IF in[r].name # None /\ \E role \in Named(in[r].name) : role.id # in[r].id
             THEN Answer(r, "exists") /\ UNCHANGED at
           ELSE IF caller[r] = None
             THEN Answer(r, "internal") /\ UNCHANGED at
           ELSE /\ at' = [at EXCEPT ![r] = in[r].id]
                /\ Goto(r, "row")
                /\ UNCHANGED locks
  /\ UNCHANGED <<users, roles, in, caller>>

\* UPDATE ... WHERE id = $1 gets the row, and reads it again.  A name that
\* stays the same makes no new entry in its index.
UpdateRow(r) ==
  /\ in[r].op = "UpdateRole" /\ pc[r] = "row"
  /\ Granted(r)
  /\ \/ \E role \in RolesWith(in[r].id) :
          /\ Hold(r, {RoleLock(role.id)})
          /\ Goto(r, IF in[r].name \in {None, role.name} THEN "author" ELSE "name")
     \/ RolesWith(in[r].id) = {} /\ Answer(r, "not_found")
  /\ UNCHANGED <<users, roles, in, caller, at>>

\* Mutant: name without UNIQUE.
NoEntry(n) == {}
EntryOf(n) == {NameLock(n)}

\* INSERT or UPDATE writes the entry for its name.  The constraint refuses one
\* that is there by now; no handler maps that error.
WriteName(r) ==
  /\ pc[r] = "name"
  /\ Granted(r)
  /\ IF Named(in[r].name) = {}
       THEN Hold(r, EntryOf(in[r].name)) /\ Goto(r, "author")
       ELSE Answer(r, "internal")
  /\ UNCHANGED <<users, roles, in, caller, at>>

\* The foreign key of created_by or updated_by, and the end of the statement.
WriteRole(r) ==
  /\ pc[r] = "author"
  /\ Granted(r)
  /\ IF RefersTo(r) \subseteq users
       THEN /\ roles' = IF in[r].op = "CreateRole"
                          THEN roles \cup {NewRole(r)}
                          ELSE {IF role.id = in[r].id THEN Updated(r, role)
                                                      ELSE role : role \in roles}
            /\ Commit(r)
       ELSE Answer(r, "internal") /\ UNCHANGED roles
  /\ UNCHANGED <<users, in, caller, at>>

-----------------------------------------------------------------------------
\* The rows that a DELETE of roles, or the cascade of a DELETE of a user, has
\* still to lock once `done` are: ON DELETE SET NULL updates the rows of
\* created_by first, then those of updated_by.
References(u) == {role \in roles : u \in {role.createdBy, role.updatedBy}}
Unlocked(rows, done) == {role.id : role \in rows} \ {id \in RoleIds : RoleLock(id) \in done}
Remaining(r, done) ==
  IF in[r].op = "DeleteRole"
    THEN Unlocked({role \in roles : role.id \in in[r].ids}, done)
    ELSE LET made == Unlocked({role \in roles : role.createdBy = in[r].user}, done)
         IN  IF made # {} THEN made ELSE Unlocked(References(in[r].user), done)

NextRow(r, done) ==
  IF Remaining(r, done) = {}
    THEN Goto(r, "commit") /\ UNCHANGED at
    ELSE /\ \E id \in Remaining(r, done) : at' = [at EXCEPT ![r] = id]
         /\ Goto(r, "row")

DeleteCheck(r) ==
  /\ in[r].op = "DeleteRole" /\ pc[r] = "call"
  /\ IF in[r].ids = {} THEN Answer(r, "validation") /\ UNCHANGED at
                       ELSE NextRow(r, {}) /\ UNCHANGED locks
  /\ UNCHANGED <<users, roles, in, caller>>

\* One row after the other, in an order nothing fixes; one that is gone, or
\* refers to the user no longer, is skipped.
LockRow(r) ==
  /\ in[r].op \in {"DeleteRole", "DeleteUsers"} /\ pc[r] = "row"
  /\ Granted(r)
  /\ LET got == {RoleLock(role.id) : role \in
                   {x \in RolesWith(at[r]) :
                      in[r].op = "DeleteUsers" => x \in References(in[r].user)}}
     IN  Hold(r, got) /\ NextRow(r, locks[r] \cup got)
  /\ UNCHANGED <<users, roles, in, caller>>

DeleteRole(r) ==
  /\ in[r].op = "DeleteRole" /\ pc[r] = "commit"
  /\ roles' = {role \in roles : RoleLock(role.id) \notin locks[r]}
  /\ Commit(r)
  /\ UNCHANGED <<users, in, caller, at>>

\* DELETE FROM auth.users of one user: the row and its key, then the cascade.
DeleteUserCheck(r) ==
  /\ in[r].op = "DeleteUsers" /\ pc[r] = "call"
  /\ Goto(r, "user")
  /\ UNCHANGED <<users, roles, in, caller, at, locks>>

DeleteUserRow(r) ==
  /\ pc[r] = "user"
  /\ Granted(r)
  /\ IF in[r].user \in users
       THEN Hold(r, {UserLock(in[r].user)}) /\ NextRow(r, {})
       ELSE Answer(r, "ok") /\ UNCHANGED at
  /\ UNCHANGED <<users, roles, in, caller>>

\* Mutant: updated_by without ON DELETE SET NULL.
CreatorForgotten(u, role) ==
  [role EXCEPT !.createdBy = IF @ = u THEN None ELSE @]
Forgotten(u, role) ==
  [role EXCEPT !.createdBy = IF @ = u THEN None ELSE @,
               !.updatedBy = IF @ = u THEN None ELSE @]

DeleteUser(r) ==
  /\ in[r].op = "DeleteUsers" /\ pc[r] = "commit"
  /\ users' = users \ {in[r].user}
  /\ roles' = {IF RoleLock(role.id) \in locks[r]
                  THEN Forgotten(in[r].user, role) ELSE role : role \in roles}
  /\ Commit(r)
  /\ UNCHANGED <<in, caller, at>>

-----------------------------------------------------------------------------
Step(r) ==
  \/ CreateCheck(r)
  \/ UpdateCheck(r) \/ UpdateRow(r)
  \/ WriteName(r) \/ WriteRole(r)
  \/ DeleteCheck(r) \/ LockRow(r) \/ DeleteRole(r)
  \/ DeleteUserCheck(r) \/ DeleteUserRow(r) \/ DeleteUser(r)

Rollback(r) ==
  /\ pc[r] \in Stages
  /\ Answer(r, "internal")
  /\ UNCHANGED <<users, roles, in, caller, at>>
Abort(r) == r \in Faulty /\ Rollback(r)
DeadlockVictim == \E r \in Requests : OnCycle(r) /\ Rollback(r)

Idle == (\A r \in Requests : pc[r] \in {"new", "done"}) /\ UNCHANGED vars

Next ==
  \/ \E r \in Requests : Receive(r) \/ Step(r) \/ Abort(r)
  \/ DeadlockVictim
  \/ Idle

Spec == Init /\ [][Next]_vars

\* As in AuthService: statements that can run run, and PostgreSQL breaks
\* circles of waits.
Fairness == (\A r \in Requests : WF_vars(Step(r))) /\ WF_vars(DeadlockVictim)
FairSpec == Spec /\ Fairness

-----------------------------------------------------------------------------
TypeOK ==
  /\ users \subseteq SeedUsers
  /\ roles \subseteq RoleRow
  /\ in \in [Requests -> Input \cup {NoInput}]
  /\ caller \in [Requests -> SeedUsers \cup {None}]
  /\ pc \in [Requests -> Stages \cup {"new", "done"}]
  /\ at \in [Requests -> RoleIds \cup {None}]
  /\ locks \in [Requests -> SUBSET Lockable]
  /\ resp \in [Requests -> Answers]

\* Of two roles with one name there is never both, though CreateRole and
\* UpdateRole look for the name in one statement and write it in another: a
\* name may be taken, renamed away or deleted between the two.
RoleNamesUnique ==
  \A x, y \in roles : x.id = y.id \/ x.name = y.name => x = y

Gave(r, id) == in[r].op = "UpdateRole" /\ in[r].id = id

\* No update is lost: a name or description that was set, and the client told
\* so, is there until another request gives the same column.
UpdatesStay ==
  \A role \in roles, r \in Requests :
    Gave(r, role.id) /\ resp[r] = "ok" =>
      /\ in[r].name # None =>
           \/ role.name = in[r].name
           \/ \E q \in Requests \ {r} : Gave(q, role.id) /\ in[q].name = role.name
      /\ in[r].description # None =>
           \/ role.description = in[r].description
           \/ \E q \in Requests \ {r} :
                Gave(q, role.id) /\ in[q].description = role.description
                /\ in[q].description # None

\* No role names a user that is gone, though an update whose updated_by stays
\* the same checks no foreign key, and its user may be deleted meanwhile.
AuthorsResolve ==
  \A role \in roles : {role.createdBy, role.updatedBy} \subseteq users \cup {None}

\* Every request is answered, though renames wait for each other's rows, and
\* the update of a role by its creator waits for the key of a user whose
\* deletion waits for the role.
EveryRoleRequestAnswered ==
  \A r \in Requests : pc[r] # "new" ~> pc[r] = "done"
=============================================================================
