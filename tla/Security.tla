------------------------------ MODULE Security ------------------------------
(***************************************************************************)
(* auth/security.go: banning and unbanning a user, with the handlers of    *)
(* auth/api/security.go.                                                   *)
(***************************************************************************)
EXTENDS Sessions

\* The validation, Begin and unbannedAt.
BanStart(r) ==
  /\ in[r].op = "BanUser" /\ pc[r] = "call"
  /\ IF in[r].duration = 0
       THEN Answer(r, "validation")
       ELSE /\ loc' = [loc EXCEPT ![r].user = in[r].user]
            /\ Goto(r, "lock_user")
            /\ UNCHANGED locks
  /\ UNCHANGED <<db, now, in, flow>>

\* SELECT EXISTS (SELECT id FROM auth.users ... FOR NO KEY UPDATE).
BanLockUser(r) ==
  /\ in[r].op = "BanUser" /\ pc[r] = "lock_user"
  /\ Granted(r)
  /\ IF loc[r].user \in Ids(users)
       THEN /\ Hold(r, ForNoKeyUpdate(loc[r].user))
            /\ Goto(r, "check_ban")
            /\ UNCHANGED loc
       ELSE Answer(r, "not_found")
  /\ UNCHANGED <<db, now, in, flow>>

\* Mutant: a permanent ban, whose two times are equal, is not seen.
TimedBanExists(r) ==
  \E b \in bans : b.user = loc[r].user /\ b.unbannedAt > flow[r].time
BanExists(r) ==
  \E b \in bans : b.user = loc[r].user /\ ActiveBan(b, flow[r].time)

\* SELECT EXISTS of an active ban, FOR NO KEY UPDATE.
BanCheck(r) ==
  /\ in[r].op = "BanUser" /\ pc[r] = "check_ban"
  /\ Granted(r)
  /\ IF BanExists(r) /\ ~in[r].replace
       THEN Answer(r, "exists")
       ELSE /\ Hold(r, IF BanExists(r) THEN {BanLock(loc[r].user)} ELSE {})
            /\ Goto(r, "upsert_ban")
            /\ UNCHANGED loc
  /\ UNCHANGED <<db, now, in, flow>>

\* What is left of a product in 64 bits.
Int64(n) == ((n + DurationLimit) % (2 * DurationLimit)) - DurationLimit

\* Mutant: the seconds are taken for nanoseconds.
DurationWithoutUnit(n) == Int64(n)
\* time.Duration(in.Duration) * time.Second.
Duration(n) == Int64(n * Second)

NewBan(r) ==
  [user |-> loc[r].user, by |-> Caller(r), bannedAt |-> flow[r].time,
   unbannedAt |-> IF in[r].duration > 0
                    THEN flow[r].time + Duration(in[r].duration)
                    ELSE flow[r].time]

\* INSERT INTO auth.bans ... ON CONFLICT (user_id) DO UPDATE, then
\* deleteUserSessions and the commit.  banned_by is f.Session.User: without a
\* session the handler panics, and a caller that is gone fails the foreign key.
\* A duration that overflows to a negative one fails CHECK (unbanned_at >=
\* banned_at).
BanUpsert(r) ==
  /\ in[r].op = "BanUser" /\ pc[r] = "upsert_ban"
  /\ Granted(r)
  /\ IF /\ HasSession(r) /\ {Caller(r), loc[r].user} \subseteq Ids(users)
        /\ NewBan(r).unbannedAt >= NewBan(r).bannedAt
       THEN /\ bans' = {b \in bans : b.user # loc[r].user} \cup {NewBan(r)}
            /\ deleteUserSessions(loc[r].user)
            /\ Commit(r)
       ELSE Answer(r, "internal") /\ UNCHANGED <<bans, sessions>>
  /\ UNCHANGED <<users, tokens, now, in, flow>>

BanUser(r) ==
  \/ BanStart(r)
  \/ BanLockUser(r)
  \/ BanCheck(r)
  \/ BanUpsert(r)

\* One DELETE outside a transaction; it takes no lock on the user.
UnbanUser(r) ==
  /\ in[r].op = "UnbanUser" /\ pc[r] = "call"
  /\ Granted(r)
  /\ bans' = {b \in bans : b.user # in[r].user}
  /\ IF \E b \in bans : b.user = in[r].user
       THEN Commit(r)
       ELSE Answer(r, "not_found")
  /\ UNCHANGED <<users, sessions, tokens, now, in, flow>>

SecurityStep(r) == BanUser(r) \/ UnbanUser(r)
=============================================================================
