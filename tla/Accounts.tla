------------------------------ MODULE Accounts ------------------------------
(***************************************************************************)
(* What the auth service promises its clients.  A request takes effect at  *)
(* one moment between its arrival and its answer, entirely or not at all,  *)
(* on what the tables hold at that moment; "ok" says that it did.  A       *)
(* client told "internal" does not know.                                   *)
(*                                                                         *)
(* Here are no statements, no locks and no local variables.  AuthService   *)
(* implements this with its tables, inputs and answers as they are.        *)
(***************************************************************************)
EXTENDS Integers

CONSTANTS
  Requests, Input, Answers, SessionIds, SeedUsers, SeedSessions, None,
  MaxSessions, SessionDuration, TokenDuration, WaitTime, Second,
  DurationLimit, LongPasswords

VARIABLES users, sessions, tokens, bans, now, in, flow, resp

tables == <<users, sessions, tokens, bans>>
vars == <<tables, now, in, flow, resp>>

Init ==
  /\ users = SeedUsers /\ sessions = SeedSessions
  /\ tokens = {} /\ bans = {}
  /\ now = 0
  /\ in = [r \in Requests |-> [op |-> "none"]]
  /\ flow = [r \in Requests |->
               [time |-> 0, bearer |-> None, session |-> None]]
  /\ resp = [r \in Requests |-> "none"]

-----------------------------------------------------------------------------
UserIds == {u.id : u \in users}
Known(r) == flow[r].session # None
By(r) == flow[r].session.user
Banned(u) ==
  \E b \in bans : b.user = u /\ (b.unbannedAt > now \/ b.bannedAt = b.unbannedAt)
Others(rows, gone) == {row \in rows : row.user \notin gone}

\* r waits for its answer and asks for one of these; if it came with a bearer
\* token, the token was good.
Asks(r, ops) ==
  /\ in[r].op \in ops /\ resp[r] = "none"
  /\ flow[r].bearer # None => Known(r)

\* The request is done, and the client told so unless that message is lost.
Served(r) ==
  /\ resp'[r] \in {"ok", "internal"} /\ resp' = [resp EXCEPT ![r] = resp'[r]]
  /\ UNCHANGED <<now, in, flow>>

Arrive(r) ==
  /\ in[r].op = "none"
  /\ in'[r] \in Input /\ in' = [in EXCEPT ![r] = in'[r]]
  /\ \E b \in SessionIds \cup {None} :
       flow' = [flow EXCEPT ![r] =
                  [time |-> now, bearer |-> b, session |-> None]]
  /\ UNCHANGED <<tables, now, resp>>

Identify(r) ==
  /\ in[r].op # "none" /\ resp[r] = "none" /\ ~Known(r)
  /\ \E s \in sessions :
       /\ s.id = flow[r].bearer /\ s.expires > flow[r].time
       /\ flow' = [flow EXCEPT ![r].session = [id |-> s.id, user |-> s.user]]
  /\ UNCHANGED <<tables, now, in, resp>>

\* Nothing happens, and the client is told that it did not, or that something
\* went wrong.
Refuse(r) ==
  /\ in[r].op # "none" /\ resp[r] = "none"
  /\ resp'[r] \in Answers \ {"none", "ok"}
  /\ resp' = [resp EXCEPT ![r] = resp'[r]]
  /\ UNCHANGED <<tables, now, in, flow>>

-----------------------------------------------------------------------------
(* Sessions and bans                                                       *)

LogIn(r) ==
  /\ Asks(r, {"CreateSession"})
  /\ \E u \in users, n \in 1 .. MaxSessions :
       /\ u.username = in[r].username /\ u.pw = in[r].pw
       /\ ~Banned(u.id)
       /\ \A s \in sessions : s.user = u.id => s.num # n
       /\ sessions' = sessions \cup
            {[id |-> r, user |-> u.id, num |-> n, created |-> flow[r].time,
              expires |-> flow[r].time + SessionDuration,
              cred |-> [pw |-> u.pw, email |-> u.email]]}
       /\ users' = {IF v.id = u.id THEN [v EXCEPT !.lastLogin = flow[r].time]
                                   ELSE v : v \in users}
  /\ UNCHANGED <<tokens, bans>>

Renew(r) ==
  /\ Asks(r, {"RenewSession"}) /\ Known(r)
  /\ \E s \in sessions : s.id = flow[r].session.id
  /\ sessions' = {IF s.id = flow[r].session.id
                    THEN [s EXCEPT !.expires = flow[r].time + SessionDuration]
                    ELSE s : s \in sessions}
  /\ UNCHANGED <<users, tokens, bans>>

\* Clears the sessions with these ids, if ids are given, of this user, if one
\* is given.
ClearOf(r, user) ==
  /\ in[r].ids # {} /\ (in[r].ids # None \/ user # None)
  /\ sessions' = {s \in sessions : \/ in[r].ids # None /\ s.id \notin in[r].ids
                                   \/ user # None /\ s.user # user}
  /\ UNCHANGED <<users, tokens, bans>>
Clear(r) == Asks(r, {"ClearSessions"}) /\ ClearOf(r, in[r].user)
LogOut(r) == Asks(r, {"logout"}) /\ Known(r) /\ ClearOf(r, By(r))

LastsAsAsked(b, duration) ==
  /\ b.unbannedAt >= b.bannedAt
  /\ duration < 0 => b.unbannedAt = b.bannedAt
  /\ duration > 0 /\ duration * Second < DurationLimit =>
       b.unbannedAt = b.bannedAt + duration * Second

Ban(r) ==
  /\ Asks(r, {"BanUser"}) /\ Known(r)
  /\ {By(r), in[r].user} \subseteq UserIds
  /\ in[r].replace \/ ~Banned(in[r].user)
  /\ \E b \in bans' :
       /\ b.user = in[r].user /\ b.by = By(r) /\ b.bannedAt = flow[r].time
       /\ LastsAsAsked(b, in[r].duration)
       /\ bans' = Others(bans, {in[r].user}) \cup {b}
  /\ sessions' = Others(sessions, {in[r].user})
  /\ UNCHANGED <<users, tokens>>

Unban(r) ==
  /\ Asks(r, {"UnbanUser"})
  /\ \E b \in bans : b.user = in[r].user
  /\ bans' = Others(bans, {in[r].user})
  /\ UNCHANGED <<users, sessions, tokens>>

-----------------------------------------------------------------------------
(* Passwords, addresses, tokens                                            *)

\* The user whose password is presented is the caller.
Proved(r, pw) == Known(r) /\ \E u \in users : u.id = By(r) /\ u.pw = pw

WithPassword(u, pw) ==
  users' = {IF v.id = u THEN [v EXCEPT !.pw = pw] ELSE v : v \in users}

ChangePassword(r) ==
  /\ Asks(r, {"ChangePassword"}) /\ Proved(r, in[r].pw)
  /\ in[r].newPw \notin LongPasswords
  /\ WithPassword(By(r), in[r].newPw)
  /\ sessions' = Others(sessions, {By(r)})
  /\ UNCHANGED <<tokens, bans>>

\* One token per user and kind: an older one is replaced.
Issue(r, u, kind, email) ==
  tokens' = {t \in tokens : ~(t.user = u /\ t.kind = kind)} \cup
            {[id |-> r, user |-> u, kind |-> kind, created |-> flow[r].time,
              expires |-> flow[r].time + TokenDuration[kind], email |-> email]}

AskEmail(r) ==
  /\ Asks(r, {"ChangeEmail"}) /\ Proved(r, in[r].pw)
  /\ Issue(r, By(r), "change_email", in[r].email)
  /\ UNCHANGED <<users, sessions, bans>>

AskVerification(r) ==
  /\ Asks(r, {"VerifyUser"}) /\ Known(r)
  /\ \E u \in users : u.id = By(r) /\ ~u.verified
  /\ \A t \in tokens : /\ t.user = By(r) /\ t.kind = "verify_user"
                       /\ in[t.id].op = "VerifyUser"
                       => now - t.created >= WaitTime
  /\ Issue(r, By(r), "verify_user", None)
  /\ UNCHANGED <<users, sessions, bans>>

\* Whether there is a user of this name the client is not told.
AskReset(r) ==
  /\ Asks(r, {"ResetPassword"})
  /\ \/ \E u \in users : /\ u.username = in[r].username
                         /\ Issue(r, u.id, "reset_password", None)
     \/ /\ \A u \in users : u.username # in[r].username
        /\ UNCHANGED tokens
  /\ UNCHANGED <<users, sessions, bans>>

\* A token that is there, of this kind, live when the request arrived.  It is
\* used up.
Redeems(r, t, kind) ==
  /\ t.id = in[r].token /\ t.kind = kind /\ t.expires > flow[r].time
  /\ tokens' = {x \in tokens : x.id # t.id}
  /\ UNCHANGED bans

ConfirmEmail(r) ==
  /\ Asks(r, {"ChangeEmailToken"})
  /\ \E t \in tokens :
       /\ Redeems(r, t, "change_email")
       /\ users' = {IF u.id = t.user THEN [u EXCEPT !.email = t.email]
                                     ELSE u : u \in users}
       /\ sessions' = Others(sessions, {t.user})

ConfirmVerification(r) ==
  /\ Asks(r, {"VerifyUserToken"})
  /\ \E t \in tokens :
       /\ Redeems(r, t, "verify_user")
       /\ users' = {IF u.id = t.user THEN [u EXCEPT !.verified = TRUE]
                                     ELSE u : u \in users}
  /\ UNCHANGED sessions

ConfirmReset(r) ==
  /\ Asks(r, {"ResetPasswordToken"}) /\ in[r].newPw \notin LongPasswords
  /\ \E t \in tokens :
       /\ Redeems(r, t, "reset_password")
       /\ WithPassword(t.user, in[r].newPw)
       /\ sessions' = Others(sessions, {t.user})

-----------------------------------------------------------------------------
(* Users                                                                   *)

NameFree(n) == \A u \in users : u.username # n

\* A password that cannot be hashed makes no user; the client is told "ok".
CreateUser(r) ==
  /\ Asks(r, {"CreateUser"}) /\ NameFree(in[r].username)
  /\ \/ /\ in[r].pw \notin LongPasswords
        /\ Known(r) /\ By(r) \in UserIds
        /\ users' = users \cup
             {[id |-> r, username |-> in[r].username, email |-> in[r].email,
               pw |-> in[r].pw, verified |-> FALSE, lastLogin |-> -1]}
        /\ Issue(r, By(r), "verify_user", None)
     \/ in[r].pw \in LongPasswords /\ UNCHANGED <<users, tokens>>
  /\ UNCHANGED <<sessions, bans>>

\* All of them are gone, and with them whatever refers to them; whom they
\* banned stays banned.
Remove(gone) ==
  /\ users' = {u \in users : u.id \notin gone}
  /\ sessions' = Others(sessions, gone)
  /\ tokens' = Others(tokens, gone)
  /\ bans' = {IF b.by \in gone THEN [b EXCEPT !.by = None] ELSE b :
               b \in Others(bans, gone)}

Delete(r) ==
  /\ \/ Asks(r, {"DeleteUsers"}) /\ in[r].ids # {} /\ Remove(in[r].ids)
     \/ Asks(r, {"deleteMyUser"}) /\ Known(r) /\ Remove({By(r)})

-----------------------------------------------------------------------------
\* One of the effects above, on the tables alone, and the answer to it.
Takes(r) ==
  /\ Served(r)
  /\ \/ LogIn(r) \/ Renew(r) \/ Clear(r) \/ LogOut(r)
     \/ Ban(r) \/ Unban(r)
     \/ ChangePassword(r) \/ AskEmail(r) \/ AskVerification(r) \/ AskReset(r)
     \/ ConfirmEmail(r) \/ ConfirmVerification(r) \/ ConfirmReset(r)
     \/ CreateUser(r) \/ Delete(r)

Tick == now' = now + 1 /\ UNCHANGED <<tables, in, flow, resp>>

Next == (\E r \in Requests : Arrive(r) \/ Identify(r) \/ Takes(r) \/ Refuse(r)) \/ Tick

Spec == Init /\ [][Next]_vars
=============================================================================
