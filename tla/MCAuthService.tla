--------------------------- MODULE MCAuthService ---------------------------
(***************************************************************************)
(* The instances TLC checks.  Each run gives every request the operations  *)
(* it may call, so that three requests meet in the orders that matter.      *)
(***************************************************************************)
EXTENDS AuthRefinement, TLC
CONSTANTS r1, r2, r3, r4, ann, bob, s1, s2

Row(id, name, email, pw) ==
  [id |-> id, username |-> name, email |-> email, pw |-> pw,
   verified |-> FALSE, lastLogin |-> -1]
Ann == Row(ann, "ann", "a@x", "p1")
Bob == Row(bob, "bob", "b@x", "p1")
OneUser == {Ann}
TwoUsers == {Ann, Bob}
\* Two who share an address, which nothing forbids.
Pair == {Ann, Row(bob, "bob", "a@x", "p1")}

Open(id, u) ==
  [id |-> id, user |-> u.id, num |-> 1, created |-> 0,
   expires |-> SessionDuration, cred |-> [pw |-> u.pw, email |-> u.email]]
AnnIn == {Open(s1, Ann)}
BothIn == {Open(s1, Ann), Open(s2, Bob)}

Seconds == {-1, 1, 2}
Forever == {-1}
ForeverOneDay == {-1, 1}
NoneForeverOneDay == {-1, 0, 1}
OneDay == [k \in Kinds |-> 1]

\* A login beside another, a renewal or a clearing, and a ban or a change of
\* password.
SessionOps ==
  r1 :> {"CreateSession"} @@
  r2 :> {"CreateSession", "RenewSession", "ClearSessions", "logout"} @@
  r3 :> {"BanUser", "ChangePassword"}

\* A login beside a ban and another, or its lifting.
BanOps ==
  r1 :> {"CreateSession"} @@ r2 :> {"BanUser"} @@ r3 :> {"BanUser", "UnbanUser"}

\* Requests for tokens, confirmations and a login, three of them.
TokenOps ==
  r1 :> {"ChangeEmail", "VerifyUser", "ResetPassword"} @@
  r2 :> {"ChangeEmail", "VerifyUser", "ResetPassword", "CreateSession",
         "ChangeEmailToken", "VerifyUserToken", "ResetPasswordToken"} @@
  r3 :> {"ChangeEmail",
         "ChangeEmailToken", "VerifyUserToken", "ResetPasswordToken"}

\* Any operation beside any other.
AllOps == {i.op : i \in Input}
AnyTwo == r1 :> AllOps @@ r2 :> AllOps

\* Administrators who ban each other, beside a login or a change of password.
MutualBanOps ==
  r1 :> {"BanUser"} @@ r2 :> {"BanUser"} @@
  r3 :> {"CreateSession", "ChangePassword"}

\* Creating and deleting users beside logins, bans and tokens.
UserOps ==
  r1 :> {"CreateUser", "ResetPassword", "BanUser"} @@
  r2 :> {"CreateUser", "CreateSession", "BanUser", "ResetPasswordToken",
         "VerifyUserToken"} @@
  r3 :> {"DeleteUsers", "deleteMyUser"}

\* Confirmations, requests for tokens, bans and deletions that meet on one
\* user: the waits go round in a circle, and some panic with locks held.
DeadlockOps ==
  r1 :> {"ResetPassword", "CreateUser"} @@
  r2 :> {"ResetPasswordToken", "VerifyUser", "BanUser"} @@
  r3 :> {"DeleteUsers", "ChangePassword"}

NewUserOps == r1 :> {"CreateUser"} @@ r2 :> {"CreateUser"}
=============================================================================
