--------------------------- MODULE AuthTokenProofs ---------------------------
(***************************************************************************)
(* Tokens and confirmations, for any number of requests and users.  A      *)
(* confirmation holds the row of its token from getToken on, and whoever   *)
(* replaces or deletes a token waits for that row (HoldsToken).            *)
(***************************************************************************)
EXTENDS AuthSessionProofs

HoldsToken ==
  \A r \in Requests :
    Confirming(r) => TokenLock(KindOf(in[r].op), loc[r].user) \in locks[r]

\* A token has a new id, and was made by a request of its kind that has ended.
TokenIdsFresh ==
  /\ \A t, x \in tokens : t.id = x.id => t = x
  /\ \A t \in tokens : /\ pc[t.id] = "done"
                       /\ in[t.id].op \in RequestOps
                       /\ t.kind = KindOf(in[t.id].op)

\* A token that was redeemed is gone, and its id is not used again.
Redeemed ==
  \A r \in Requests :
    in[r].op \in ConfirmOps /\ resp[r] = "ok" =>
      /\ in[r].token \in Requests /\ pc[in[r].token] = "done"
      /\ in[in[r].token].op \in RequestOps
      /\ KindOf(in[in[r].token].op) = KindOf(in[r].op)
      /\ in[r].token \notin Ids(tokens)

\* A VerifyUser about to save a token has seen that it may.
WaitKnown(r) ==
  \A t \in tokens :
    t.kind = "verify_user" /\ t.user = loc[r].user /\ in[t.id].op = "VerifyUser"
    => now - t.created >= WaitTime
VerifyKnows ==
  \A r \in Requests :
    in[r].op = "VerifyUser" /\ pc[r] = "save_token" => WaitKnown(r)

\* ChangeEmail asks for its caller, and its token says for what.
Asked(q, u, email) ==
  /\ in[q].op = "ChangeEmail" /\ in[q].email = email
  /\ HasSession(q) /\ Caller(q) = u
AddressesAsked ==
  /\ \A r \in Requests :
       in[r].op = "ChangeEmail" /\ pc[r] \in {"lock_user", "save_token"} =>
         Asked(r, loc[r].user, in[r].email)
  /\ \A t \in tokens :
       in[t.id].op = "ChangeEmail" =>
         Asked(t.id, t.user, t.email) /\ resp[t.id] \in {"ok", "internal"}

TokenInv ==
  /\ SessionInv
  /\ HoldsToken
  /\ TokenIdsFresh
  /\ Redeemed
  /\ ConfirmationKeepsToken
  /\ TokenRedeemedOnce
  /\ VerifyKnows
  /\ AddressesAsked
  /\ EmailsWereAskedFor

-----------------------------------------------------------------------------
(* What a step may do to tokens                                            *)

\* A token whose row another request holds is not replaced or deleted.
LEMMA LockedTokensStay ==
  ASSUME TokenInv, NEW r \in Requests, HandlerStep(r), NEW q \in Requests \ {r},
         NEW t \in tokens, TokenLock(t.kind, t.user) \in locks[q]
  PROVE  t \in tokens'
<1> USE DEF TokenInv, SessionInv, LockInv
<1>1. CASE SaveToken(r) \/ UserSaveToken(r)
  <2>1. pc[r] = "save_token" /\ Granted(r)
    BY <1>1 DEF SaveToken, UserSaveToken
  <2>2. TokenLock(KindOf(in[r].op), loc[r].user) \in Wants(r)
    BY <2>1 DEF Wants, First
  <2>3. ~(t.user = loc[r].user /\ t.kind = KindOf(in[r].op))
    BY <2>1, <2>2 DEF Granted, Waits
  <2> QED
    BY <1>1, <2>3 DEF SaveToken, UserSaveToken, Upsert
<1>2. CASE EmailWrite(r) \/ VerifyWrite(r) \/ ResetWrite(r)
  <2>1. Confirming(r)
    BY <1>2 DEF EmailWrite, VerifyWrite, ResetWrite, Confirming, ConfirmOps
  <2>2. PICK x \in tokens : /\ x.id = in[r].token /\ x.kind = KindOf(in[r].op)
                            /\ x.user = loc[r].user
    BY <2>1 DEF Confirming, ConfirmationKeepsToken
  <2>3. TokenLock(x.kind, x.user) \in locks[r]
    BY <2>1, <2>2 DEF HoldsToken
  <2>4. t.id # in[r].token
    BY <2>2, <2>3 DEF TokenIdsFresh, LocksExclusive
  <2> QED
    BY <1>2, <2>4 DEF EmailWrite, VerifyWrite, ResetWrite, WithoutToken
<1>3. CASE DeleteCascade(r)
  <2>1. pc[r] = "cascade" /\ Granted(r)
    BY <1>3 DEF DeleteCascade
  <2>2. t.user \in Deleted(r) => TokenLock(t.kind, t.user) \in Wants(r)
    BY <2>1 DEF Wants, Rows, CascadeRows
  <2>3. t.user \notin Deleted(r)
    BY <2>1, <2>2 DEF Granted, Waits
  <2> QED
    BY <1>3, <2>3 DEF DeleteCascade, Survive
<1>4. CASE UNCHANGED tokens
  BY <1>4
<1> QED
  BY <1>1, <1>2, <1>3, <1>4, WhoWrites

\* How a confirmation moves: it reads its token, then its user.
LEMMA ConfirmationEffect ==
  ASSUME TokenInv, NEW r \in Requests, HandlerStep(r), Confirming(r)'
  PROVE  \/ GetToken(r)
         \/ Confirming(r) /\ UNCHANGED <<loc, tokens>> /\ locks[r] \subseteq locks'[r]
<1> USE DEF TokenInv, SessionInv, LockInv
<1>1. in' = in /\ pc'[r] # "done"
  BY HandlerEffect DEF Confirming
<1>2. GetToken(r) \/ ConfirmLock(r)
  <2>1. AdminStep(r) \/ Rollback(r)
    BY <1>1 DEF Confirming, ConfirmOps, HandlerStep, SessionsStep, CreateSession,
           LoginFind, LoginLock, LoginCheckBan, LoginCount, LoginNumber,
           LoginInsert, RenewSession, ClearSessions, Logout, SecurityStep,
           BanUser, BanStart, BanLockUser, BanCheck, BanUpsert, UnbanUser,
           UsersStep, UserStart, UserInsert, UserSaveToken, DeleteStart,
           DeleteLockRow, DeleteCascade
  <2>2. ~Rollback(r) /\ ~PasswordWrite(r) /\ ~EmailWrite(r) /\ ~VerifyWrite(r)
        /\ ~ResetWrite(r) /\ ~SaveToken(r)
    BY <1>1, WritesEffect, StopsEffect DEF Rollback, Answer, Ends, Typed, TypeOK
  <2> QED
    BY <1>1, <2>1, <2>2
    DEF AdminStep, Confirming, ConfirmOps, OwnStart, OwnLock, VerifyLock,
        VerifyCheckToken, ResetStart
<1>3. CASE ConfirmLock(r)
  <2>1. UNCHANGED <<loc, tokens>>
    BY <1>1, <1>3 DEF ConfirmLock, Answer, db, Typed, TypeOK
  <2>2. locks[r] \subseteq locks'[r]
    BY <1>1, <1>3 DEF ConfirmLock, Answer, Hold, Typed, TypeOK
  <2> QED
    BY <1>3, <2>1, <2>2 DEF ConfirmLock, Confirming, ConfirmOps
<1> QED
  BY <1>2, <1>3

LEMMA ConfirmationsKeep ==
  ASSUME TokenInv, NEW r \in Requests, HandlerStep(r)
  PROVE  HoldsToken' /\ ConfirmationKeepsToken'
<1> USE DEF TokenInv, SessionInv, LockInv
<1>1. OthersKept(r) /\ in' = in
  BY HandlerEffect
<1> SUFFICES ASSUME NEW q \in Requests, Confirming(q)'
             PROVE  /\ TokenLock(KindOf(in[q].op), loc'[q].user) \in locks'[q]
                    /\ \E t \in tokens' :
                         /\ t.id = in[q].token /\ t.kind = KindOf(in[q].op)
                         /\ t.user = loc'[q].user /\ t.email = loc'[q].email
  BY <1>1 DEF HoldsToken, ConfirmationKeepsToken, Confirming
<1>2. CASE q # r
  <2>1. /\ Confirming(q) /\ loc'[q] = loc[q] /\ locks'[q] = locks[q]
    BY <1>1, <1>2 DEF OthersKept, Confirming
  <2>2. PICK t \in tokens : /\ t.id = in[q].token /\ t.kind = KindOf(in[q].op)
                            /\ t.user = loc[q].user /\ t.email = loc[q].email
    BY <2>1 DEF Confirming, ConfirmationKeepsToken
  <2>3. TokenLock(t.kind, t.user) \in locks[q]
    BY <2>1, <2>2 DEF HoldsToken
  <2> QED
    BY <1>2, <2>1, <2>2, <2>3, LockedTokensStay
<1>3. CASE q = r /\ GetToken(r)
  <2>1. PICK t \in Presented(r) :
          /\ Takes(r, {TokenLock(t.kind, t.user)})
          /\ loc'[r].user = t.user /\ loc'[r].email = t.email
    BY <1>3, GetTokenEffect DEF Confirming
  <2>2. t \in tokens /\ t.id = in[r].token /\ t.kind = KindOf(in[r].op)
    BY DEF Presented
  <2> QED
    BY <1>3, <2>1, <2>2 DEF Takes, db
<1>4. CASE q = r /\ Confirming(r) /\ UNCHANGED <<loc, tokens>> /\ locks[r] \subseteq locks'[r]
  BY <1>4 DEF HoldsToken, ConfirmationKeepsToken, Confirming
<1> QED
  BY <1>2, <1>3, <1>4, ConfirmationEffect

LEMMA TokenIdsStayFresh ==
  ASSUME TokenInv, NEW r \in Requests, HandlerStep(r)
  PROVE  TokenIdsFresh'
<1> USE DEF TokenInv, SessionInv, LockInv
<1>1. OthersKept(r) /\ in' = in /\ pc[r] # "done"
  BY HandlerEffect, HandlerRuns
<1>2. ASSUME NEW t \in tokens'
      PROVE  \/ t \in tokens /\ t.id # r /\ t.id \in Requests
             \/ SaveToken(r) \/ UserSaveToken(r)
  BY <1>1, <1>2, TokensEffect DEF TokenIdsFresh, Typed, TypeOK, TokenRow
<1>3. ASSUME NEW t \in tokens'
      PROVE  /\ pc'[t.id] = "done" /\ in[t.id].op \in RequestOps
             /\ t.kind = KindOf(in[t.id].op)
  <2>1. CASE t \in tokens
    <3>1. t.id # r /\ t.id \in Requests
      BY <1>1, <2>1 DEF TokenIdsFresh, Typed, TypeOK, TokenRow
    <3> QED
      BY <1>1, <2>1, <3>1 DEF TokenIdsFresh, OthersKept
  <2>2. CASE (SaveToken(r) \/ UserSaveToken(r)) /\ t.id = r /\ t.kind = KindOf(in[r].op)
    BY <1>1, <2>2, WritesEffect DEF Ends, SaveToken, UserSaveToken, RequestOps
  <2> QED
    BY <2>1, <2>2, TokensEffect
<1>4. ASSUME NEW t \in tokens', NEW x \in tokens', t.id = x.id PROVE t = x
  <2>1. CASE SaveToken(r) \/ UserSaveToken(r)
    <3>1. PICK new : new.id = r /\ tokens' \subseteq tokens \cup {new}
      <4>1. ASSUME NEW e, Upsert(r, e)
            PROVE  \E new : new.id = r /\ tokens' \subseteq tokens \cup {new}
        <5> DEFINE row == [id |-> r, user |-> loc[r].user, kind |-> KindOf(in[r].op),
                           created |-> flow[r].time,
                           expires |-> flow[r].time + TokenDuration[KindOf(in[r].op)],
                           email |-> e]
        <5>1. row.id = r /\ tokens' \subseteq tokens \cup {row}
          BY <4>1 DEF Upsert
        <5> QED
          BY <5>1
      <4>2. CASE UNCHANGED tokens
        <5>1. [id |-> r].id = r
          OBVIOUS
        <5> QED
          BY <4>2, <5>1
      <4> QED
        BY <2>1, <4>1, <4>2 DEF SaveToken, UserSaveToken
    <3>2. \A y \in tokens : y.id # r
      BY <1>1 DEF TokenIdsFresh
    <3> QED
      BY <1>4, <3>1, <3>2 DEF TokenIdsFresh
  <2>2. CASE t \in tokens /\ x \in tokens
    BY <1>4, <2>2 DEF TokenIdsFresh
  <2> QED
    BY <1>2, <2>1, <2>2
<1> QED
  BY <1>1, <1>3, <1>4 DEF TokenIdsFresh

\* A confirmation told "ok" has just redeemed its token.
LEMMA RedeemedNow ==
  ASSUME TokenInv, NEW r \in Requests, HandlerStep(r), in[r].op \in ConfirmOps,
         resp'[r] = "ok"
  PROVE  /\ \E t \in tokens : t.id = in[r].token /\ t.kind = KindOf(in[r].op)
         /\ in[r].token \notin Ids(tokens')
         /\ pc'[r] = "done"
<1> USE DEF TokenInv, SessionInv, LockInv
<1>1. pc[r] # "done" /\ resp[r] = "none"
  BY HandlerRuns DEF BearersAreOld
<1>2. AdminStep(r) \/ Rollback(r)
  BY DEF ConfirmOps, HandlerStep, SessionsStep, CreateSession,
         LoginFind, LoginLock, LoginCheckBan, LoginCount, LoginNumber,
         LoginInsert, RenewSession, ClearSessions, Logout, SecurityStep,
         BanUser, BanStart, BanLockUser, BanCheck, BanUpsert, UnbanUser,
         UsersStep, UserStart, UserInsert, UserSaveToken, DeleteStart,
         DeleteLockRow, DeleteCascade
<1>3. ~Rollback(r) /\ ~GetToken(r) /\ ~ConfirmLock(r)
  BY <1>1 DEF Rollback, GetToken, ConfirmLock, Goto, Answer, Typed, TypeOK
<1>4. EmailWrite(r) \/ VerifyWrite(r) \/ ResetWrite(r)
  BY <1>2, <1>3
  DEF AdminStep, ConfirmOps, OwnStart, OwnLock, PasswordWrite, SaveToken,
      VerifyLock, VerifyCheckToken, ResetStart
<1>5. in[r].token \notin Ids(tokens')
  <2>1. ~Answer(r, "internal")
    BY DEF Answer, Typed, TypeOK
  <2> QED
    BY <1>4, <2>1 DEF EmailWrite, VerifyWrite, ResetWrite, WithoutToken, Ids
<1>6. \E t \in tokens : t.id = in[r].token /\ t.kind = KindOf(in[r].op)
  BY <1>4
  DEF EmailWrite, VerifyWrite, ResetWrite, ConfirmOps, ConfirmationKeepsToken
<1> QED
  BY <1>4, <1>5, <1>6, WritesEffect DEF Ends

LEMMA RedemptionsStay ==
  ASSUME TokenInv, NEW r \in Requests, HandlerStep(r)
  PROVE  Redeemed' /\ TokenRedeemedOnce'
<1> USE DEF TokenInv, SessionInv, LockInv
<1>1. OthersKept(r) /\ in' = in /\ pc[r] # "done"
  BY HandlerEffect, HandlerRuns
<1>2. ASSUME NEW q \in Requests, in[q].op \in ConfirmOps, resp'[q] = "ok"
      PROVE  /\ in[q].token \in Requests /\ pc'[in[q].token] = "done"
             /\ in[in[q].token].op \in RequestOps
             /\ KindOf(in[in[q].token].op) = KindOf(in[q].op)
             /\ in[q].token \notin Ids(tokens')
  <2>1. CASE q = r
    <3>1. PICK t \in tokens : t.id = in[r].token /\ t.kind = KindOf(in[r].op)
      BY <1>2, <2>1, RedeemedNow
    <3>2. /\ t.id \in Requests /\ pc[t.id] = "done" /\ in[t.id].op \in RequestOps
          /\ t.kind = KindOf(in[t.id].op)
      BY DEF TokenIdsFresh, Typed, TypeOK, TokenRow
    <3> QED
      BY <1>1, <1>2, <2>1, <3>1, <3>2, RedeemedNow DEF OthersKept
  <2>2. CASE q # r
    <3>1. resp[q] = "ok"
      BY <1>1, <1>2, <2>2 DEF OthersKept
    <3>2. /\ in[q].token \in Requests /\ pc[in[q].token] = "done"
          /\ in[in[q].token].op \in RequestOps
          /\ KindOf(in[in[q].token].op) = KindOf(in[q].op)
          /\ in[q].token \notin Ids(tokens)
      BY <1>2, <3>1 DEF Redeemed
    <3>3. in[q].token # r
      BY <1>1, <3>2
    <3> QED
      BY <1>1, <3>2, <3>3, TokensEffect DEF OthersKept, Ids
  <2> QED
    BY <2>1, <2>2
<1>3. ASSUME NEW q \in Requests, in[q].op \in ConfirmOps, resp'[q] = "ok", q # r,
             in[r].op \in ConfirmOps, resp'[r] = "ok", in[q].token = in[r].token
      PROVE  FALSE
  <2>1. in[q].token \notin Ids(tokens)
    BY <1>1, <1>3 DEF Redeemed, OthersKept
  <2>2. in[r].token \in Ids(tokens)
    BY <1>3, RedeemedNow DEF Ids
  <2> QED
    BY <1>3, <2>1, <2>2
<1>4. Redeemed'
  BY <1>1, <1>2 DEF Redeemed
<1>5. TokenRedeemedOnce'
  BY <1>1, <1>3 DEF TokenRedeemedOnce, OthersKept
<1> QED
  BY <1>4, <1>5

-----------------------------------------------------------------------------
(* Verification tokens and addresses                                       *)

LEMMA WaitsStayKnown ==
  ASSUME TokenInv, NEW r \in Requests, HandlerStep(r)
  PROVE  VerifyKnows'
<1> USE DEF TokenInv, SessionInv, LockInv
<1>1. OthersKept(r) /\ in' = in /\ now' = now
  BY HandlerEffect
<1> SUFFICES ASSUME NEW q \in Requests, in[q].op = "VerifyUser",
                    pc'[q] = "save_token",
                    NEW t \in tokens', t.kind = "verify_user",
                    t.user = loc'[q].user, in[t.id].op = "VerifyUser"
             PROVE  now - t.created >= WaitTime
  BY <1>1 DEF VerifyKnows, WaitKnown
<1>2. CASE q = r
  <2>1. VerifyCheckToken(r)
    <3>1. AdminStep(r) \/ Rollback(r)
      BY <1>2 DEF HandlerStep, SessionsStep, CreateSession,
         LoginFind, LoginLock, LoginCheckBan, LoginCount, LoginNumber,
         LoginInsert, RenewSession, ClearSessions, Logout, SecurityStep,
         BanUser, BanStart, BanLockUser, BanCheck, BanUpsert, UnbanUser,
         UsersStep, UserStart, UserInsert, UserSaveToken, DeleteStart,
         DeleteLockRow, DeleteCascade
    <3>2. ~Rollback(r) /\ ~SaveToken(r) /\ ~OwnStart(r) /\ ~VerifyLock(r)
      BY <1>2, WritesEffect
      DEF Rollback, OwnStart, VerifyLock, Goto, Answer, Ends, Typed, TypeOK
    <3> QED
      BY <1>2, <3>1, <3>2
      DEF AdminStep, ConfirmOps, OwnLock, PasswordWrite, GetToken, ConfirmLock,
          EmailWrite, VerifyWrite, ResetStart, ResetWrite
  <2>2. /\ UNCHANGED <<loc, tokens>>
        /\ ~\E x \in tokens : /\ x.user = loc[r].user /\ x.kind = "verify_user"
                              /\ now - x.created < WaitTime
    BY <1>2, <2>1 DEF VerifyCheckToken, Answer, db, Typed, TypeOK
  <2>3. now - t.created \in Int /\ WaitTime \in Int
    BY <2>2, ConfigAssumption DEF Typed, TypeOK, TokenRow
  <2> QED
    BY <1>2, <2>2, <2>3
<1>3. CASE q # r
  <2>1. pc[q] = "save_token" /\ loc'[q] = loc[q] /\ PastUserLock(q)
    BY <1>1, <1>3 DEF OthersKept, PastUserLock
  <2>2. CASE t \in tokens
    BY <2>1, <2>2 DEF VerifyKnows, WaitKnown
  <2>3. CASE (SaveToken(r) \/ UserSaveToken(r)) /\ t.id = r /\ t.user = loc[r].user
    <3>1. PastUserLock(r)
      BY <2>3 DEF SaveToken, UserSaveToken, PastUserLock
    <3>2. UserLock(t.user) \in locks[r] /\ UserLock(t.user) \in locks[q]
      BY <2>1, <2>3, <3>1 DEF HoldsUser
    <3> QED
      BY <1>3, <3>2 DEF LocksExclusive
  <2> QED
    BY <2>2, <2>3, TokensEffect
<1> QED
  BY <1>2, <1>3

LEMMA AddressesStayAsked ==
  ASSUME TokenInv, NEW r \in Requests, HandlerStep(r)
  PROVE  AddressesAsked'
<1> USE DEF TokenInv, SessionInv, LockInv
<1>1. /\ OthersKept(r) /\ UNCHANGED <<now, in, flow>>
      /\ pc[r] # "done"
  BY HandlerEffect, HandlerRuns
<1>2. ASSUME NEW q, NEW u, NEW e, Asked(q, u, e) PROVE Asked(q, u, e)'
  BY <1>1, <1>2 DEF Asked, HasSession, Caller
<1>3. ASSUME NEW q \in Requests, in[q].op = "ChangeEmail",
             pc'[q] \in {"lock_user", "save_token"}
      PROVE  Asked(q, loc'[q].user, in[q].email)
  <2>1. CASE q # r
    BY <1>1, <1>3, <2>1 DEF OthersKept, AddressesAsked
  <2>2. CASE q = r
    <3>1. OwnStart(r) \/ OwnLock(r)
      <4>1. AdminStep(r) \/ Rollback(r)
        BY <1>3, <2>2 DEF HandlerStep, SessionsStep, CreateSession,
         LoginFind, LoginLock, LoginCheckBan, LoginCount, LoginNumber,
         LoginInsert, RenewSession, ClearSessions, Logout, SecurityStep,
         BanUser, BanStart, BanLockUser, BanCheck, BanUpsert, UnbanUser,
         UsersStep, UserStart, UserInsert, UserSaveToken, DeleteStart,
         DeleteLockRow, DeleteCascade
      <4>2. ~Rollback(r) /\ ~SaveToken(r)
        BY <1>3, <2>2, WritesEffect DEF Rollback, Answer, Ends, Typed, TypeOK
      <4> QED
        BY <1>3, <2>2, <4>1, <4>2
        DEF AdminStep, ConfirmOps, PasswordWrite, GetToken, ConfirmLock,
            EmailWrite, VerifyLock, VerifyCheckToken, VerifyWrite, ResetStart,
            ResetWrite
    <3>2. CASE OwnStart(r)
      <4>1. HasSession(r) /\ loc' = [loc EXCEPT ![r].user = Caller(r)]
        BY <1>3, <2>2, <3>2 DEF OwnStart, Answer, Typed, TypeOK
      <4>2. loc'[r].user = Caller(r)
        BY <4>1 DEF Typed, TypeOK, Locals
      <4> QED
        BY <1>3, <2>2, <4>1, <4>2 DEF Asked
    <3>3. CASE OwnLock(r)
      <4>1. UNCHANGED loc /\ pc[r] = "lock_user"
        BY <1>3, <2>2, <3>3 DEF OwnLock, Answer, Typed, TypeOK
      <4> QED
        BY <1>3, <2>2, <4>1 DEF AddressesAsked
    <3> QED
      BY <3>1, <3>2, <3>3
  <2> QED
    BY <2>1, <2>2
<1>4. ASSUME NEW t \in tokens', in[t.id].op = "ChangeEmail"
      PROVE  Asked(t.id, t.user, t.email) /\ resp'[t.id] \in {"ok", "internal"}
  <2>1. CASE t \in tokens
    <3>1. t.id # r /\ t.id \in Requests
      BY <1>1, <2>1 DEF TokenIdsFresh, Typed, TypeOK, TokenRow
    <3> QED
      BY <1>1, <1>4, <2>1, <3>1 DEF AddressesAsked, OthersKept
  <2>2. CASE /\ SaveToken(r) \/ UserSaveToken(r)
             /\ t.id = r /\ t.user = loc[r].user /\ loc[r].user \in Ids(users)
             /\ in[r].op = "ChangeEmail" => t.email = in[r].email
    <3>1. SaveToken(r) /\ pc[r] = "save_token" /\ Commit(r)
      BY <1>4, <2>2 DEF Referenced, SaveToken, UserSaveToken
    <3>2. resp'[r] \in {"ok", "internal"}
      BY <3>1 DEF Commit, Answer, Typed, TypeOK
    <3> QED
      BY <1>4, <2>2, <3>1, <3>2 DEF AddressesAsked
  <2> QED
    BY <2>1, <2>2, TokensEffect
<1> QED
  BY <1>1, <1>2, <1>3, <1>4 DEF AddressesAsked

LEMMA EmailsStayAskedFor ==
  ASSUME TokenInv, NEW r \in Requests, HandlerStep(r)
  PROVE  EmailsWereAskedFor'
<1> USE DEF TokenInv, SessionInv, LockInv
<1>1. /\ OthersKept(r) /\ UNCHANGED <<now, in, flow>>
      /\ pc[r] # "done" /\ resp[r] = "none"
  BY HandlerEffect, HandlerRuns DEF BearersAreOld
<1> DEFINE Origin(id, email, answers) ==
             \/ \E v \in SeedUsers : v.id = id /\ v.email = email
             \/ id \in Requests /\ in[id].email = email
             \/ \E q \in Requests : /\ in[q].op = "ChangeEmail" /\ in[q].email = email
                                    /\ HasSession(q) /\ Caller(q) = id
                                    /\ answers[q] \in {"ok", "internal"}
<1>2. ASSUME NEW id, NEW email, Origin(id, email, resp)
      PROVE  Origin(id, email, resp')
  BY <1>1, <1>2 DEF OthersKept
<1> SUFFICES ASSUME NEW v \in users' PROVE Origin(v.id, v.email, resp')
  BY <1>1 DEF EmailsWereAskedFor, HasSession, Caller
<1>3. CASE v = NewUser(r)
  BY <1>3 DEF NewUser
<1>4. CASE \E u \in users : u.id = v.id /\ u.email = v.email
  BY <1>2, <1>4 DEF EmailsWereAskedFor
<1>5. CASE EmailWrite(r) /\ v.id = loc[r].user /\ v.email = loc[r].email
  <2>1. PICK t \in tokens : /\ t.id = in[r].token /\ t.kind = KindOf(in[r].op)
                            /\ t.user = loc[r].user /\ t.email = loc[r].email
    BY <1>5 DEF EmailWrite, ConfirmOps, ConfirmationKeepsToken
  <2>2. in[t.id].op = "ChangeEmail" /\ t.id \in Requests
    BY <1>5, <2>1 DEF EmailWrite, KindOf, RequestOps, TokenIdsFresh, Typed, TypeOK, TokenRow
  <2>3. Asked(t.id, t.user, t.email) /\ resp[t.id] \in {"ok", "internal"}
    BY <2>2 DEF AddressesAsked
  <2>4. Origin(v.id, v.email, resp)
    BY <1>5, <2>1, <2>2, <2>3 DEF Asked
  <2> QED
    BY <1>2, <2>4
<1>6. \/ v = NewUser(r)
      \/ \E u \in users : u.id = v.id /\ u.email = v.email
      \/ EmailWrite(r) /\ v.id = loc[r].user /\ v.email = loc[r].email
  <2>1. CASE LoginInsert(r)
    BY <2>1 DEF LoginInsert, Typed, TypeOK, UserRow
  <2>2. CASE PasswordWrite(r) \/ ResetWrite(r)
    BY <2>2 DEF PasswordWrite, ResetWrite, SetPassword, Typed, TypeOK, UserRow
  <2>3. CASE EmailWrite(r)
    <3>1. users' = Readdressed(r)
      BY <2>3 DEF EmailWrite
    <3> QED
      BY <2>3, <3>1 DEF Readdressed, Typed, TypeOK, UserRow
  <2>4. CASE VerifyWrite(r)
    BY <2>4 DEF VerifyWrite, Typed, TypeOK, UserRow
  <2>5. CASE UserSaveToken(r)
    BY <2>5 DEF UserSaveToken
  <2>6. CASE DeleteCascade(r) \/ UNCHANGED users
    BY <2>6 DEF DeleteCascade
  <2> QED
    BY <2>1, <2>2, <2>3, <2>4, <2>5, <2>6, WhoWrites
<1> QED
  BY <1>3, <1>4, <1>5, <1>6

-----------------------------------------------------------------------------
(* The invariant                                                           *)

LEMMA InitTokens == Init => TokenInv
<1> SUFFICES ASSUME Init PROVE TokenInv
  OBVIOUS
<1>1. SessionInv
  BY InitSessions
<1>2. /\ HoldsToken /\ TokenIdsFresh /\ Redeemed /\ ConfirmationKeepsToken
      /\ TokenRedeemedOnce /\ VerifyKnows /\ AddressesAsked
  BY DEF Init, HoldsToken, Confirming, TokenIdsFresh, Redeemed,
         ConfirmationKeepsToken, TokenRedeemedOnce, VerifyKnows, AddressesAsked
<1>3. EmailsWereAskedFor
  BY DEF Init, EmailsWereAskedFor
<1> QED
  BY <1>1, <1>2, <1>3 DEF TokenInv

\* A request that arrives made no token and no user, and has no answer.
LEMMA ReceiveTokens ==
  ASSUME TokenInv, SessionInv', NEW r \in Requests, Receive(r)
  PROVE  TokenInv'
<1> USE DEF TokenInv, SessionInv, LockInv
<1>1. /\ UNCHANGED <<users, sessions, tokens, bans, now, loc, locks, resp>>
      /\ pc[r] = "new" /\ pc'[r] \in {"call", "authn"} /\ resp[r] = "none"
      /\ \A q \in Requests \ {r} : /\ pc'[q] = pc[q] /\ in'[q] = in[q]
                                   /\ flow'[q] = flow[q]
  BY DEF Receive, Goto, db, Typed, TypeOK, BearersAreOld
<1>2. \A t \in tokens : t.id \in Requests \ {r}
  BY <1>1 DEF TokenIdsFresh, Typed, TypeOK, TokenRow
<1>3. HoldsToken' /\ ConfirmationKeepsToken'
  BY <1>1 DEF HoldsToken, ConfirmationKeepsToken, Confirming
<1>4. TokenIdsFresh'
  BY <1>1, <1>2 DEF TokenIdsFresh
<1>5. Redeemed'
  <2> SUFFICES ASSUME NEW q \in Requests, in'[q].op \in ConfirmOps, resp'[q] = "ok"
               PROVE  /\ in'[q].token \in Requests /\ pc'[in'[q].token] = "done"
                      /\ in'[in'[q].token].op \in RequestOps
                      /\ KindOf(in'[in'[q].token].op) = KindOf(in'[q].op)
                      /\ in'[q].token \notin Ids(tokens')
    BY DEF Redeemed, Ids
  <2>1. q # r /\ in'[q] = in[q] /\ resp[q] = "ok"
    BY <1>1
  <2>2. /\ in[q].token \in Requests /\ pc[in[q].token] = "done"
        /\ in[in[q].token].op \in RequestOps
        /\ KindOf(in[in[q].token].op) = KindOf(in[q].op)
        /\ in[q].token \notin Ids(tokens)
    BY <2>1 DEF Redeemed
  <2>3. in[q].token # r
    BY <1>1, <2>2
  <2> QED
    BY <1>1, <2>1, <2>2, <2>3 DEF Ids
<1>6. TokenRedeemedOnce'
  BY <1>1 DEF TokenRedeemedOnce
<1>7. VerifyKnows'
  BY <1>1, <1>2 DEF VerifyKnows, WaitKnown
<1>8. AddressesAsked'
  BY <1>1, <1>2 DEF AddressesAsked, Asked, HasSession, Caller
<1>9. EmailsWereAskedFor'
  BY <1>1 DEF EmailsWereAskedFor, UserIdsFresh, HasSession, Caller
<1> QED
  BY <1>3, <1>4, <1>5, <1>6, <1>7, <1>8, <1>9

\* Nor does one that is authenticated; an answer it gets is a refusal.
LEMMA AuthenticateTokens ==
  ASSUME TokenInv, SessionInv', NEW r \in Requests, Authenticate(r)
  PROVE  TokenInv'
<1> USE DEF TokenInv, SessionInv, LockInv
<1>1. /\ UNCHANGED <<users, sessions, tokens, bans, now, in>>
      /\ pc[r] = "authn" /\ pc'[r] \in {"call", "done"}
      /\ \A q \in Requests \ {r} :
           /\ pc'[q] = pc[q] /\ flow'[q] = flow[q] /\ loc'[q] = loc[q]
           /\ resp'[q] = resp[q] /\ locks'[q] = locks[q]
      /\ resp[r] = "none" /\ resp'[r] \in {"none", "unauthorized"}
  BY DEF Authenticate, Goto, Answer, db, Typed, TypeOK, BearersAreOld
<1>2. \A t \in tokens : t.id \in Requests \ {r}
  BY <1>1 DEF TokenIdsFresh, Typed, TypeOK, TokenRow
<1>3. HoldsToken' /\ ConfirmationKeepsToken'
  BY <1>1 DEF HoldsToken, ConfirmationKeepsToken, Confirming
<1>4. TokenIdsFresh'
  BY <1>1, <1>2 DEF TokenIdsFresh
<1>5. Redeemed'
  BY <1>1 DEF Redeemed, Ids
<1>6. TokenRedeemedOnce'
  BY <1>1 DEF TokenRedeemedOnce
<1>7. VerifyKnows'
  BY <1>1 DEF VerifyKnows, WaitKnown
<1>8. AddressesAsked'
  BY <1>1, <1>2 DEF AddressesAsked, Asked, HasSession, Caller
<1>9. EmailsWereAskedFor'
  BY <1>1 DEF EmailsWereAskedFor, HasSession, Caller
<1> QED
  BY <1>3, <1>4, <1>5, <1>6, <1>7, <1>8, <1>9

LEMMA HandlerTokens ==
  ASSUME TokenInv, SessionInv', NEW r \in Requests, HandlerStep(r)
  PROVE  TokenInv'
BY ConfirmationsKeep, TokenIdsStayFresh, RedemptionsStay, WaitsStayKnown,
   AddressesStayAsked, EmailsStayAskedFor
DEF TokenInv

LEMMA TickTokens ==
  ASSUME TokenInv, SessionInv', Tick
  PROVE  TokenInv'
<1> USE DEF TokenInv, SessionInv, LockInv
<1>1. /\ UNCHANGED <<users, sessions, tokens, bans, in, flow, pc, loc, locks, resp>>
      /\ now' = now + 1 /\ now \in Nat
  BY DEF Tick, db, Typed, TypeOK
<1>2. VerifyKnows'
  <2>1. \A t \in tokens : t.created \in Nat
    BY DEF Typed, TypeOK, TokenRow
  <2> QED
    BY <1>1, <2>1, ConfigAssumption DEF VerifyKnows, WaitKnown
<1>3. /\ HoldsToken' /\ ConfirmationKeepsToken' /\ TokenIdsFresh'
      /\ Redeemed' /\ TokenRedeemedOnce' /\ AddressesAsked'
  BY <1>1
  DEF HoldsToken, ConfirmationKeepsToken, Confirming, TokenIdsFresh, Redeemed,
      TokenRedeemedOnce, AddressesAsked, Asked, HasSession, Caller, Ids
<1>4. EmailsWereAskedFor'
  BY <1>1 DEF EmailsWereAskedFor, HasSession, Caller
<1> QED
  BY <1>2, <1>3, <1>4

LEMMA NextTokens == TokenInv /\ [Next]_vars => TokenInv'
<1> SUFFICES ASSUME TokenInv, [Next]_vars PROVE TokenInv'
  OBVIOUS
<1>1. SessionInv'
  BY NextSessions DEF TokenInv
<1>2. CASE \E r \in Requests : Receive(r) \/ Authenticate(r) \/ HandlerStep(r)
  BY <1>1, <1>2, ReceiveTokens, AuthenticateTokens, HandlerTokens
<1>3. CASE UNCHANGED vars
  BY <1>1, <1>3
  DEF vars, db, TokenInv, HoldsToken, ConfirmationKeepsToken, Confirming,
      TokenIdsFresh, Redeemed, TokenRedeemedOnce, VerifyKnows, WaitKnown,
      AddressesAsked, Asked, EmailsWereAskedFor, HasSession, Caller, Ids
<1> QED
  BY <1>1, <1>2, <1>3, TickTokens, NextCases

\* The invariant behind the theorems of this module.
THEOREM Token == Spec => []TokenInv
BY InitTokens, NextTokens, PTL DEF Spec

\* No two requests are told that they redeemed one token.
THEOREM TokensAreRedeemedOnce == Spec => []TokenRedeemedOnce
BY Token, PTL DEF TokenInv

\* The token a confirmation has read stays as it was until the confirmation
\* commits.
THEOREM TokensAreKept == Spec => []ConfirmationKeepsToken
BY Token, PTL DEF TokenInv

\* Every address in auth.users is the first one or one its user asked for.
THEOREM EmailsAreAskedFor == Spec => []EmailsWereAskedFor
BY Token, PTL DEF TokenInv

\* The user of a token that was read is still there when its row is locked:
\* the cascade of its deletion would have to wait for the token.
THEOREM ConfirmationsFindUser == Spec => []ConfirmationFindsUser
<1>1. TokenInv => ConfirmationFindsUser
  BY DEF TokenInv, SessionInv, ConfirmationKeepsToken, ReferencesResolve,
         ConfirmationFindsUser
<1> QED
  BY <1>1, Token, PTL

\* A token is redeemed only by the operation it was made for.
THEOREM TokensKeepTheirKind == Spec => []TokensServeTheirKind
<1>1. TokenInv => TokensServeTheirKind
  BY DEF TokenInv, Redeemed, TokensServeTheirKind, MadeBy, KindOf, ConfirmOps,
         RequestOps
<1> QED
  BY <1>1, Token, PTL

\* VerifyUser replaces no token of VerifyUser that is younger than WaitTime.
THEOREM VerificationsAreThrottled == Spec => VerificationThrottled
<1>1. ASSUME TokenInv, [Next]_vars, NEW t \in tokens \ tokens',
             NEW x \in tokens' \ tokens,
             t.kind = "verify_user", in[t.id].op = "VerifyUser",
             in[x.id].op = "VerifyUser", t.user = x.user
      PROVE  now - t.created >= WaitTime
  <2>1. PICK r \in Requests : HandlerStep(r)
    BY <1>1, NextCases DEF Receive, Authenticate, Tick, vars, db
  <2>2. /\ SaveToken(r) \/ UserSaveToken(r)
        /\ x.id = r /\ x.user = loc[r].user
    BY <1>1, <2>1, TokensEffect
  <2>3. SaveToken(r) /\ in[r].op = "VerifyUser" /\ pc[r] = "save_token"
    BY <1>1, <2>2 DEF SaveToken, UserSaveToken
  <2> QED
    BY <1>1, <2>2, <2>3 DEF TokenInv, VerifyKnows, WaitKnown
<1>2. TokenInv /\ [Next]_vars =>
        [\A t \in tokens \ tokens', x \in tokens' \ tokens :
           /\ t.kind = "verify_user" /\ in[t.id].op = "VerifyUser"
           /\ x.kind = "verify_user" /\ in[x.id].op = "VerifyUser"
           /\ t.user = x.user
           => now - t.created >= WaitTime]_vars
  BY <1>1
<1> QED
  BY <1>2, Token, PTL DEF Spec, VerificationThrottled
=============================================================================
