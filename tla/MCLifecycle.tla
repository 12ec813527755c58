---------------------------- MODULE MCLifecycle -----------------------------
(***************************************************************************)
(* The instance of Lifecycle that TLC checks: three requests, two of them  *)
(* at a time, that share one connection; the database may keep one of them *)
(* waiting.                                                                *)
(***************************************************************************)
EXTENDS Lifecycle, TLC
CONSTANTS r1, r2, r3, ann, f1, f2

Of(bearer, auth, uses, body, bind, ends) ==
  [bearer |-> bearer, auth |-> auth, uses |-> uses, body |-> body, bind |-> bind,
   ends |-> ends]

\* A handler that takes a connection after the authenticator did; a route that
\* is not there, a request without the session it needs, and a handler that
\* responds nothing or panics without a session; a token that finds no session,
\* and a handler that reads the body it is sent and may refuse it.
SomeCalls ==
  r1 :> {Of(ann, FALSE, 1, FALSE, FALSE, {"ok"})} @@
  r2 :> {Of(None, FALSE, 0, FALSE, FALSE, {}),
         Of(None, TRUE, 1, FALSE, FALSE, {"ok"}),
         Of(None, FALSE, 1, FALSE, FALSE, {"silent", "panic"})} @@
  r3 :> {Of("bad", FALSE, 1, FALSE, FALSE, {"ok"}),
         Of(ann, TRUE, 1, TRUE, TRUE, {"client_error"})}
=============================================================================
