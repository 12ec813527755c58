--------------------------- MODULE AuthRefinement ---------------------------
(***************************************************************************)
(* AuthService implements Accounts.  The mapping is the identity on what   *)
(* clients and tables hold; statements, locks and local variables are      *)
(* hidden.  A request takes effect when it commits.                        *)
(***************************************************************************)
EXTENDS AuthService

Atomic == INSTANCE Accounts WITH
  users <- users, sessions <- sessions, tokens <- tokens, bans <- bans,
  now <- now, in <- in, flow <- flow, resp <- resp

\* Requests that interleave statement by statement have the effect they would
\* have one after the other, each when it commits, and each on what is true
\* then: a login on the password, the bans and the sessions of the moment it
\* is inserted, a confirmation on a token that is still there, a creation on
\* a name that is still free.
RequestsAreAtomic == Atomic!Spec
=============================================================================
