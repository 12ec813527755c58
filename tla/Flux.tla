-------------------------------- MODULE Flux --------------------------------
(***************************************************************************)
(* common/flux: how a request passes through the router and ServeHTTP, in  *)
(* a Flow that comes from a pool, and takes connections of the database    *)
(* pool (common/postgres) on its way.                                      *)
(*                                                                         *)
(* Here a handler is the number of times it takes a connection, one after  *)
(* the other, and an outcome.  What its statements do is in AuthService    *)
(* and Roles.                                                              *)
(***************************************************************************)
EXTENDS Integers, FiniteSets

CONSTANTS
  Requests,  \* the requests that may arrive
  Flows,     \* bound: the Flows there may be, and so the requests at a time
  Users,
  None,
  MaxConns,  \* cfg.MaxOpenConns
  Calls,     \* bound: Calls[r], what request r may call
  Hanging    \* the requests that may wait for the database for ever: the row
             \* they want stays locked by somebody else

\* bearer: the token it comes with; auth: the option RequireAuth; uses: how
\* often the handler takes a connection (0 for no such route); body: whether the
\* client sends one; bind: whether the handler reads it; ends: how the handler
\* may end, "silent" being the success without a Respond that changeEmail has.
Ends == {"ok", "silent", "client_error", "internal", "panic"}
Call == [bearer: {None, "bad"} \cup Users, auth: BOOLEAN, uses: 0 .. 2,
         body: BOOLEAN, bind: BOOLEAN, ends: SUBSET Ends]

\* "unset" is the status of a statusWriter nobody has written to.
Statuses == {"ok", "client_error", "unauthorized", "not_found", "internal", "unset"}
Cell == [writer: Requests \cup {None}, status: Statuses,
         session: Users \cup {None}]
NewCell == [writer |-> None, status |-> "unset", session |-> None]

ASSUME PoolAssumption ==
  /\ MaxConns \in Nat \ {0}
  /\ Calls \in [Requests -> SUBSET Call]
  /\ Hanging \subseteq Requests

VARIABLES
  call,     \* call[r]: what r calls, None before r arrives
  pc,       \* pc[r]: how far ServeHTTP is
  flow,     \* flow[r]: the Flow r uses
  cell,     \* cell[f]: the fields of Flow f
  pool,     \* the Flows in the pool, those it has not made yet among them
  left,     \* left[r]: how often the handler of r still takes a connection
  conns,    \* conns[r]: how many r holds
  panicked, \* panicked[r]: the handler of r has panicked
  sent,     \* sent[r]: the status the client of r gets
  logged,   \* logged[r]: the status the log has of r
  main,     \* where run (cmd/glut/main.go) stands
  cause     \* why the server stops

requests == <<call, pc, flow, cell, pool, left, conns, panicked, sent, logged>>
vars == <<requests, main, cause>>

Active(r) == pc[r] \notin {"new", "done"}
Running == main # "exited"

\* Mutant: the deferred calls of run in the order they are written.
ClosedBeforeStop == main \in {"shutdown", "closing", "exited"}
\* pgxpool.Pool.Close was called: nobody gets a connection any more.
PoolClosed == main \in {"closing", "exited"}

\* After http.Server.Close the context of a request is cancelled, once its
\* connection is read from: not while a body is left that nobody has read.
BodyRead(r) ==
  /\ Active(r)
  /\ ~call[r].body \/ (call[r].bind /\ pc[r] \notin {"authn", "authn_db"})
Cancelled(r) == cause = "timeout" /\ BodyRead(r)

-----------------------------------------------------------------------------
(* Flows                                                                   *)

\* Mutant: Session is left as it was.
Reused(f, r) == [cell[f] EXCEPT !.writer = r, !.status = "unset"]
\* Flow.init and statusWriter.reset.
Stamped(f, r) ==
  [cell[f] EXCEPT !.writer = r, !.status = "unset", !.session = None]

\* Mutant: the deferred calls of ServeHTTP in the order they are written.
DeferredInOrder == <<"put", "log">>
\* They run in reverse order.
Deferred == <<"log", "put">>

\* WriteHeader of the ResponseWriter: the first one counts.
Write(r, status) ==
  sent' = [sent EXCEPT ![r] = IF @ = "unset" THEN status ELSE @]

\* Flow.Respond, or handleError, which is Respond with the status of the
\* error; ServeHTTP returns.
Respond(r, status) ==
  LET f == flow[r] IN
  /\ cell' = [cell EXCEPT ![f].status = status]
  /\ Write(cell[f].writer, status)
  /\ pc' = [pc EXCEPT ![r] = Deferred[1]]
  /\ conns' = [conns EXCEPT ![r] = 0]

\* Respond with a body that cannot be sent: Encode fails after WriteHeader,
\* the handler returns that error, and handleError writes a second header.
RespondTwice(r, status) ==
  LET f == flow[r] IN
  /\ cell' = [cell EXCEPT ![f].status = "internal"]
  /\ Write(cell[f].writer, status)
  /\ pc' = [pc EXCEPT ![r] = Deferred[1]]
  /\ conns' = [conns EXCEPT ![r] = 0]

-----------------------------------------------------------------------------
\* When the server reads requests.  After Serve has failed the connections
\* there are go on being served; Shutdown waits for those that are new.
Accepting == main \in {"serving", "shutdown"} \/ (main = "closing" /\ cause = "error")

\* The router: a request for no route gets its 404 without a Flow.  Another
\* gets one, stamped, and goes to the authenticator if it has a bearer token.
Receive(r) ==
  /\ pc[r] = "new" /\ Accepting
  /\ \E c \in Calls[r] :
       /\ call' = [call EXCEPT ![r] = c]
       /\ \/ /\ c.uses = 0
             /\ Write(r, "not_found")
             /\ pc' = [pc EXCEPT ![r] = "done"]
             /\ UNCHANGED <<flow, cell, pool, left>>
          \/ /\ c.uses > 0
             /\ \E f \in pool :
                  /\ flow' = [flow EXCEPT ![r] = f]
                  /\ pool' = pool \ {f}
                  /\ cell' = [cell EXCEPT ![f] = Stamped(f, r)]
             /\ left' = [left EXCEPT ![r] = c.uses]
             /\ pc' = [pc EXCEPT ![r] = IF c.bearer = None THEN "handler" ELSE "authn"]
             /\ UNCHANGED sent
  /\ UNCHANGED <<conns, logged, panicked, main, cause>>

\* RequireAuth, for a request that came without a token.
Refuse(r) ==
  /\ Running /\ pc[r] = "handler" /\ call[r].auth /\ cell[flow[r]].session = None
  /\ Respond(r, "unauthorized")
  /\ UNCHANGED <<call, flow, pool, left, logged, panicked, main, cause>>

Handling(r) ==
  pc[r] = "handler" /\ (call[r].auth => cell[flow[r]].session # None)

-----------------------------------------------------------------------------
(* The pool of connections                                                 *)

Free == Cardinality({x \in Requests \X (1 .. 2) : x[2] <= conns[x[1]]}) < MaxConns

WantsConn(r) == pc[r] = "authn" \/ (Handling(r) /\ left[r] > 0)

\* pgxpool.Pool.Acquire, by Begin or by a statement outside a transaction.
Acquire(r) ==
  /\ Running /\ WantsConn(r)
  /\ ~PoolClosed /\ ~Cancelled(r) /\ Free
  /\ conns' = [conns EXCEPT ![r] = @ + 1]
  /\ pc' = [pc EXCEPT ![r] = IF @ = "authn" THEN "authn_db" ELSE "handler_db"]
  /\ UNCHANGED <<call, flow, cell, pool, left, sent, logged, panicked, main, cause>>

\* ErrClosedPool, or the error of the cancelled context.
AcquireFails(r) ==
  /\ Running /\ WantsConn(r)
  /\ PoolClosed \/ Cancelled(r)
  /\ Respond(r, "internal")
  /\ UNCHANGED <<call, flow, pool, left, logged, panicked, main, cause>>

\* Mutant: the connection goes back at the end of the handler only.
KeptToTheEnd(r) == UNCHANGED conns
\* Mutant: the deferred Rollback gives it back after Commit did.
GivenBackTwice(r) == conns' = [conns EXCEPT ![r] = @ - 2]
\* Scan, Exec, Commit, Rollback and rows.Close give the connection back.
Release(r) == conns' = [conns EXCEPT ![r] = @ - 1]

\* The database answers, as far as it ever does.
AuthnAnswered(r) ==
  /\ Running /\ pc[r] = "authn_db"
  /\ \/ /\ call[r].bearer \in Users
        /\ cell' = [cell EXCEPT ![flow[r]].session = call[r].bearer]
        /\ Release(r)
        /\ pc' = [pc EXCEPT ![r] = "handler"]
        /\ UNCHANGED sent
     \/ call[r].bearer = "bad" /\ Respond(r, "unauthorized")
     \/ Respond(r, "internal")
  /\ UNCHANGED <<call, flow, pool, left, logged, panicked, main, cause>>

HandlerAnswered(r) ==
  /\ Running /\ pc[r] = "handler_db"
  /\ \/ /\ Release(r)
        /\ left' = [left EXCEPT ![r] = @ - 1]
        /\ pc' = [pc EXCEPT ![r] = "handler"]
        /\ UNCHANGED <<cell, sent>>
     \/ Respond(r, "internal") /\ UNCHANGED left
  /\ UNCHANGED <<call, flow, pool, logged, panicked, main, cause>>

-----------------------------------------------------------------------------
\* The handler is over and has written nothing.
Silently(r) ==
  /\ pc' = [pc EXCEPT ![r] = Deferred[1]]
  /\ conns' = [conns EXCEPT ![r] = 0]
  /\ UNCHANGED <<cell, sent>>

\* The handler returns: with an answer or with an error, internal ones that no
\* statement is to blame for among them (Bind, hashPassword).  Without a
\* session many handlers dereference a nil f.Session and panic instead.
Return(r) ==
  /\ Running /\ Handling(r)
  /\ \E end \in call[r].ends :
       /\ end \in {"ok", "silent"} => left[r] = 0
       /\ end = "panic" => cell[flow[r]].session = None
       /\ IF end \in {"silent", "panic"}
            THEN Silently(r)
            ELSE Respond(r, end) \/ (end = "ok" /\ RespondTwice(r, end))
       /\ panicked' = [panicked EXCEPT ![r] = (end = "panic")]
  /\ UNCHANGED <<call, flow, pool, left, logged, main, cause>>

\* On to the other deferred call, or back to the router.  If nothing was
\* written, the router writes a 500 when it recovers from a panic, and else
\* net/http a 200 of its own.
Unwind(r) ==
  IF pc[r] = Deferred[1]
    THEN pc' = [pc EXCEPT ![r] = Deferred[2]] /\ UNCHANGED sent
    ELSE /\ pc' = [pc EXCEPT ![r] = "done"]
         /\ Write(r, IF panicked[r] THEN "internal" ELSE "ok")

\* The debug log of ServeHTTP (the server always debugs).
Log(r) ==
  /\ Running /\ pc[r] = "log"
  /\ logged' = [logged EXCEPT ![r] = cell[flow[r]].status]
  /\ Unwind(r)
  /\ UNCHANGED <<call, flow, cell, pool, left, conns, panicked, main, cause>>

Put(r) ==
  /\ Running /\ pc[r] = "put"
  /\ pool' = pool \cup {flow[r]}
  /\ Unwind(r)
  /\ UNCHANGED <<call, flow, cell, left, conns, logged, panicked, main, cause>>

\* What a request does by itself.
Serve(r) ==
  \/ Refuse(r)
  \/ Acquire(r) \/ AcquireFails(r)
  \/ Return(r)
  \/ Log(r) \/ Put(r)
=============================================================================
