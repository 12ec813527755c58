----------------------------- MODULE Lifecycle ------------------------------
(***************************************************************************)
(* run of cmd/glut/main.go with Start and Stop of common/flux/server.go,   *)
(* over the requests of Flux.                                              *)
(*                                                                         *)
(* run opens the database pool, serves until a signal or an error, and     *)
(* returns; its deferred calls, if they were deferred by then, stop the    *)
(* server and close the pool, in this order.                               *)
(***************************************************************************)
EXTENDS Flux

VARIABLE signalled  \* SIGINT or SIGTERM came: the context of run is done

allVars == <<vars, signalled>>

Init ==
  /\ call = [r \in Requests |-> None]
  /\ pc = [r \in Requests |-> "new"]
  /\ flow = [r \in Requests |-> None]
  /\ cell = [f \in Flows |-> NewCell]
  /\ pool = Flows
  /\ left = [r \in Requests |-> 0]
  /\ conns = [r \in Requests |-> 0]
  /\ panicked = [r \in Requests |-> FALSE]
  /\ sent = [r \in Requests |-> "unset"]
  /\ logged = [r \in Requests |-> None]
  /\ main = "boot" /\ cause = "none"
  /\ signalled = FALSE

Signal ==
  /\ Running /\ ~signalled
  /\ signalled' = TRUE
  /\ UNCHANGED vars

\* loadConfig, New, Ping (which a signal interrupts) and the listener succeed,
\* or run returns the error.  No request has come.
Boot ==
  /\ main = "boot"
  /\ \/ main' = "serving" /\ UNCHANGED cause
     \/ main' = "exited" /\ cause' = "error"
  /\ UNCHANGED <<requests, signalled>>

\* Start returns the error of Serve.  Stop is not deferred yet: only db.Close
\* runs.
ServeFails ==
  /\ main = "serving"
  /\ main' = "closing" /\ cause' = "error"
  /\ UNCHANGED <<requests, signalled>>

\* Start returns nil, and Stop calls Shutdown.
StopBegins ==
  /\ main = "serving" /\ signalled
  /\ main' = "shutdown" /\ cause' = "signal"
  /\ UNCHANGED <<requests, signalled>>

\* Shutdown has waited for the last request.  db.Close is next.
StopEnds ==
  /\ main = "shutdown"
  /\ \A r \in Requests : ~Active(r)
  /\ main' = "closing"
  /\ UNCHANGED <<requests, cause, signalled>>

\* Mutant: Stop gives up and does not close the connections.
NotClosed == "signal"
\* Shutdown's context times out: http.Server.Close.
ForcedClose == "timeout"

StopTimesOut ==
  /\ main = "shutdown"
  /\ \E r \in Requests : Active(r)
  /\ main' = "closing" /\ cause' = ForcedClose
  /\ UNCHANGED <<requests, signalled>>

\* db.Close waits until every connection has come back; main returns, and
\* with it ends whatever goroutine is left.
Exit ==
  /\ main = "closing"
  /\ \A r \in Requests : conns[r] = 0
  /\ main' = "exited"
  /\ UNCHANGED <<requests, cause, signalled>>

Run == StopBegins \/ StopEnds \/ StopTimesOut \/ Exit

\* The process is gone.
Gone == main = "exited" /\ UNCHANGED allVars

Answered(r) == AuthnAnswered(r) \/ HandlerAnswered(r)

Next ==
  \/ \E r \in Requests : Receive(r) /\ UNCHANGED signalled
  \/ \E r \in Requests : Serve(r) /\ UNCHANGED signalled
  \/ \E r \in Requests : Answered(r) /\ UNCHANGED signalled
  \/ Signal \/ Boot \/ ServeFails \/ Run \/ Gone

\* The database answers the authenticator's query, which waits for no lock,
\* and every statement that is not in Hanging; pgx ends a statement whose
\* context is cancelled.
Prompt(r) ==
  /\ pc[r] = "authn_db" \/ r \notin Hanging \/ Cancelled(r)
  /\ Answered(r) /\ UNCHANGED signalled

\* Goroutines run, timers fire, the program starts or fails to; nothing is
\* asked of clients and signals.
Fairness ==
  /\ \A r \in Requests : WF_allVars(Serve(r) /\ UNCHANGED signalled)
  /\ \A r \in Requests : WF_allVars(Prompt(r))
  /\ WF_allVars(Boot) /\ WF_allVars(Run)

Spec == Init /\ [][Next]_allVars /\ Fairness

-----------------------------------------------------------------------------
TypeOK ==
  /\ call \in [Requests -> Call \cup {None}]
  /\ pc \in [Requests -> {"new", "authn", "authn_db", "handler", "handler_db",
                          "log", "put", "done"}]
  /\ flow \in [Requests -> Flows \cup {None}]
  /\ cell \in [Flows -> Cell]
  /\ pool \subseteq Flows
  /\ left \in [Requests -> 0 .. 2]
  /\ conns \in [Requests -> 0 .. 1]
  /\ panicked \in [Requests -> BOOLEAN]
  /\ sent \in [Requests -> Statuses]
  /\ logged \in [Requests -> Statuses \cup {None}]
  /\ main \in {"boot", "serving", "shutdown", "closing", "exited"}
  /\ cause \in {"none", "signal", "timeout", "error"}
  /\ signalled \in BOOLEAN

\* A handler sees the session of its own bearer token or none, though its Flow
\* was used by other requests before, some of which panicked in the middle.
OwnSession ==
  \A r \in Requests :
    pc[r] \in {"authn", "authn_db", "handler", "handler_db"} =>
      cell[flow[r]].session \in {None, call[r].bearer}

\* The log has the status the client got, of this request and no other, with
\* three exceptions: a panic is logged without a status, and the client gets
\* the router's 500; a handler that succeeds without a Respond is logged
\* without one, and the client gets a 200; and when the body could not be sent
\* the log says 500.
LogsOwnStatus ==
  \A r \in Requests :
    logged[r] # None =>
      \/ logged[r] = sent[r]
      \/ /\ logged[r] = "unset" /\ (panicked[r] \/ "silent" \in call[r].ends)
         /\ pc[r] = "done" => sent[r] = IF panicked[r] THEN "internal" ELSE "ok"
      \/ logged[r] = "internal" /\ sent[r] = "ok"

\* A server that stops on a signal and need not force it has answered every
\* request it read before the pool of the database is closed: nobody gets a
\* 500 because the program is about to end.
StopsGracefully ==
  PoolClosed /\ cause = "signal" =>
    \A r \in Requests : ~Active(r) /\ (pc[r] = "done" => sent[r] # "unset")

\* Nobody hears of the end of the connection for this request: its body is
\* left unread.
Deaf(r) == Active(r) /\ ~BodyRead(r)

\* After a signal the program ends, even if the database never answers some of
\* the statements: Close cancels them, and with them go the connections that
\* db.Close waits for.  Two things may keep it, for as long as the database
\* does: a statement that nobody can cancel, and that Serve failed, since
\* then Stop is not called, and nothing is cancelled.
EndsOnSignal ==
  signalled ~>
    (main = "exited" \/ cause = "error" \/ \E r \in Hanging : Deaf(r))

\* Few connections are enough: a request the database does answer is answered,
\* however long it waits for a connection and whatever the others do with
\* theirs, since no request takes a second one while it holds one; unless all
\* of them are held by requests that hang in the database.
AllHang == Cardinality({q \in Hanging : pc[q] = "handler_db"}) >= MaxConns
EveryoneServed ==
  \A r \in Requests \ Hanging :
    Active(r) ~> (pc[r] = "done" \/ main = "exited" \/ AllHang)
=============================================================================
