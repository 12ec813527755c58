-------------------------- MODULE LifecycleProofs ---------------------------
(***************************************************************************)
(* What Flux and Lifecycle keep for every number of requests, Flows and    *)
(* connections: a request uses its Flow alone, so it sees no other's       *)
(* session and writes nobody else's answer, and a server that stops in     *)
(* time has answered all it read.                                          *)
(***************************************************************************)
EXTENDS Lifecycle, TLAPS

Early == {"authn", "authn_db", "handler", "handler_db"}
Using == Early \cup {"log", "put"}

\* The status l in the log is the status s the client got, or was to get.
Agree(l, s) == l = s \/ (l = "internal" /\ s = "ok")

\* r has a reason to have written nothing.
Excused(r) == panicked[r] \/ "silent" \in call[r].ends

\* What holds of one request and the Flow it uses.
Good(r) ==
  /\ pc[r] \in Using => flow[r] \in Flows \ pool /\ cell[flow[r]].writer = r
  /\ pc[r] \in Early => /\ cell[flow[r]].session \in {None, call[r].bearer}
                        /\ sent[r] = "unset" /\ logged[r] = None
  /\ conns[r] = IF pc[r] \in {"authn_db", "handler_db"} THEN 1 ELSE 0
  /\ pc[r] \in Early => call[r] \in Call
  /\ pc[r] = "handler_db" => left[r] > 0
  /\ pc[r] = "new" => sent[r] = "unset" /\ logged[r] = None
  /\ pc[r] \in Early \cup {"log"} => Agree(cell[flow[r]].status, sent[r])
  /\ pc[r] \in Early \cup {"new"} => ~panicked[r]
  /\ pc[r] \in {"log", "put"} => /\ sent[r] = "unset" => Excused(r)
                                 /\ panicked[r] => sent[r] = "unset"
  /\ pc[r] = "log" => logged[r] = None
  /\ pc[r] = "put" => Agree(logged[r], sent[r])
  /\ pc[r] = "done" =>
       /\ sent[r] # "unset"
       /\ \/ logged[r] = None \/ Agree(logged[r], sent[r])
          \/ /\ logged[r] = "unset" /\ Excused(r)
             /\ sent[r] = IF panicked[r] THEN "internal" ELSE "ok"

Distinct ==
  \A q, r \in Requests :
    q # r /\ pc[q] \in Using /\ pc[r] \in Using => flow[q] # flow[r]

\* Why the server stops is known when it does, and nobody is left when it has
\* waited for everybody.
Stopping ==
  /\ main \in {"boot", "serving"} => cause = "none"
  /\ main = "shutdown" => cause = "signal"
  /\ PoolClosed /\ cause = "signal" => \A r \in Requests : ~Active(r)

Inv ==
  /\ TypeOK
  /\ Distinct
  /\ Stopping
  /\ \A r \in Requests : Good(r)

-----------------------------------------------------------------------------
LEMMA Stages == TypeOK => \A r \in Requests : Active(r) <=> pc[r] \in Using
BY DEF TypeOK, Active, Using, Early

LEMMA DeferredCalls == Deferred[1] = "log" /\ Deferred[2] = "put"
BY DEF Deferred

\* A step of r that touches no Flow but its own, or one from the pool, leaves
\* the others as they are.
LEMMA OthersGood ==
  ASSUME Inv, NEW r \in Requests, NEW f \in Flows,
         f \in pool \/ (pc[r] \in Using /\ f = flow[r]),
         \A g \in Flows \ {f} : cell'[g] = cell[g],
         pool' \subseteq pool \cup {f},
         NEW q \in Requests, q # r,
         pc'[q] = pc[q] /\ flow'[q] = flow[q] /\ call'[q] = call[q],
         left'[q] = left[q] /\ conns'[q] = conns[q],
         sent'[q] = sent[q] /\ logged'[q] = logged[q],
         panicked'[q] = panicked[q]
  PROVE  Good(q)'
<1>1. Good(q)
  BY DEF Inv
<1>2. pc[q] \in Using => flow[q] \in Flows \ {f}
  BY <1>1 DEF Good, Inv, Distinct
<1>3. pc[q] \in Using => cell'[flow'[q]] = cell[flow[q]] /\ flow'[q] \notin pool'
  BY <1>1, <1>2 DEF Good
<1> QED
  BY <1>1, <1>3 DEF Good, Using, Excused

LEMMA InitInv == Init => Inv
<1> SUFFICES ASSUME Init PROVE Inv
  OBVIOUS
<1>1. TypeOK
  <2>1. cell \in [Flows -> Cell]
    BY DEF Init, Cell, NewCell, Statuses
  <2>2. signalled \in BOOLEAN
    BY DEF Init
  <2> QED
    BY <2>1, <2>2 DEF Init, TypeOK, Statuses
<1>2. Distinct /\ Stopping
  BY DEF Init, Distinct, Using, Early, Stopping, PoolClosed
<1>3. ASSUME NEW r \in Requests PROVE Good(r)
  BY DEF Init, Good, Using, Early
<1> QED
  BY <1>1, <1>2, <1>3 DEF Inv

-----------------------------------------------------------------------------
LEMMA ReceiveStep ==
  ASSUME Inv, NEW r \in Requests, Receive(r), UNCHANGED signalled
  PROVE  Inv'
<1>1. PICK c \in Calls[r] :
        /\ call' = [call EXCEPT ![r] = c]
        /\ \/ /\ c.uses = 0 /\ Write(r, "not_found")
              /\ pc' = [pc EXCEPT ![r] = "done"]
              /\ UNCHANGED <<flow, cell, pool, left>>
           \/ /\ c.uses > 0
              /\ \E f \in pool :
                   /\ flow' = [flow EXCEPT ![r] = f]
                   /\ pool' = pool \ {f}
                   /\ cell' = [cell EXCEPT ![f] = Stamped(f, r)]
              /\ left' = [left EXCEPT ![r] = c.uses]
              /\ pc' = [pc EXCEPT ![r] = IF c.bearer = None THEN "handler" ELSE "authn"]
              /\ UNCHANGED sent
  BY DEF Receive
<1>2. /\ UNCHANGED <<conns, logged, panicked, main, cause>>
      /\ pc[r] = "new" /\ Accepting /\ c \in Call /\ c.uses \in 0 .. 2
      /\ Good(r)
  BY PoolAssumption DEF Receive, Call, Inv
<1>3. Stopping'
  <2>1. ~(PoolClosed /\ cause = "signal")
    BY <1>2 DEF Accepting, PoolClosed
  <2> QED
    BY <1>2, <2>1 DEF Inv, Stopping, PoolClosed
<1>4. CASE c.uses = 0
  <2>1. /\ Write(r, "not_found") /\ pc' = [pc EXCEPT ![r] = "done"]
        /\ UNCHANGED <<flow, cell, pool, left>>
    BY <1>1, <1>4
  <2>2. TypeOK'
    BY <1>1, <1>2, <2>1 DEF Inv, TypeOK, Write, Statuses
  <2>3. Distinct'
    BY <2>1 DEF Inv, TypeOK, Distinct, Using, Early
  <2>4. ASSUME NEW q \in Requests PROVE Good(q)'
    <3>1. CASE q = r
      <4>1. pc'[q] = "done" /\ sent'[q] = "not_found"
        BY <1>2, <2>1, <3>1 DEF Inv, TypeOK, Write, Good
      <4> QED
        BY <1>2, <3>1, <4>1 DEF Good, Using, Early
    <3>2. CASE q # r
      <4>1. /\ pc'[q] = pc[q] /\ sent'[q] = sent[q] /\ call'[q] = call[q]
            /\ UNCHANGED <<flow, cell, pool, left, conns, logged, panicked>>
        BY <1>1, <1>2, <2>1, <3>2 DEF Inv, TypeOK, Write
      <4> QED
        BY <4>1 DEF Inv, Good, Excused
    <3> QED
      BY <3>1, <3>2
  <2> QED
    BY <1>3, <2>2, <2>3, <2>4 DEF Inv
<1>5. CASE c.uses > 0
  <2>1. PICK f \in pool :
          /\ flow' = [flow EXCEPT ![r] = f]
          /\ pool' = pool \ {f}
          /\ cell' = [cell EXCEPT ![f] = Stamped(f, r)]
    BY <1>1, <1>5
  <2>2. /\ left' = [left EXCEPT ![r] = c.uses] /\ UNCHANGED sent
        /\ pc' = [pc EXCEPT ![r] = IF c.bearer = None THEN "handler" ELSE "authn"]
    BY <1>1, <1>5
  <2>3. f \in Flows
    BY <2>1 DEF Inv, TypeOK
  <2>4. /\ Stamped(f, r) \in Cell /\ Stamped(f, r).writer = r
        /\ Stamped(f, r).status = "unset" /\ Stamped(f, r).session = None
    BY <2>3 DEF Stamped, Inv, TypeOK, Cell, Statuses
  <2>5. TypeOK'
    BY <1>1, <1>2, <2>1, <2>2, <2>3, <2>4 DEF Inv, TypeOK
  <2>6. \A q \in Requests \ {r} :
          /\ pc'[q] = pc[q] /\ flow'[q] = flow[q] /\ call'[q] = call[q]
          /\ left'[q] = left[q] /\ conns'[q] = conns[q]
          /\ sent'[q] = sent[q] /\ logged'[q] = logged[q]
          /\ panicked'[q] = panicked[q]
    BY <1>1, <1>2, <2>1, <2>2 DEF Inv, TypeOK
  <2>7. pc'[r] \in {"handler", "authn"} /\ flow'[r] = f /\ call'[r] = c
    BY <1>1, <2>1, <2>2 DEF Inv, TypeOK
  <2>8. Distinct'
    <3>1. \A q \in Requests : pc[q] \in Using => flow[q] # f
      BY <2>1 DEF Inv, Good
    <3> QED
      BY <2>6, <2>7, <3>1 DEF Inv, Distinct
  <2>9. Good(r)'
    BY <1>2, <2>1, <2>2, <2>3, <2>4, <2>7
    DEF Inv, TypeOK, Good, Using, Early, Agree
  <2>10. ASSUME NEW q \in Requests, q # r PROVE Good(q)'
    <3>1. \A g \in Flows \ {f} : cell'[g] = cell[g]
      BY <2>1 DEF Inv, TypeOK
    <3> QED
      BY <2>1, <2>3, <2>6, <2>10, <3>1, OthersGood
  <2> QED
    BY <1>3, <2>5, <2>8, <2>9, <2>10 DEF Inv
<1> QED
  BY <1>2, <1>4, <1>5

\* A step of a request with a Flow that keeps it, or gives it back.
LEMMA FlowStep ==
  ASSUME Inv, NEW r \in Requests, pc[r] \in Using,
         TypeOK', UNCHANGED <<call, flow, main, cause>>,
         \A g \in Flows \ {flow[r]} : cell'[g] = cell[g],
         pool' \subseteq pool \cup {flow[r]},
         \A q \in Requests \ {r} :
           /\ pc'[q] = pc[q] /\ left'[q] = left[q] /\ conns'[q] = conns[q]
           /\ sent'[q] = sent[q] /\ logged'[q] = logged[q]
           /\ panicked'[q] = panicked[q],
         Good(r)'
  PROVE  Inv'
<1>1. Distinct'
  BY DEF Inv, Distinct
<1>2. Stopping'
  <2>1. ~(PoolClosed /\ cause = "signal")
    BY Stages DEF Inv, Stopping
  <2> QED
    BY <2>1 DEF Inv, Stopping, PoolClosed
<1>3. flow[r] \in Flows
  BY DEF Inv, Good
<1>4. \A q \in Requests \ {r} : Good(q)'
  BY <1>3, OthersGood
<1> QED
  BY <1>1, <1>2, <1>4 DEF Inv

\* An answer is written to the client of r, and r's deferred calls are next.
LEMMA RespondStep ==
  ASSUME Inv, NEW r \in Requests, pc[r] \in Early,
         NEW s \in Statuses \ {"unset"},
         Respond(r, s) \/ (s = "ok" /\ RespondTwice(r, s)),
         UNCHANGED <<call, flow, pool, left, logged, panicked, main, cause, signalled>>
  PROVE  Inv'
<1>1. /\ Good(r) /\ flow[r] \in Flows \ pool /\ cell[flow[r]].writer = r
      /\ sent[r] = "unset" /\ logged[r] = None
  BY DEF Inv, Good, Using
<1>2. PICK c \in {s, "internal"} :
        /\ c = s \/ s = "ok"
        /\ cell' = [cell EXCEPT ![flow[r]].status = c]
  BY DEF Respond, RespondTwice
<1>3. /\ sent' = [sent EXCEPT ![r] = s]
      /\ pc' = [pc EXCEPT ![r] = "log"]
      /\ conns' = [conns EXCEPT ![r] = 0]
  BY <1>1, DeferredCalls DEF Respond, RespondTwice, Write, Inv, TypeOK
<1>4. c \in Statuses
  BY <1>2 DEF Statuses
<1>5. TypeOK'
  BY <1>1, <1>2, <1>3, <1>4 DEF Inv, TypeOK, Cell
<1>6. /\ cell'[flow[r]].status = c /\ cell'[flow[r]].writer = r
      /\ \A g \in Flows \ {flow[r]} : cell'[g] = cell[g]
  BY <1>1, <1>2 DEF Inv, TypeOK, Cell
<1>7. pc'[r] = "log" /\ sent'[r] = s /\ conns'[r] = 0
  BY <1>3 DEF Inv, TypeOK
<1>8. Good(r)'
  BY <1>1, <1>2, <1>6, <1>7 DEF Good, Using, Early, Agree
<1>9. pc[r] \in Using
  BY DEF Using
<1> QED
  BY <1>3, <1>5, <1>6, <1>8, <1>9, FlowStep DEF Inv, TypeOK

\* A connection taken or given back.
LEMMA ConnStep ==
  ASSUME Inv, NEW r \in Requests, pc[r] \in Early, NEW s \in Early,
         pc' = [pc EXCEPT ![r] = s],
         conns' = [conns EXCEPT ![r] = IF s \in {"authn_db", "handler_db"} THEN 1 ELSE 0],
         left' = [left EXCEPT ![r] = left'[r]], left'[r] \in 0 .. 2,
         s = "handler_db" => left'[r] > 0,
         \/ UNCHANGED cell
         \/ cell' = [cell EXCEPT ![flow[r]].session = call[r].bearer] /\ call[r].bearer \in Users,
         UNCHANGED <<call, flow, pool, sent, logged, panicked, main, cause, signalled>>
  PROVE  Inv'
<1>1. Good(r) /\ pc[r] \in Using /\ flow[r] \in Flows \ pool
  BY DEF Inv, Good, Using
<1>2. TypeOK'
  <2>1. cell' \in [Flows -> Cell]
    BY <1>1 DEF Inv, TypeOK, Cell
  <2>2. /\ pc' \in [Requests -> Early \cup {"new", "log", "put", "done"}]
        /\ conns' \in [Requests -> 0 .. 1] /\ left' \in [Requests -> 0 .. 2]
    BY DEF Inv, TypeOK, Early
  <2> QED
    BY <2>1, <2>2 DEF Inv, TypeOK, Early
<1>3. /\ \A g \in Flows \ {flow[r]} : cell'[g] = cell[g]
      /\ cell'[flow[r]].writer = cell[flow[r]].writer
      /\ cell'[flow[r]].status = cell[flow[r]].status
      /\ cell'[flow[r]].session \in {None, call[r].bearer}
  BY <1>1 DEF Inv, TypeOK, Cell, Good
<1>4. pc'[r] = s /\ conns'[r] = IF s \in {"authn_db", "handler_db"} THEN 1 ELSE 0
  BY DEF Inv, TypeOK
<1>5. Good(r)'
  BY <1>1, <1>3, <1>4 DEF Good, Using, Early
<1>6. \A q \in Requests \ {r} :
        pc'[q] = pc[q] /\ left'[q] = left[q] /\ conns'[q] = conns[q]
  BY DEF Inv, TypeOK
<1> QED
  BY <1>1, <1>2, <1>3, <1>5, <1>6, FlowStep

LEMMA AcquireStep ==
  ASSUME Inv, NEW r \in Requests, Acquire(r), UNCHANGED signalled
  PROVE  Inv'
<1> DEFINE s == IF pc[r] = "authn" THEN "authn_db" ELSE "handler_db"
<1>1. /\ pc[r] \in {"authn", "handler"} /\ conns[r] = 0
      /\ pc[r] = "handler" => left[r] > 0
  <2>1. pc[r] \in {"authn", "handler"} /\ (pc[r] = "handler" => left[r] > 0)
    BY DEF Acquire, WantsConn, Handling
  <2> QED
    BY <2>1 DEF Inv, Good
<1>2. /\ pc' = [pc EXCEPT ![r] = s]
      /\ conns' = [conns EXCEPT ![r] = 1]
      /\ UNCHANGED <<call, flow, cell, pool, left, sent, logged, panicked, main, cause>>
  BY <1>1 DEF Acquire, Inv, TypeOK
<1>3. left' = [left EXCEPT ![r] = left'[r]] /\ left'[r] \in 0 .. 2
  BY <1>2 DEF Inv, TypeOK
<1> QED
  BY <1>1, <1>2, <1>3, ConnStep DEF Early

LEMMA AuthnAnsweredStep ==
  ASSUME Inv, NEW r \in Requests, AuthnAnswered(r), UNCHANGED signalled
  PROVE  Inv'
<1>1. pc[r] = "authn_db" /\ conns[r] = 1 /\ pc[r] \in Early
  BY DEF AuthnAnswered, Inv, Good, Early
<1>2. CASE Respond(r, "unauthorized") \/ Respond(r, "internal")
  BY <1>1, <1>2, RespondStep DEF AuthnAnswered, Statuses
<1>3. CASE /\ call[r].bearer \in Users
           /\ cell' = [cell EXCEPT ![flow[r]].session = call[r].bearer]
           /\ Release(r)
           /\ pc' = [pc EXCEPT ![r] = "handler"]
           /\ UNCHANGED sent
  <2>1. conns' = [conns EXCEPT ![r] = 0]
    BY <1>1, <1>3 DEF Release, Inv, TypeOK
  <2>2. UNCHANGED left /\ left' = [left EXCEPT ![r] = left'[r]] /\ left'[r] \in 0 .. 2
    BY DEF AuthnAnswered, Inv, TypeOK
  <2> QED
    BY <1>1, <1>3, <2>1, <2>2, ConnStep DEF AuthnAnswered, Early
<1> QED
  BY <1>2, <1>3 DEF AuthnAnswered

LEMMA HandlerAnsweredStep ==
  ASSUME Inv, NEW r \in Requests, HandlerAnswered(r), UNCHANGED signalled
  PROVE  Inv'
<1>1. pc[r] = "handler_db" /\ conns[r] = 1 /\ left[r] > 0 /\ pc[r] \in Early
  BY DEF HandlerAnswered, Inv, Good, Early
<1>2. CASE Respond(r, "internal") /\ UNCHANGED left
  BY <1>1, <1>2, RespondStep DEF HandlerAnswered, Statuses
<1>3. CASE /\ Release(r)
           /\ left' = [left EXCEPT ![r] = @ - 1]
           /\ pc' = [pc EXCEPT ![r] = "handler"]
           /\ UNCHANGED <<cell, sent>>
  <2>1. conns' = [conns EXCEPT ![r] = 0]
    BY <1>1, <1>3 DEF Release, Inv, TypeOK
  <2>2. left' = [left EXCEPT ![r] = left'[r]] /\ left'[r] \in 0 .. 2
    BY <1>1, <1>3 DEF Inv, TypeOK
  <2> QED
    BY <1>1, <1>3, <2>1, <2>2, ConnStep DEF HandlerAnswered, Early
<1> QED
  BY <1>2, <1>3 DEF HandlerAnswered

LEMMA ReturnStep ==
  ASSUME Inv, NEW r \in Requests, Return(r), UNCHANGED signalled
  PROVE  Inv'
<1>1. pc[r] = "handler" /\ pc[r] \in Early /\ pc[r] \in Using
  BY DEF Return, Handling, Early, Using
<1>2. PICK end \in call[r].ends :
        /\ end \in {"ok", "silent"} => left[r] = 0
        /\ end = "panic" => cell[flow[r]].session = None
        /\ IF end \in {"silent", "panic"}
             THEN Silently(r)
             ELSE Respond(r, end) \/ (end = "ok" /\ RespondTwice(r, end))
        /\ panicked' = [panicked EXCEPT ![r] = (end = "panic")]
  BY DEF Return
<1>3. /\ Good(r) /\ ~panicked[r] /\ call[r] \in Call
      /\ UNCHANGED <<call, flow, pool, left, logged, main, cause>>
  BY <1>1 DEF Return, Inv, Good
<1>4. end \in Ends
  BY <1>2, <1>3 DEF Call
<1>5. CASE end \in {"silent", "panic"}
  <2>1. /\ pc' = [pc EXCEPT ![r] = "log"]
        /\ conns' = [conns EXCEPT ![r] = 0]
        /\ UNCHANGED <<cell, sent>>
    BY <1>2, <1>5, DeferredCalls DEF Silently
  <2>2. TypeOK'
    BY <1>2, <1>3, <2>1 DEF Inv, TypeOK
  <2>3. pc'[r] = "log" /\ conns'[r] = 0 /\ panicked'[r] = (end = "panic")
    BY <1>2, <2>1 DEF Inv, TypeOK
  <2>4. Excused(r)'
    BY <1>2, <1>3, <1>5, <2>3 DEF Excused
  <2>5. Good(r)'
    BY <1>1, <1>3, <2>1, <2>3, <2>4 DEF Good, Using, Early
  <2>6. \A q \in Requests \ {r} :
          pc'[q] = pc[q] /\ conns'[q] = conns[q] /\ panicked'[q] = panicked[q]
    BY <1>2, <2>1 DEF Inv, TypeOK
  <2> QED
    BY <1>1, <1>3, <2>1, <2>2, <2>5, <2>6, FlowStep
<1>6. CASE end \notin {"silent", "panic"}
  <2>1. UNCHANGED panicked
    BY <1>2, <1>3, <1>6 DEF Inv, TypeOK
  <2>2. end \in Statuses \ {"unset"}
    BY <1>4, <1>6 DEF Ends, Statuses
  <2> QED
    BY <1>1, <1>2, <1>3, <1>6, <2>1, <2>2, RespondStep
<1> QED
  BY <1>5, <1>6

\* The deferred calls: the log first, while the Flow is still r's.
LEMMA LogStep ==
  ASSUME Inv, NEW r \in Requests, Log(r), UNCHANGED signalled
  PROVE  Inv'
<1>1. /\ pc[r] = "log" /\ pc[r] \in Using /\ Good(r)
      /\ logged' = [logged EXCEPT ![r] = cell[flow[r]].status]
      /\ pc' = [pc EXCEPT ![r] = "put"] /\ UNCHANGED sent
      /\ UNCHANGED <<call, flow, cell, pool, left, conns, panicked, main, cause>>
  BY DeferredCalls DEF Log, Unwind, Inv, Using
<1>2. flow[r] \in Flows /\ cell[flow[r]].status \in Statuses
  BY <1>1 DEF Good, Inv, TypeOK, Cell
<1>3. TypeOK'
  BY <1>1, <1>2 DEF Inv, TypeOK
<1>4. pc'[r] = "put" /\ logged'[r] = cell[flow[r]].status
  BY <1>1 DEF Inv, TypeOK
<1>5. Good(r)'
  BY <1>1, <1>4 DEF Good, Using, Early, Excused
<1>6. \A q \in Requests \ {r} : pc'[q] = pc[q] /\ logged'[q] = logged[q]
  BY <1>1 DEF Inv, TypeOK
<1> QED
  BY <1>1, <1>3, <1>5, <1>6, FlowStep

LEMMA PutStep ==
  ASSUME Inv, NEW r \in Requests, Put(r), UNCHANGED signalled
  PROVE  Inv'
<1>1. /\ pc[r] = "put" /\ pc[r] \in Using /\ Good(r)
      /\ pool' = pool \cup {flow[r]}
      /\ pc' = [pc EXCEPT ![r] = "done"]
      /\ Write(r, IF panicked[r] THEN "internal" ELSE "ok")
      /\ UNCHANGED <<call, flow, cell, left, conns, logged, panicked, main, cause>>
  BY DeferredCalls DEF Put, Unwind, Inv, Using
<1>2. flow[r] \in Flows
  BY <1>1 DEF Good
<1>3. TypeOK'
  BY <1>1, <1>2 DEF Inv, TypeOK, Write, Statuses
<1>4. /\ pc'[r] = "done"
      /\ sent'[r] = IF sent[r] # "unset" THEN sent[r]
                    ELSE IF panicked[r] THEN "internal" ELSE "ok"
  BY <1>1 DEF Inv, TypeOK, Write
<1>5. Good(r)'
  BY <1>1, <1>4 DEF Good, Using, Early, Agree, Excused
<1>6. \A q \in Requests \ {r} : pc'[q] = pc[q] /\ sent'[q] = sent[q]
  BY <1>1 DEF Inv, TypeOK, Write
<1> QED
  BY <1>1, <1>3, <1>5, <1>6, FlowStep

\* What run does leaves the requests alone.
LEMMA MainStep ==
  ASSUME Inv, Signal \/ Boot \/ ServeFails \/ Run \/ Gone
  PROVE  Inv'
<1>1. UNCHANGED requests
  BY DEF Signal, Boot, ServeFails, Run, StopBegins, StopEnds, StopTimesOut, Exit,
         Gone, allVars, vars
<1>2. TypeOK'
  BY <1>1
  DEF Inv, TypeOK, requests, Signal, Boot, ServeFails, Run, StopBegins, StopEnds,
      StopTimesOut, ForcedClose, Exit, Gone, allVars, vars
<1>3. Distinct' /\ \A r \in Requests : Good(r)'
  BY <1>1 DEF Inv, Distinct, Good, Excused, requests
<1>4. Stopping'
  <2>1. \A r \in Requests : Active(r)' <=> Active(r)
    BY <1>1 DEF Active, requests
  <2> QED
    BY <2>1
    DEF Inv, Stopping, PoolClosed, Signal, Boot, ServeFails, Run, StopBegins, StopEnds,
        StopTimesOut, ForcedClose, Exit, Gone, allVars, vars
<1> QED
  BY <1>2, <1>3, <1>4 DEF Inv

LEMMA NextInv == Inv /\ [Next]_allVars => Inv'
<1> SUFFICES ASSUME Inv, [Next]_allVars PROVE Inv'
  OBVIOUS
<1>1. CASE UNCHANGED allVars
  BY <1>1
  DEF allVars, vars, requests, Inv, TypeOK, Distinct, Good, Excused, Stopping, PoolClosed, Active
<1>2. ASSUME NEW r \in Requests, Refuse(r) \/ AcquireFails(r), UNCHANGED signalled
      PROVE  Inv'
  <2>1. pc[r] \in Early
    BY <1>2 DEF Refuse, AcquireFails, WantsConn, Handling, Early
  <2> QED
    BY <1>2, <2>1, RespondStep DEF Refuse, AcquireFails, Statuses
<1>3. ASSUME NEW r \in Requests, Serve(r), UNCHANGED signalled PROVE Inv'
  BY <1>2, <1>3, AcquireStep, ReturnStep, LogStep, PutStep DEF Serve
<1>4. ASSUME NEW r \in Requests, Answered(r), UNCHANGED signalled PROVE Inv'
  BY <1>4, AuthnAnsweredStep, HandlerAnsweredStep DEF Answered
<1> QED
  BY <1>1, <1>3, <1>4, ReceiveStep, MainStep DEF Next

-----------------------------------------------------------------------------
\* The invariant behind the theorems of this module.
THEOREM InvHolds == Spec => []Inv
BY InitInv, NextInv, PTL DEF Spec

\* The variables of Flux and Lifecycle have their types; no request ever
\* holds two connections.
THEOREM TypesHold == Spec => []TypeOK
<1>1. Inv => TypeOK
  BY DEF Inv
<1> QED
  BY <1>1, InvHolds, PTL

\* No handler sees the session of another request, however often its Flow was
\* used before and however those requests ended.
THEOREM SessionsAreOwn == Spec => []OwnSession
<1>1. Inv => OwnSession
  BY DEF Inv, Good, OwnSession, Early
<1> QED
  BY <1>1, InvHolds, PTL

\* The log has the status of the request's own answer, for the Flow goes back
\* to the pool only after the log was written; it has none only after a panic
\* or after a handler that can succeed without a Respond, and then the client
\* gets the 500 of the router or the 200 of net/http.
THEOREM LogsAreOwn == Spec => []LogsOwnStatus
<1>1. Inv => LogsOwnStatus
  <2> SUFFICES ASSUME Inv, NEW r \in Requests, logged[r] # None
               PROVE  \/ logged[r] = sent[r]
                      \/ /\ logged[r] = "unset" /\ Excused(r)
                         /\ pc[r] = "done" => sent[r] = IF panicked[r] THEN "internal" ELSE "ok"
                      \/ logged[r] = "internal" /\ sent[r] = "ok"
    BY DEF LogsOwnStatus, Excused
  <2>1. Good(r) /\ pc[r] \in {"put", "done"}
    BY DEF Inv, TypeOK, Good, Early
  <2> QED
    BY <2>1 DEF Good, Agree
<1> QED
  BY <1>1, InvHolds, PTL

\* When the pool is closed after a shutdown that ran to its end, every request
\* that was read has its answer.
THEOREM StopIsGraceful == Spec => []StopsGracefully
<1>1. Inv => StopsGracefully
  BY DEF Inv, Stopping, Good, StopsGracefully
<1> QED
  BY <1>1, InvHolds, PTL
=============================================================================
