------------------------------- MODULE Server -------------------------------
(***************************************************************************)
(* The accept loop, connection limit and graceful shutdown of              *)
(* server/mod.rs, with the connection counter of observability.rs.         *)
(*                                                                         *)
(* A connection handler (module Connection) is opaque here: it runs, and   *)
(* its task ends because handle() returned, because it panicked, or        *)
(* because the JoinSet was dropped under it.                               *)
(***************************************************************************)
EXTENDS Integers, FiniteSets

CONSTANTS
    Peers,           \* the clients that may connect
    MaxConnections,  \* config.max_connections, 0 for no limit
    MaxAttempts,     \* bound: connects per client
    MaxErrors,       \* bound: failed accepts
    Panics           \* TRUE if a handler may panic

ASSUME ServerAssumption ==
    /\ IsFiniteSet(Peers)
    /\ MaxConnections \in Nat
    /\ Panics \in BOOLEAN

VARIABLES
    loop,      \* serve(): "accepting", "draining", "stopped"
    peer,      \* per client: where its current attempt is
    attempts,  \* per client: connects so far
    permits,   \* the semaphore's free permits
    active,    \* Metrics::connections_active
    seen,      \* per client: `current` in connection_closed, -1 outside it
    errors,    \* failed accepts so far
    tasks,     \* the JoinSet: attempts whose task was spawned and not joined
    panics     \* history: handlers that panicked

vars == <<loop, peer, attempts, permits, active, seen, errors, tasks, panics>>

\* "queued": in the listen backlog.  "rejecting": the task that sends error
\* 1040.  "open": handle() runs.  "closing": handle() has returned and the
\* task is inside connection_closed.  "counted": past it, the permit is not
\* dropped yet.
Running == {"rejecting", "open", "closing", "counted"}
Over == {"away", "done", "rejected", "panicked", "aborted", "reset"}

In(states) == {p \in Peers : peer[p] \in states}
Limited == MaxConnections > 0

Init ==
    /\ loop = "accepting"
    /\ peer = [p \in Peers |-> "away"]
    /\ attempts = [p \in Peers |-> 0]
    /\ permits = MaxConnections
    /\ active = 0
    /\ seen = [p \in Peers |-> -1]
    /\ errors = 0
    /\ tasks = {}
    /\ panics = 0

\* A client connects (external); a client that was served may come back.
Connect(p) ==
    /\ loop = "accepting"
    /\ peer[p] \in Over
    /\ attempts[p] < MaxAttempts
    /\ peer' = [peer EXCEPT ![p] = "queued"]
    /\ attempts' = [attempts EXCEPT ![p] = @ + 1]
    /\ UNCHANGED <<loop, permits, active, seen, errors, tasks, panics>>

Task(p) == <<p, attempts[p]>>

\* serve() accepts; spawn_connection takes a permit and spawns the handler,
\* or finds none and spawns the task that rejects.
Accept(p) ==
    /\ loop = "accepting"
    /\ peer[p] = "queued"
    /\ tasks' = tasks \cup {Task(p)}
    /\ \/ /\ Limited => permits > 0
          /\ permits' = IF Limited THEN permits - 1 ELSE permits
          /\ active' = active + 1
          /\ peer' = [peer EXCEPT ![p] = "open"]
       \/ /\ Limited /\ permits = 0
          /\ peer' = [peer EXCEPT ![p] = "rejecting"]
          /\ UNCHANGED <<permits, active, panics>>
    /\ UNCHANGED <<loop, attempts, seen, errors, panics>>

\* listener.accept() fails; the loop goes on.
AcceptError ==
    /\ loop = "accepting"
    /\ errors < MaxErrors
    /\ errors' = errors + 1
    /\ UNCHANGED <<loop, peer, attempts, permits, active, seen, tasks, panics>>

\* reject_too_many_connections returns, whether or not its write succeeded.
RejectDone(p) ==
    /\ peer[p] = "rejecting"
    /\ peer' = [peer EXCEPT ![p] = "rejected"]
    /\ UNCHANGED <<loop, attempts, permits, active, seen, errors, tasks, panics>>

\* handle() returns and connection_closed loads the counter.
HandleReturns(p) ==
    /\ peer[p] = "open"
    /\ peer' = [peer EXCEPT ![p] = IF active > 0 THEN "closing" ELSE "counted"]
    /\ seen' = [seen EXCEPT ![p] = active]
    /\ UNCHANGED <<loop, attempts, permits, active, errors, tasks, panics>>

(* Mutant: the counter is stored instead of compared and exchanged. *)
CompareExchangeBlind(p) ==
    /\ peer[p] = "closing"
    /\ active' = seen[p] - 1
    /\ peer' = [peer EXCEPT ![p] = "counted"]
    /\ UNCHANGED <<loop, attempts, permits, seen, errors, tasks, panics>>

\* One round of connection_closed: the weak compare-exchange succeeds, or it
\* fails (spuriously too) and `current` is what the counter holds now.
CompareExchange(p) ==
    /\ peer[p] = "closing"
    /\ \/ /\ active = seen[p]
          /\ active' = seen[p] - 1
          /\ peer' = [peer EXCEPT ![p] = "counted"]
          /\ UNCHANGED seen
       \/ /\ seen' = [seen EXCEPT ![p] = active]
          /\ peer' = [peer EXCEPT ![p] = IF active > 0 THEN "closing" ELSE "counted"]
          /\ UNCHANGED active
    /\ UNCHANGED <<loop, attempts, permits, errors, tasks, panics>>

\* The permit is dropped with the task's future, however the task ends.
EndTask(p, state) ==
    /\ permits' = IF Limited THEN permits + 1 ELSE permits
    /\ peer' = [peer EXCEPT ![p] = state]
    /\ seen' = [seen EXCEPT ![p] = -1]

TaskReturns(p) ==
    /\ peer[p] = "counted"
    /\ EndTask(p, "done")
    /\ UNCHANGED <<loop, attempts, active, errors, tasks, panics>>

\* A panic inside handle() unwinds past the call of connection_closed.
TaskPanics(p) ==
    /\ Panics
    /\ peer[p] = "open"
    /\ EndTask(p, "panicked")
    /\ panics' = panics + 1
    /\ UNCHANGED <<loop, attempts, active, errors, tasks>>

\* The shutdown future resolves: the loop ends and the listener is dropped,
\* which resets what is still in its backlog.
Shutdown ==
    /\ loop = "accepting"
    /\ loop' = "draining"
    /\ peer' = [p \in Peers |-> IF peer[p] = "queued" THEN "reset" ELSE peer[p]]
    /\ UNCHANGED <<attempts, permits, active, seen, errors, tasks, panics>>

\* tasks.join_next() returns a task that has ended.
JoinNext ==
    /\ loop = "draining"
    /\ \E t \in tasks :
          /\ t # Task(t[1]) \/ peer[t[1]] \notin Running
          /\ tasks' = tasks \ {t}
    /\ UNCHANGED <<loop, peer, attempts, permits, active, seen, errors, panics>>

\* join_next() returns None: every task has ended.
DrainDone ==
    /\ loop = "draining"
    /\ tasks = {}
    /\ loop' = "stopped"
    /\ UNCHANGED <<peer, attempts, permits, active, seen, errors, tasks, panics>>

(* Mutant: the drain has no timeout. *)
DrainTimeoutNever ==
    /\ FALSE
    /\ UNCHANGED vars

\* SHUTDOWN_DRAIN_TIMEOUT elapses first: serve() returns, and dropping the
\* JoinSet aborts the tasks that still run (each at its next await, which is
\* taken to be where it is).
DrainTimeout ==
    /\ loop = "draining"
    /\ tasks # {}
    /\ loop' = "stopped"
    /\ LET cut == In(Running)
       IN  /\ peer' = [p \in Peers |-> IF p \in cut THEN "aborted" ELSE peer[p]]
           /\ permits' = permits + IF Limited
                                     THEN Cardinality(cut \ In({"rejecting"}))
                                     ELSE 0
           /\ seen' = [p \in Peers |-> -1]
    /\ tasks' = {}
    /\ UNCHANGED <<attempts, active, errors, panics>>

Stopped == loop = "stopped" /\ UNCHANGED vars

Next ==
    \/ \E p \in Peers :
          \/ Connect(p) \/ Accept(p) \/ RejectDone(p) \/ HandleReturns(p)
          \/ CompareExchange(p) \/ TaskReturns(p) \/ TaskPanics(p)
    \/ AcceptError \/ Shutdown \/ JoinNext \/ DrainDone \/ DrainTimeout
    \/ Stopped

\* The runtime polls the accept loop and the drain, whose timer fires.  The
\* handlers need not end: a client may keep its connection for ever.
Fairness ==
    /\ \A p \in Peers : WF_vars(Accept(p))
    /\ WF_vars(JoinNext) /\ WF_vars(DrainDone) /\ WF_vars(DrainTimeout)

Spec == Init /\ [][Next]_vars /\ Fairness

-----------------------------------------------------------------------------
(* Properties.                                                             *)

Holding == In({"open", "closing", "counted"})

\* A permit is never lost nor returned twice: free permits and connections
\* that hold one add up to max_connections, also after panics and aborts, so
\* no more than max_connections clients are ever served together and a client
\* is told "Too many connections" only when that many others are.
PermitsConserved ==
    Limited => permits + Cardinality(Holding) = MaxConnections

\* connections_active counts the connections that were opened and have not
\* passed connection_closed, whatever the order of the concurrent
\* compare-exchange rounds; only a handler that panicked stays counted.
ActiveCounts ==
    loop # "stopped" => active = Cardinality(In({"open", "closing"})) + panics

\* Both counts agree with the connections there are: permits with those that
\* are served, connections_active with those that are open (spawn_connection,
\* Metrics).
CountsMatch == PermitsConserved /\ ActiveCounts

\* ActiveCounts without the exception: "After the client disconnects, active
\* connections falls back to 0" (tests/observability.rs).
ActiveIsOpen ==
    loop # "stopped" => active = Cardinality(In({"open", "closing"}))

\* Once shutdown begins serve() returns, even if no client ever leaves.
ShutdownEnds == loop = "draining" ~> loop = "stopped"
=============================================================================
