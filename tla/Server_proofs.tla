---------------------------- MODULE Server_proofs ----------------------------
(***************************************************************************)
(* Proof that the two counts of server/mod.rs and observability.rs match   *)
(* the connections there are, for any number of clients, any limit, and    *)
(* whether or not handlers panic.                                          *)
(***************************************************************************)
EXTENDS Server, FiniteSetTheorems, TLAPS

States == Running \cup Over \cup {"queued"}

(* The types the counts need.  No permit is ever owed. *)
CountTypes ==
    /\ peer \in [Peers -> States]
    /\ seen \in [Peers -> Int]
    /\ permits \in Nat
    /\ active \in Int
    /\ panics \in Nat

(* The connections that connection_closed has not been called for. *)
Open == In({"open", "closing"})

CountInv == CountTypes /\ CountsMatch

(* In(S), of any assignment f of states to the clients. *)
Among(f, S) == {p \in Peers : f[p] \in S}

(* g is f with client p, and no other, in a state. *)
Moves(f, g, p, state) == f \in [Peers -> States] /\ g = [f EXCEPT ![p] = state]

-----------------------------------------------------------------------------
(* What one client's change of state does to the number of clients in a    *)
(* set of states.                                                          *)
LEMMA Moved ==
    ASSUME NEW f, NEW g, NEW p \in Peers, NEW s, NEW S, Moves(f, g, p, s)
    PROVE  /\ Cardinality(Among(f, S)) \in Nat
           /\ f[p] \in S => Cardinality(Among(f, S)) > 0
           /\ Cardinality(Among(g, S)) =
                Cardinality(Among(f, S)) + (IF s \in S THEN 1 ELSE 0)
                                         - (IF f[p] \in S THEN 1 ELSE 0)
<1> DEFINE A == Among(f, S)
<1>1. IsFiniteSet(A)
  BY ServerAssumption, FS_Subset, A \subseteq Peers DEF Among
<1>2. Cardinality(A) \in Nat
  BY <1>1, FS_CardinalityType
<1>3. f[p] \in S <=> p \in A
  BY DEF Among
<1>4. p \in A => Cardinality(A) # 0
  BY <1>1, FS_EmptySet
<1>5. CASE s \in S
  <2>1. Among(g, S) = A \cup {p}
    BY <1>5 DEF Among, Moves
  <2>2. Cardinality(A \cup {p}) = IF p \in A THEN Cardinality(A) ELSE Cardinality(A) + 1
    BY <1>1, FS_AddElement
  <2> QED
    BY <1>2, <1>3, <1>4, <1>5, <2>1, <2>2
<1>6. CASE s \notin S
  <2>1. Among(g, S) = A \ {p}
    BY <1>6 DEF Among, Moves
  <2>2. Cardinality(A \ {p}) = IF p \in A THEN Cardinality(A) - 1 ELSE Cardinality(A)
    BY <1>1, FS_RemoveElement
  <2> QED
    BY <1>2, <1>3, <1>4, <1>6, <2>1, <2>2
<1> QED
  BY <1>5, <1>6

-----------------------------------------------------------------------------
LEMMA CountInitial == Init => CountInv
<1> SUFFICES ASSUME Init PROVE CountInv
  OBVIOUS
<1>1. CountTypes
  BY ServerAssumption DEF Init, CountTypes, States, Over
<1>2. In({"open", "closing"}) = {} /\ Holding = {}
  BY DEF Init, In, Holding
<1> QED
  BY <1>1, <1>2, FS_EmptySet, ServerAssumption
     DEF Init, CountInv, CountsMatch, PermitsConserved, ActiveCounts

(* Each step of the accept loop and of the handlers keeps both counts. *)
LEMMA CountInductive == CountInv /\ [Next]_vars => CountInv'
<1> SUFFICES ASSUME CountInv, [Next]_vars PROVE CountInv'
  OBVIOUS
<1>t. /\ CountTypes
      /\ DOMAIN peer = Peers
      /\ MaxConnections \in Nat
  BY ServerAssumption DEF CountInv, CountTypes
<1>c. /\ Limited => permits + Cardinality(Holding) = MaxConnections
      /\ loop # "stopped" => active = Cardinality(Open) + panics
  BY DEF CountInv, CountsMatch, PermitsConserved, ActiveCounts, Open
<1>g. ASSUME CountTypes',
             Limited => permits' + Cardinality(Holding') = MaxConnections,
             loop' # "stopped" => active' = Cardinality(Open') + panics'
      PROVE  CountInv'
  BY <1>g DEF CountInv, CountsMatch, PermitsConserved, ActiveCounts, Limited, Open
<1>m. ASSUME NEW p \in Peers, NEW s, Moves(peer, peer', p, s)
      PROVE  /\ Cardinality(Open) \in Nat
             /\ Cardinality(Holding) \in Nat
             /\ peer[p] \in {"open", "closing"} => Cardinality(Open) > 0
             /\ Cardinality(Open') = Cardinality(Open)
                  + (IF s \in {"open", "closing"} THEN 1 ELSE 0)
                  - (IF peer[p] \in {"open", "closing"} THEN 1 ELSE 0)
             /\ Cardinality(Holding') = Cardinality(Holding)
                  + (IF s \in {"open", "closing", "counted"} THEN 1 ELSE 0)
                  - (IF peer[p] \in {"open", "closing", "counted"} THEN 1 ELSE 0)
  <2>1. /\ Open = Among(peer, {"open", "closing"})
        /\ Open' = Among(peer', {"open", "closing"})
        /\ Holding = Among(peer, {"open", "closing", "counted"})
        /\ Holding' = Among(peer', {"open", "closing", "counted"})
    BY DEF Open, Holding, In, Among
  <2>2. \A S : /\ Cardinality(Among(peer, S)) \in Nat
               /\ peer[p] \in S => Cardinality(Among(peer, S)) > 0
               /\ Cardinality(Among(peer', S)) = Cardinality(Among(peer, S))
                    + (IF s \in S THEN 1 ELSE 0) - (IF peer[p] \in S THEN 1 ELSE 0)
    BY <1>m, Moved
  <2> QED
    BY <2>1, <2>2
<1>u. ASSUME \A p \in Peers : /\ peer'[p] \in {"open", "closing"} <=> peer[p] \in {"open", "closing"}
                              /\ peer'[p] = "counted" <=> peer[p] = "counted"
      PROVE  Open' = Open /\ Holding' = Holding
  BY <1>u DEF Open, Holding, In
<1>1. ASSUME NEW p \in Peers, Connect(p) PROVE CountInv'
  <2>1. CountTypes'
    BY <1>1, <1>t DEF Connect, CountTypes, States
  <2>2. Moves(peer, peer', p, "queued")
    BY <1>1, <1>t DEF Connect, CountTypes, Moves
  <2>3. Cardinality(Open') = Cardinality(Open) /\ Cardinality(Holding') = Cardinality(Holding)
    BY <1>1, <1>m, <2>2 DEF Connect, Over
  <2> QED
    BY <1>1, <1>c, <1>g, <2>1, <2>3 DEF Connect
<1>2. ASSUME NEW p \in Peers, Accept(p) PROVE CountInv'
  <2>1. CASE /\ Limited => permits > 0
             /\ permits' = IF Limited THEN permits - 1 ELSE permits
             /\ active' = active + 1
             /\ peer' = [peer EXCEPT ![p] = "open"]
    <3>1. CountTypes'
      BY <1>2, <2>1, <1>t DEF Accept, CountTypes, States, Running
    <3>m. Moves(peer, peer', p, "open")
      BY <2>1, <1>t DEF CountTypes, Moves
    <3>2. /\ Cardinality(Open') = Cardinality(Open) + 1
          /\ Cardinality(Holding') = Cardinality(Holding) + 1
          /\ Cardinality(Open) \in Nat /\ Cardinality(Holding) \in Nat
      BY <1>2, <1>m, <3>m DEF Accept
    <3> QED
      BY <1>2, <2>1, <1>t, <1>c, <1>g, <3>1, <3>2 DEF Accept, CountTypes
  <2>2. CASE /\ Limited /\ permits = 0
             /\ peer' = [peer EXCEPT ![p] = "rejecting"]
             /\ UNCHANGED <<permits, active, panics>>
    <3>1. CountTypes'
      BY <1>2, <2>2, <1>t DEF Accept, CountTypes, States, Running
    <3>m. Moves(peer, peer', p, "rejecting")
      BY <2>2, <1>t DEF CountTypes, Moves
    <3>2. Cardinality(Open') = Cardinality(Open) /\ Cardinality(Holding') = Cardinality(Holding)
      BY <1>2, <1>m, <3>m DEF Accept
    <3> QED
      BY <1>2, <2>2, <1>c, <1>g, <3>1, <3>2 DEF Accept
  <2> QED
    BY <1>2, <2>1, <2>2 DEF Accept
<1>3. ASSUME NEW p \in Peers, RejectDone(p) PROVE CountInv'
  <2>1. CountTypes'
    BY <1>3, <1>t DEF RejectDone, CountTypes, States, Over
  <2>m. Moves(peer, peer', p, "rejected")
    BY <1>3, <1>t DEF RejectDone, CountTypes, Moves
  <2>2. Cardinality(Open') = Cardinality(Open) /\ Cardinality(Holding') = Cardinality(Holding)
    BY <1>3, <1>m, <2>m DEF RejectDone
  <2> QED
    BY <1>3, <1>c, <1>g, <2>1, <2>2 DEF RejectDone
(* The open connection is itself counted: active > 0 unless serve() is over. *)
<1>4. ASSUME NEW p \in Peers, HandleReturns(p) PROVE CountInv'
  <2>1. CountTypes'
    BY <1>4, <1>t DEF HandleReturns, CountTypes, States, Running
  <2>2. PICK s \in {"closing", "counted"} :
            Moves(peer, peer', p, s) /\ (active > 0 => s = "closing")
    BY <1>4, <1>t, Zenon DEF HandleReturns, CountTypes, Moves
  <2>3. /\ Cardinality(Open) > 0 /\ Cardinality(Open) \in Nat
        /\ s = "closing" => Cardinality(Open') = Cardinality(Open)
        /\ Cardinality(Holding') = Cardinality(Holding)
    <3>1. peer[p] = "open"
      BY <1>4 DEF HandleReturns
    <3> QED
      BY <2>2, <3>1, <1>m
  <2> QED
    BY <1>4, <1>t, <1>c, <1>g, <2>1, <2>2, <2>3 DEF HandleReturns, CountTypes
<1>5. ASSUME NEW p \in Peers, CompareExchange(p) PROVE CountInv'
  <2>1. CASE /\ active = seen[p]
             /\ active' = seen[p] - 1
             /\ peer' = [peer EXCEPT ![p] = "counted"]
             /\ UNCHANGED seen
    <3>1. CountTypes'
      BY <1>5, <2>1, <1>t DEF CompareExchange, CountTypes, States, Running
    <3>m. Moves(peer, peer', p, "counted")
      BY <2>1, <1>t DEF CountTypes, Moves
    <3>2. /\ Cardinality(Open') = Cardinality(Open) - 1 /\ Cardinality(Open) \in Nat
          /\ Cardinality(Holding') = Cardinality(Holding)
      BY <1>5, <1>m, <3>m DEF CompareExchange
    <3> QED
      BY <1>5, <2>1, <1>t, <1>c, <1>g, <3>1, <3>2 DEF CompareExchange, CountTypes
  <2>2. CASE /\ seen' = [seen EXCEPT ![p] = active]
             /\ peer' = [peer EXCEPT ![p] = IF active > 0 THEN "closing" ELSE "counted"]
             /\ UNCHANGED active
    <3>1. CountTypes'
      BY <1>5, <2>2, <1>t DEF CompareExchange, CountTypes, States, Running
    <3>2. PICK s \in {"closing", "counted"} :
              Moves(peer, peer', p, s) /\ (active > 0 => s = "closing")
      BY <2>2, <1>t, Zenon DEF CountTypes, Moves
    <3>3. /\ Cardinality(Open) > 0 /\ Cardinality(Open) \in Nat
          /\ s = "closing" => Cardinality(Open') = Cardinality(Open)
          /\ Cardinality(Holding') = Cardinality(Holding)
      BY <1>5, <3>2, <1>m DEF CompareExchange
    <3> QED
      BY <1>5, <2>2, <1>t, <1>c, <1>g, <3>1, <3>2, <3>3 DEF CompareExchange, CountTypes
  <2> QED
    BY <1>5, <2>1, <2>2 DEF CompareExchange
<1>6. ASSUME NEW p \in Peers, TaskReturns(p) PROVE CountInv'
  <2>1. CountTypes'
    BY <1>6, <1>t DEF TaskReturns, EndTask, CountTypes, States, Over
  <2>m. Moves(peer, peer', p, "done")
    BY <1>6, <1>t DEF TaskReturns, EndTask, CountTypes, Moves
  <2>2. /\ Cardinality(Open') = Cardinality(Open)
        /\ Cardinality(Holding') = Cardinality(Holding) - 1 /\ Cardinality(Holding) \in Nat
    BY <1>6, <1>m, <2>m DEF TaskReturns
  <2> QED
    BY <1>6, <1>t, <1>c, <1>g, <2>1, <2>2 DEF TaskReturns, EndTask, CountTypes
<1>7. ASSUME NEW p \in Peers, TaskPanics(p) PROVE CountInv'
  <2>1. CountTypes'
    BY <1>7, <1>t DEF TaskPanics, EndTask, CountTypes, States, Over
  <2>m. Moves(peer, peer', p, "panicked")
    BY <1>7, <1>t DEF TaskPanics, EndTask, CountTypes, Moves
  <2>2. /\ Cardinality(Open') = Cardinality(Open) - 1 /\ Cardinality(Open) \in Nat
        /\ Cardinality(Holding') = Cardinality(Holding) - 1 /\ Cardinality(Holding) \in Nat
    BY <1>7, <1>m, <2>m DEF TaskPanics
  <2> QED
    BY <1>7, <1>t, <1>c, <1>g, <2>1, <2>2 DEF TaskPanics, EndTask, CountTypes
<1>8. CASE AcceptError
  BY <1>8, <1>t, <1>c, <1>g, <1>u DEF AcceptError, CountTypes
<1>9. CASE Shutdown
  <2>1. CountTypes'
    BY <1>9, <1>t DEF Shutdown, CountTypes, States, Over
  <2>2. Open' = Open /\ Holding' = Holding
    BY <1>9, <1>u DEF Shutdown
  <2> QED
    BY <1>9, <1>c, <1>g, <2>1, <2>2 DEF Shutdown
<1>10. CASE JoinNext
  BY <1>10, <1>t, <1>c, <1>g, <1>u DEF JoinNext, CountTypes
<1>11. CASE DrainDone
  BY <1>11, <1>t, <1>c, <1>g, <1>u DEF DrainDone, CountTypes
(* The tasks that are cut off give back exactly the permits still held. *)
<1>12. CASE DrainTimeout
  <2>1. In(Running) \ In({"rejecting"}) = Holding
    BY DEF In, Running, Holding
  <2>2. Holding' = {}
    BY <1>12 DEF DrainTimeout, In, Running, Holding
  <2>3. Cardinality(Holding) \in Nat /\ Cardinality({}) = 0
    BY ServerAssumption, FS_Subset, FS_CardinalityType, FS_EmptySet, Holding \subseteq Peers
       DEF Holding, In
  <2>p. permits' = permits + IF Limited THEN Cardinality(Holding) ELSE 0
    BY <1>12, <2>1 DEF DrainTimeout
  <2>n. permits' \in Nat
    BY <1>t, <2>3, <2>p DEF CountTypes
  <2>4. CountTypes'
    BY <1>12, <1>t, <2>n DEF DrainTimeout, CountTypes, States, Over
  <2> QED
    <3>1. loop' = "stopped" /\ (Limited => permits' = permits + Cardinality(Holding))
      BY <1>12, <2>p DEF DrainTimeout
    <3>2. Limited => permits' + Cardinality(Holding') = MaxConnections
      BY <1>t, <1>c, <2>2, <2>3, <3>1 DEF CountTypes
    <3> QED
      BY <1>g, <2>4, <3>1, <3>2
<1>13. CASE UNCHANGED vars
  BY <1>13, <1>t, <1>c, <1>g, <1>u DEF vars, CountTypes
<1> QED
  BY <1>1, <1>2, <1>3, <1>4, <1>5, <1>6, <1>7, <1>8, <1>9, <1>10, <1>11, <1>12, <1>13
     DEF Next, Stopped

(* Permits and connections_active agree with the connections there are,    *)
(* through every interleaving of accepts, compare-exchange rounds, panics, *)
(* drain and abort (spawn_connection, Metrics::connection_closed, serve).  *)
THEOREM CountsAlwaysMatch == Spec => []CountsMatch
<1>1. CountInv => CountsMatch
  BY DEF CountInv
<1> QED
  BY <1>1, CountInitial, CountInductive, PTL DEF Spec

(* No more than max_connections clients are served at a time.              *)
LimitKept == Limited => Cardinality(Holding) <= MaxConnections

(* A client is sent error 1040 only if that many others are being served   *)
(* at that moment (spawn_connection: try_acquire_owned fails).             *)
RejectedWhenFull ==
    [][\A p \in Peers : peer[p] # "rejecting" /\ peer'[p] = "rejecting"
                            => Limited /\ Cardinality(Holding) = MaxConnections]_vars

(* The semaphore bounds the connections served together, through panics,   *)
(* aborts and clients that come back (spawn_connection).                   *)
THEOREM LimitHolds == Spec => []LimitKept
<1>1. CountInv => LimitKept
  <2> SUFFICES ASSUME CountInv, Limited PROVE Cardinality(Holding) <= MaxConnections
    BY DEF LimitKept
  <2>1. Cardinality(Holding) \in Nat
    BY ServerAssumption, FS_Subset, FS_CardinalityType, Holding \subseteq Peers DEF Holding, In
  <2> QED
    BY <2>1, ServerAssumption DEF CountInv, CountTypes, CountsMatch, PermitsConserved
<1> QED
  BY <1>1, CountInitial, CountInductive, PTL DEF Spec

(* "Too many connections" is never sent while a permit is free.            *)
THEOREM RejectsOnlyWhenFull == Spec => RejectedWhenFull
<1> DEFINE Full == \A p \in Peers : peer[p] # "rejecting" /\ peer'[p] = "rejecting"
                       => Limited /\ Cardinality(Holding) = MaxConnections
<1>1. CountInv /\ [Next]_vars => [Full]_vars
  <2> SUFFICES ASSUME CountInv, Next, NEW p \in Peers,
                      peer[p] # "rejecting", peer'[p] = "rejecting"
               PROVE  Limited /\ Cardinality(Holding) = MaxConnections
    OBVIOUS
  <2>1. peer \in [Peers -> States]
    BY DEF CountInv, CountTypes
  <2>2. Accept(p)
    BY <2>1, Zenon DEF Next, Connect, Accept, RejectDone, HandleReturns, CompareExchange, TaskReturns,
         TaskPanics, EndTask, AcceptError, Shutdown, JoinNext, DrainDone, DrainTimeout, Stopped, vars
  <2>3. Limited /\ permits = 0
    BY <2>1, <2>2 DEF Accept
  <2>4. Cardinality(Holding) \in Nat
    BY ServerAssumption, FS_Subset, FS_CardinalityType, Holding \subseteq Peers DEF Holding, In
  <2> QED
    BY <2>3, <2>4, ServerAssumption DEF CountInv, CountsMatch, PermitsConserved
<1> QED
  BY <1>1, CountInitial, CountInductive, PTL DEF Spec, RejectedWhenFull
=============================================================================
