-------------------------- MODULE TlsGateway_proofs --------------------------
(***************************************************************************)
(* The counter of connections of the TLS gateway is exact and does not wrap *)
(* for any finite set of connections.  Neither fact is inductive: spawn     *)
(* moves the connection in the accept loop's hands on, which must have been *)
(* counted already.                                                         *)
(***************************************************************************)
EXTENDS TlsGateway, FiniteSetTheorems, TLAPS

\* The connections the counter stands for.
Live == {c \in Conn : conn[c] \notin {"none", "closed"}}

\* Every variable but the counter has its type.
Typed ==
    /\ main \in {"select", "exited", "aborted"}
    /\ server \in {"bind", "load_tls", "accept", "spawn", "failed"}
    /\ cur \in Conn \cup {NoConn}
    /\ conn \in [Conn -> ConnStates]
    /\ insists \in NeedsTimer

\* Between accept and spawn the loop holds a connection that is accepted and has no task.
LoopHoldsCur == server = "spawn" => cur \in Conn /\ conn[cur] = "accepted"

IInv == Typed /\ LoopHoldsCur /\ active = Cardinality(Live)

-----------------------------------------------------------------------------
\* The connections of any state of the gateway are finitely many, and their number is a
\* natural number.
LEMMA LiveFinite ==
    IsFiniteSet(Live) /\ Cardinality(Live) \in 0 .. Cardinality(Conn)
<1>1. Live \subseteq Conn
  BY DEF Live
<1>2. IsFiniteSet(Live) /\ Cardinality(Live) <= Cardinality(Conn)
  BY <1>1, TlsGatewayAssumption, FS_Subset
<1>3. Cardinality(Live) \in Nat /\ Cardinality(Conn) \in Nat
  BY <1>2, TlsGatewayAssumption, FS_CardinalityType
<1> QED
  BY <1>2, <1>3

\* A connection that is counted and was not raises the number of connections by one: what
\* accept does.
LEMMA OneMore ==
    ASSUME Typed, NEW c \in Conn, NEW l \in ConnStates,
           conn[c] \in {"none", "closed"}, l \notin {"none", "closed"}, Goto(c, l)
    PROVE  Cardinality(Live') = Cardinality(Live) + 1
<1>1. Live' = Live \cup {c} /\ c \notin Live
  BY DEF Live, Typed, Goto
<1> QED
  BY <1>1, LiveFinite, FS_AddElement

\* A connection that goes away lowers it by one: what a failed handshake and the end of a
\* connection do.
LEMMA OneLess ==
    ASSUME Typed, NEW c \in Conn, NEW l \in ConnStates,
           conn[c] \notin {"none", "closed"}, l \in {"none", "closed"}, Goto(c, l)
    PROVE  Cardinality(Live') = Cardinality(Live) - 1
<1>1. Live' = Live \ {c} /\ c \in Live
  BY DEF Live, Typed, Goto
<1> QED
  BY <1>1, LiveFinite, FS_RemoveElement

\* Every other step of a task leaves the connection on its side of the count.
LEMMA AsMany ==
    ASSUME Typed, NEW c \in Conn, NEW l \in ConnStates,
           conn[c] \in {"none", "closed"} <=> l \in {"none", "closed"}, Goto(c, l)
    PROVE  Live' = Live
BY DEF Live, Typed, Goto

\* A step of a task other than the loop's leaves the loop's connection alone.
LEMMA TaskKeepsCur ==
    ASSUME Typed, LoopHoldsCur, NEW c \in Conn, NEW l \in ConnStates,
           conn[c] # "accepted", Goto(c, l), UNCHANGED <<server, cur>>
    PROVE  LoopHoldsCur' /\ conn' \in [Conn -> ConnStates]
BY DEF Typed, LoopHoldsCur, Goto

\* Nothing is counted before run_server accepts.
LEMMA InitInv == Init => IInv
<1> SUFFICES ASSUME Init PROVE IInv
  OBVIOUS
<1>1. Live = {}
  BY DEF Init, Live
<1>2. Cardinality(Live) = 0
  BY <1>1, FS_EmptySet
<1> QED
  BY <1>2 DEF Init, IInv, Typed, LoopHoldsCur, ConnStates

\* The steps of the accept loop.
LEMMA LoopPreserves ==
    ASSUME IInv, Bind \/ LoadTls \/ Spawn \/ \E c \in Conn : Accept(c)
    PROVE  IInv'
<1> USE DEF IInv
<1>1. CASE Bind \/ LoadTls
  <2>1. Live' = Live
    BY <1>1 DEF Bind, LoadTls, Live
  <2> QED
    BY <1>1, <2>1 DEF Bind, LoadTls, LoadTlsConfig, Typed, LoopHoldsCur
<1>2. CASE Spawn
  <2>1. cur \in Conn /\ conn[cur] = "accepted" /\ Goto(cur, "handshake")
    BY <1>2 DEF Spawn, LoopHoldsCur
  <2>2. Live' = Live
    BY <2>1, AsMany DEF ConnStates
  <2>3. conn' \in [Conn -> ConnStates]
    BY <2>1 DEF Typed, Goto, ConnStates
  <2> QED
    BY <1>2, <2>2, <2>3 DEF Spawn, Typed, LoopHoldsCur
<1>3. ASSUME NEW c \in Conn, Accept(c) PROVE IInv'
  <2>1. conn[c] = "none" /\ Goto(c, "accepted")
    BY <1>3 DEF Accept
  <2>2. Cardinality(Live') = Cardinality(Live) + 1
    BY <2>1, OneMore DEF ConnStates
  <2>3. conn' \in [Conn -> ConnStates] /\ conn'[c] = "accepted"
    BY <2>1 DEF Typed, Goto, ConnStates
  <2> QED
    BY <1>3, <2>2, <2>3 DEF Accept, Typed, LoopHoldsCur
<1> QED
  BY <1>1, <1>2, <1>3

\* The steps of a connection's task.
LEMMA TaskPreserves ==
    ASSUME IInv, NEW c \in Conn, Task(c)
    PROVE  IInv'
<1> USE DEF IInv
<1>1. CASE HandshakeFails(c) \/ Uncount(c)
  <2>1. /\ conn[c] \in {"handshake", "ended"} /\ Goto(c, "closed")
        /\ active' = active - 1
        /\ UNCHANGED <<main, server, cur, insists>>
    BY <1>1 DEF HandshakeFails, Uncount, UncountFailed
  <2>2. Cardinality(Live') = Cardinality(Live) - 1
    BY <2>1, OneLess DEF ConnStates
  <2>3. LoopHoldsCur' /\ conn' \in [Conn -> ConnStates]
    BY <2>1, TaskKeepsCur DEF ConnStates
  <2> QED
    BY <2>1, <2>2, <2>3 DEF Typed
<1>2. CASE ServeConnection(c) /\ insists
  <2>1. main' = "aborted" /\ UNCHANGED <<server, cur, conn, active, insists>>
    BY <1>2 DEF ServeConnection
  <2>2. Live' = Live
    BY <2>1 DEF Live
  <2> QED
    BY <2>1, <2>2 DEF Typed, LoopHoldsCur
<1>3. CASE ~(HandshakeFails(c) \/ Uncount(c)) /\ ~(ServeConnection(c) /\ insists)
  <2>1. PICK l \in ConnStates :
          /\ conn[c] # "accepted" /\ Goto(c, l)
          /\ conn[c] \in {"none", "closed"} <=> l \in {"none", "closed"}
          /\ UNCHANGED <<main, server, cur, active, insists>>
    <3>1. CASE Reconnect(c)
      BY <3>1 DEF Reconnect, ConnStates
    <3>2. CASE HandshakeDone(c)
      BY <3>2 DEF HandshakeDone, ConnStates
    <3>3. CASE ServeConnection(c) /\ ~insists
      BY <3>3 DEF ServeConnection, ConnStates
    <3>4. CASE RouteRequest(c) \/ ForwardHead(c)
      BY <3>4 DEF RouteRequest, ForwardHead, ConnStates
    <3>5. CASE ForwardBody(c) \/ ForwardFails(c)
      BY <3>5 DEF ForwardBody, ForwardFails, MayFail, ConnStates
    <3>6. CASE ConnectionEnds(c)
      BY <3>6 DEF ConnectionEnds, ConnStates
    <3> QED
      BY <1>3, <3>1, <3>2, <3>3, <3>4, <3>5, <3>6 DEF Task
  <2>2. Live' = Live
    BY <2>1, AsMany
  <2>3. LoopHoldsCur' /\ conn' \in [Conn -> ConnStates]
    BY <2>1, TaskKeepsCur
  <2> QED
    BY <2>1, <2>2, <2>3 DEF Typed
<1> QED
  BY <1>1, <1>2, <1>3

\* Every step keeps the invariant.
LEMMA NextInv == IInv /\ [Next]_vars => IInv'
<1> SUFFICES ASSUME IInv, [Next]_vars PROVE IInv'
  OBVIOUS
<1>1. CASE Bind \/ LoadTls \/ Spawn \/ \E c \in Conn : Accept(c)
  BY <1>1, LoopPreserves
<1>2. CASE \E c \in Conn : Task(c)
  BY <1>2, TaskPreserves
<1>3. CASE Signal \/ ServerStopped \/ Ended \/ UNCHANGED vars
  <2>1. main' \in {main, "exited"} /\ UNCHANGED <<server, cur, conn, active, insists>>
    BY <1>3 DEF Signal, ServerStopped, Ended, vars
  <2>2. Live' = Live
    BY <2>1 DEF Live
  <2> QED
    BY <2>1, <2>2 DEF IInv, Typed, LoopHoldsCur
<1> QED
  BY <1>1, <1>2, <1>3 DEF Next

\* The inductive invariant holds in every reachable state.
LEMMA Invariant == Spec => []IInv
BY InitInv, NextInv, PTL DEF Spec

\* The counter that active_connections() returns is the number of connections there are,
\* for any number of connections and any history of them.
THEOREM CounterIsExact == Spec => []ActiveIsExact
<1>1. IInv => ActiveIsExact
  BY DEF IInv, ActiveIsExact, Live
<1> QED
  BY Invariant, <1>1, PTL

\* Types hold; in particular the unsigned counter of connections never wraps below zero.
THEOREM TypeCorrect == Spec => []TypeOK
<1>1. IInv => TypeOK
  BY LiveFinite DEF IInv, Typed, TypeOK
<1> QED
  BY Invariant, <1>1, PTL
=============================================================================
