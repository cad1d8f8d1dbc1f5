------------------------- MODULE GatewayServer_proofs -------------------------
(***************************************************************************)
(* Proofs about GatewayServer, for any set of peers, any connection limit   *)
(* and any drain time.  Neither the type invariant nor BackPressure is      *)
(* inductive: that a permit returned or a decrement stays in range follows  *)
(* from counting who owns permits and who was counted, the accept loop's    *)
(* own connection included.                                                 *)
(***************************************************************************)
EXTENDS GatewayServer, FiniteSetTheorems, TLAPS

\* The connections for which a permit is out, the one in the loop's body included.
Held == {c \in Conn : \/ conn[c] \in {"open", "handled", "uncounted"}
                      \/ c = cur /\ loop \in {"admitted", "counted"}}

\* The connections for which fetch_add ran and fetch_sub has not.
Counted == {c \in Conn : \/ conn[c] \in {"open", "handled"}
                         \/ c = cur /\ loop = "counted"}

\* Types without the ranges of the two counters.
Shape ==
    /\ main \in MainStates
    /\ elapsed \in 0 .. MaxTime
    /\ forwarder \in ForwarderStates
    /\ loop \in LoopStates
    /\ cur \in Conn \cup {NoConn}
    /\ drainStart \in 0 .. MaxTime
    /\ conn \in [Conn -> ConnStates]
    /\ permits \in Int
    /\ active \in Int

\* The loop's connection is a peer whose task does not exist yet.
LoopOwnsCur ==
    loop \in {"accepted", "admitted", "counted"} =>
        cur \in Conn /\ conn[cur] = "accepted"

PermitAccounting == permits = Limit - Cardinality(Held)
CountAccounting  == active = Cardinality(Counted)

\* Before the listener is bound and after a complete drain nothing is counted.
NothingCounted == loop \in {"bind", "returned"} => Counted = {}

IInv ==
    /\ Shape
    /\ LoopOwnsCur
    /\ permits >= 0
    /\ PermitAccounting
    /\ CountAccounting
    /\ NothingCounted

-----------------------------------------------------------------------------
\* Held and Counted are finite, and every counted connection holds a permit.
LEMMA HeldFinite ==
    /\ IsFiniteSet(Held) /\ Cardinality(Held) \in Nat
    /\ IsFiniteSet(Counted) /\ Cardinality(Counted) \in Nat
    /\ Cardinality(Counted) <= Cardinality(Held)
<1>1. Held \subseteq Conn /\ Counted \subseteq Held
  BY DEF Held, Counted
<1>2. IsFiniteSet(Held) /\ Cardinality(Held) \in Nat
  BY <1>1, GatewayServerAssumption, FS_Subset, FS_CardinalityType
<1>3. QED
  BY <1>1, <1>2, FS_Subset, FS_CardinalityType

\* The same facts about the state after a step.
LEMMA HeldFiniteNext ==
    /\ IsFiniteSet(Held') /\ Cardinality(Held') \in Nat
    /\ IsFiniteSet(Counted') /\ Cardinality(Counted') \in Nat
<1>1. Held' \subseteq Conn /\ Counted' \subseteq Conn
  BY DEF Held, Counted
<1>2. QED
  BY <1>1, GatewayServerAssumption, FS_Subset, FS_CardinalityType

\* An action that changes neither set nor counter keeps both equations.
LEMMA SameAccounting ==
    ASSUME PermitAccounting, CountAccounting,
           Held' = Held, Counted' = Counted, permits' = permits, active' = active
    PROVE  PermitAccounting' /\ CountAccounting'
BY DEF PermitAccounting, CountAccounting

\* The initial states satisfy the inductive invariant: nothing is held.
LEMMA InitIInv == Init => IInv
<1> SUFFICES ASSUME Init PROVE IInv
  OBVIOUS
<1>1. Held = {} /\ Counted = {}
  BY DEF Init, Held, Counted
<1>2. Cardinality({}) = 0
  BY FS_EmptySet
<1>3. Shape
  BY GatewayServerAssumption DEF Init, Shape, MainStates, ForwarderStates, LoopStates, ConnStates
<1>4. QED
  BY <1>1, <1>2, <1>3, GatewayServerAssumption
  DEF Init, IInv, LoopOwnsCur, PermitAccounting, CountAccounting, NothingCounted

\* The actions of main, of the forwarder and of time, and those accept-loop steps
\* that own no connection, move no permit and count nothing.
QuietStep ==
    \/ Signal \/ MainJoin \/ MainTimeout \/ Bind \/ BindFails \/ Forward
    \/ EnterSelect \/ StopAccepting \/ AcceptError
    \/ DrainComplete \/ DrainTimeout \/ Tick \/ Exited

\* Types are preserved by every step.
LEMMA ShapeStep == Shape /\ [Next]_vars => Shape'
<1> SUFFICES ASSUME Shape, [Next]_vars PROVE Shape'
  OBVIOUS
<1> USE GatewayServerAssumption DEF Shape, MainStates, ForwarderStates, LoopStates, ConnStates
<1>1. CASE Signal \/ MainJoin \/ MainTimeout \/ Bind \/ BindFails \/ Forward
  BY <1>1 DEF Signal, MainJoin, MainTimeout, Bind, BindFails, Forward
<1>2. CASE EnterSelect \/ StopAccepting \/ AcceptError \/ Admit
  BY <1>2 DEF EnterSelect, StopAccepting, AcceptError, Admit
<1>3. CASE Reject \/ CountConnection \/ SpawnConnection
  BY <1>3 DEF Reject, CountConnection, FetchAdd, SpawnConnection, PermitMoved
<1>4. CASE DrainComplete \/ DrainTimeout \/ Tick \/ Exited \/ UNCHANGED vars
  BY <1>4 DEF DrainComplete, DrainTimeout, Tick, Exited, vars
<1>5. ASSUME NEW c \in Conn, Accept(c) PROVE Shape'
  BY <1>5 DEF Accept
<1>6. ASSUME NEW c \in Conn,
             ConnectionEnds(c) \/ UncountConnection(c) \/ ReleasePermit(c)
      PROVE  Shape'
  BY <1>6 DEF ConnectionEnds, UncountConnection, ReleasePermit
<1>7. QED
  BY <1>1, <1>2, <1>3, <1>4, <1>5, <1>6 DEF Next

\* Quiet steps preserve the rest of the invariant.  Only DrainComplete and
\* BindFails have something to show: nothing is counted when they return.
LEMMA QuietStepIInv == IInv /\ QuietStep => IInv'
<1> SUFFICES ASSUME IInv, QuietStep PROVE IInv'
  OBVIOUS
<1> USE DEF IInv
<1>1. Shape'
  BY ShapeStep DEF QuietStep, Next
<1>2. /\ conn' = conn /\ cur' = cur /\ permits' = permits /\ active' = active
      /\ loop' # loop =>
            /\ loop \notin {"accepted", "admitted", "counted"}
            /\ loop' \notin {"accepted", "admitted", "counted"}
  BY DEF QuietStep, Signal, MainJoin, MainTimeout, Bind, BindFails, Forward, EnterSelect,
         StopAccepting, AcceptError, DrainComplete, DrainTimeout, Tick, Exited, vars
<1>3. Held' = Held /\ Counted' = Counted
  BY <1>2 DEF Held, Counted
<1>4. PermitAccounting' /\ CountAccounting'
  BY <1>2, <1>3, SameAccounting
<1>5. loop' \in {"bind", "returned"} =>
        loop \in {"bind", "returned"} \/ (loop = "draining" /\ active = 0)
  BY DEF QuietStep, Signal, MainJoin, MainTimeout, Bind, BindFails, Forward, EnterSelect,
         StopAccepting, AcceptError, DrainComplete, DrainTimeout, Tick, Exited, vars
<1>6. active = 0 => Counted = {}
  BY HeldFinite, FS_EmptySet DEF CountAccounting
<1>7. NothingCounted'
  BY <1>3, <1>5, <1>6 DEF NothingCounted
<1>8. LoopOwnsCur'
  BY <1>2 DEF LoopOwnsCur
<1>9. QED
  BY <1>1, <1>2, <1>4, <1>7, <1>8

\* The accept loop hands over a connection; it is in no set before admission.
LEMMA AcceptIInv == ASSUME NEW c \in Conn PROVE IInv /\ Accept(c) => IInv'
<1> SUFFICES ASSUME IInv, Accept(c) PROVE IInv'
  OBVIOUS
<1> USE DEF IInv
<1>1. Shape'
  BY ShapeStep DEF Next
<1>2. Held' = Held /\ Counted' = Counted
  BY DEF Accept, Held, Counted, Shape
<1>3. PermitAccounting' /\ CountAccounting'
  BY <1>2, SameAccounting DEF Accept
<1>4. QED
  BY <1>1, <1>3 DEF Accept, LoopOwnsCur, NothingCounted, Shape

\* try_acquire_owned: exactly the loop's connection starts to hold a permit.
LEMMA AdmitIInv == IInv /\ Admit => IInv'
<1> SUFFICES ASSUME IInv, Admit PROVE IInv'
  OBVIOUS
<1> USE DEF IInv
<1>1. Shape'
  BY ShapeStep DEF Next
<1>2. Held' = Held \cup {cur} /\ cur \notin Held /\ Counted' = Counted
  BY DEF Admit, Held, Counted, LoopOwnsCur
<1>3. Cardinality(Held') = Cardinality(Held) + 1
  BY <1>2, HeldFinite, FS_AddElement
<1>4. PermitAccounting' /\ CountAccounting'
  BY <1>2, <1>3, HeldFinite, GatewayServerAssumption
  DEF Admit, PermitAccounting, CountAccounting
<1>5. QED
  BY <1>1, <1>4 DEF Admit, LoopOwnsCur, NothingCounted, Shape

\* A rejected connection leaves the loop without having held anything.
LEMMA RejectIInv == IInv /\ Reject => IInv'
<1> SUFFICES ASSUME IInv, Reject PROVE IInv'
  OBVIOUS
<1> USE DEF IInv
<1>1. Shape'
  BY ShapeStep DEF Next
<1>2. Held' = Held /\ Counted' = Counted
  BY GatewayServerAssumption DEF Reject, Held, Counted, LoopOwnsCur, Shape
<1>3. PermitAccounting' /\ CountAccounting'
  BY <1>2, SameAccounting DEF Reject
<1>4. QED
  BY <1>1, <1>3 DEF Reject, LoopOwnsCur, NothingCounted

\* fetch_add: exactly the loop's connection starts to be counted.
LEMMA CountIInv == IInv /\ CountConnection => IInv'
<1> SUFFICES ASSUME IInv, CountConnection PROVE IInv'
  OBVIOUS
<1> USE DEF IInv
<1>1. Shape'
  BY ShapeStep DEF Next
<1>2. Held' = Held /\ Counted' = Counted \cup {cur} /\ cur \notin Counted
  BY DEF CountConnection, FetchAdd, Held, Counted, LoopOwnsCur
<1>3. Cardinality(Counted') = Cardinality(Counted) + 1
  BY <1>2, HeldFinite, FS_AddElement
<1>4. PermitAccounting' /\ CountAccounting'
  BY <1>2, <1>3, HeldFinite DEF CountConnection, FetchAdd, PermitAccounting, CountAccounting
<1>5. QED
  BY <1>1, <1>4 DEF CountConnection, FetchAdd, LoopOwnsCur, NothingCounted

\* spawn: the permit and the count pass from the loop to the task.
LEMMA SpawnIInv == IInv /\ SpawnConnection => IInv'
<1> SUFFICES ASSUME IInv, SpawnConnection PROVE IInv'
  OBVIOUS
<1> USE DEF IInv
<1>1. Shape'
  BY ShapeStep DEF Next
<1>2. Held' = Held /\ Counted' = Counted
  BY GatewayServerAssumption DEF SpawnConnection, PermitMoved, Held, Counted, LoopOwnsCur, Shape
<1>3. PermitAccounting' /\ CountAccounting'
  BY <1>2, SameAccounting DEF SpawnConnection, PermitMoved
<1>4. QED
  BY <1>1, <1>3 DEF SpawnConnection, PermitMoved, LoopOwnsCur, NothingCounted

\* A connection's task gives up its count first and its permit last.
LEMMA TaskIInv ==
    ASSUME NEW c \in Conn
    PROVE  IInv /\ (ConnectionEnds(c) \/ UncountConnection(c) \/ ReleasePermit(c)) => IInv'
<1> SUFFICES ASSUME IInv, ConnectionEnds(c) \/ UncountConnection(c) \/ ReleasePermit(c)
             PROVE  IInv'
  OBVIOUS
<1> USE DEF IInv
<1>1. Shape'
  BY ShapeStep DEF Next
<1>2. /\ loop' = loop /\ cur' = cur
      /\ LoopOwnsCur'
  BY DEF ConnectionEnds, UncountConnection, ReleasePermit, LoopOwnsCur, Shape
<1>3. CASE ConnectionEnds(c)
  <2>1. Held' = Held /\ Counted' = Counted
    BY <1>3 DEF ConnectionEnds, Held, Counted, Shape
  <2>2. PermitAccounting' /\ CountAccounting'
    BY <1>3, <2>1, SameAccounting DEF ConnectionEnds
  <2>3. QED
    BY <1>1, <1>2, <1>3, <2>1, <2>2 DEF ConnectionEnds, NothingCounted
<1>4. CASE UncountConnection(c)
  <2>1. Held' = Held /\ Counted' = Counted \ {c} /\ c \in Counted
    BY <1>4 DEF UncountConnection, Held, Counted, Shape, LoopOwnsCur
  <2>2. Cardinality(Counted') = Cardinality(Counted) - 1
    BY <2>1, HeldFinite, FS_RemoveElement
  <2>3. PermitAccounting' /\ CountAccounting'
    BY <1>4, <2>1, <2>2, HeldFinite DEF UncountConnection, PermitAccounting, CountAccounting
  <2>4. QED
    BY <1>1, <1>2, <1>4, <2>1, <2>3 DEF UncountConnection, NothingCounted
<1>5. CASE ReleasePermit(c)
  <2>1. Held' = Held \ {c} /\ c \in Held /\ Counted' = Counted
    BY <1>5 DEF ReleasePermit, Held, Counted, Shape, LoopOwnsCur
  <2>2. Cardinality(Held') = Cardinality(Held) - 1
    BY <2>1, HeldFinite, FS_RemoveElement
  <2>3. PermitAccounting' /\ CountAccounting' /\ permits' >= 0
    BY <1>5, <2>1, <2>2, HeldFinite, GatewayServerAssumption
    DEF ReleasePermit, PermitAccounting, CountAccounting, Shape
  <2>4. QED
    BY <1>1, <1>2, <1>5, <2>1, <2>3 DEF ReleasePermit, NothingCounted
<1>6. QED
  BY <1>3, <1>4, <1>5

\* The inductive invariant holds in every reachable state.
THEOREM Accounting == Spec => []IInv
<1>1. IInv /\ [Next]_vars => IInv'
  <2> SUFFICES ASSUME IInv, [Next]_vars PROVE IInv'
    OBVIOUS
  <2>1. CASE QuietStep
    BY <2>1, QuietStepIInv
  <2>2. CASE Admit \/ Reject \/ CountConnection \/ SpawnConnection
    BY <2>2, AdmitIInv, RejectIInv, CountIInv, SpawnIInv
  <2>3. CASE \E c \in Conn : Accept(c)
    BY <2>3, AcceptIInv
  <2>4. CASE \E c \in Conn : ConnectionEnds(c) \/ UncountConnection(c) \/ ReleasePermit(c)
    BY <2>4, TaskIInv
  <2>5. CASE UNCHANGED vars
    BY <2>5, QuietStepIInv DEF vars, IInv, Shape, LoopOwnsCur, PermitAccounting,
       CountAccounting, NothingCounted, Held, Counted
  <2>6. QED
    BY <2>1, <2>2, <2>3, <2>4, <2>5 DEF Next, QuietStep
<1>2. QED
  BY InitIInv, <1>1, PTL DEF Spec

\* Every variable keeps its type; in particular permits and ACTIVE_CONNECTIONS stay
\* within 0..Limit, so the AtomicUsize of server.rs never wraps.
THEOREM TypeCorrect == Spec => []TypeOK
<1>1. IInv => TypeOK
  <2> SUFFICES ASSUME IInv PROVE TypeOK
    OBVIOUS
  <2>1. permits \in 0 .. Limit /\ active \in 0 .. Limit
    BY HeldFinite, GatewayServerAssumption
    DEF IInv, Shape, PermitAccounting, CountAccounting
  <2>2. QED
    BY <2>1 DEF IInv, Shape, TypeOK
<1>2. QED
  BY <1>1, Accounting, PTL

\* At every moment at most Limit connections are served, and the gauge never
\* exceeds the permits in use, for every number of peers and every limit.
THEOREM BackPressureHolds == Spec => []BackPressure
<1>1. IInv => BackPressure
  <2> SUFFICES ASSUME IInv PROVE BackPressure
    OBVIOUS
  <2>1. PermitTasks \subseteq Held
    BY DEF PermitTasks, Held
  <2>2. /\ Cardinality(PermitTasks) \in Nat
        /\ Cardinality(PermitTasks) <= Cardinality(Held)
    BY <2>1, HeldFinite, FS_Subset, FS_CardinalityType
  <2>3. Limit - permits = Cardinality(Held)
    BY HeldFinite, GatewayServerAssumption DEF IInv, PermitAccounting
  <2>4. QED
    BY <2>2, <2>3, HeldFinite DEF IInv, CountAccounting, BackPressure
<1>2. QED
  BY <1>1, Accounting, PTL

\* A server that returned without its drain timing out serves no connection any
\* more, for every number of peers and every limit.
THEOREM DrainIsComplete == Spec => []DrainSeesEveryConnection
<1>1. IInv => DrainSeesEveryConnection
  BY DEF IInv, NothingCounted, DrainSeesEveryConnection, CountedTasks, Counted
<1>2. QED
  BY <1>1, Accounting, PTL
=============================================================================
