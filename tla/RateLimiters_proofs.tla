--------------------------- MODULE RateLimiters_proofs ---------------------------
(***************************************************************************)
(* Proofs about the rate limiters of the data planes, for any number of     *)
(* callers, limits, windows and lengths of time: check_redis of the Rust    *)
(* gateway never overshoots by more than the checks in flight, the proxy's  *)
(* limiter exceeds its burst in a window by no more than a request per      *)
(* caller, and the local one holds its quota.                               *)
(***************************************************************************)
EXTENDS UpstreamGuards_proofs, FiniteSetTheorems

-----------------------------------------------------------------------------
(* GatewayRedisLimit.  BoundedOvershoot is inductive once the sets it counts *)
(* are known to be finite: a check enters Adding only after it has seen      *)
(* fewer than Limit members, and leaves it when it adds its own.             *)

FiniteZset == IsFiniteSet(qZset)

Bounded == Cardinality(qZset) + Cardinality(Q!Adding) < Limit + Cardinality(Caller)

\* The instance counts as the module FiniteSets does.
LEMMA SameGatewayCount == ASSUME NEW S PROVE Q!Cardinality(S) = Cardinality(S)
BY DEF Q!Cardinality, Cardinality, Q!IsFiniteSet, IsFiniteSet

GatewayInv == Q!TypeOK /\ FiniteZset /\ Bounded

\* Checks in Adding are callers, so there are finitely many, at most all of them.
LEMMA AddingFinite ==
    /\ IsFiniteSet(Q!Adding)
    /\ Cardinality(Q!Adding) \in Nat
    /\ Cardinality(Caller) \in Nat
    /\ Cardinality(Q!Adding) <= Cardinality(Caller)
<1>1. Q!Adding \subseteq Caller
  BY DEF Q!Adding
<1>2. QED
  BY <1>1, LimitersAssumption, FS_Subset, FS_CardinalityType

\* The same in the next state.
LEMMA AddingFiniteNext ==
    /\ IsFiniteSet(Q!Adding')
    /\ Cardinality(Q!Adding') \in Nat
    /\ Cardinality(Q!Adding') <= Cardinality(Caller)
<1>1. Q!Adding' \subseteq Caller
  BY DEF Q!Adding
<1>2. QED
  BY <1>1, LimitersAssumption, FS_Subset, FS_CardinalityType

\* A step that removes members and lets no check into Adding keeps the bound.
LEMMA GatewayShrinks ==
    ASSUME GatewayInv, qZset' \subseteq qZset, Q!Adding' \subseteq Q!Adding
    PROVE  IsFiniteSet(qZset') /\ Bounded'
<1>1. /\ IsFiniteSet(qZset') /\ Cardinality(qZset') \in Nat /\ Cardinality(qZset) \in Nat
      /\ Cardinality(qZset') <= Cardinality(qZset)
  BY FS_Subset, FS_CardinalityType DEF GatewayInv, FiniteZset
<1>2. Cardinality(Q!Adding') <= Cardinality(Q!Adding)
  BY AddingFinite, FS_Subset
<1>3. Cardinality(qZset) + Cardinality(Q!Adding) < Limit + Cardinality(Caller)
  BY DEF GatewayInv, Bounded
<1>4. Cardinality(qZset') + Cardinality(Q!Adding') < Limit + Cardinality(Caller)
  BY <1>1, <1>2, <1>3, AddingFinite, AddingFiniteNext, LimitersAssumption
<1>5. QED
  BY <1>1, <1>4 DEF Bounded

\* Initially the set is empty and nobody adds.
LEMMA GatewayInit == Q!Init => GatewayInv
<1> SUFFICES ASSUME Q!Init PROVE GatewayInv
  OBVIOUS
<1>1. Q!TypeOK
  BY LimitersAssumption DEF Q!Init, Q!TypeOK, Q!Steps
<1>2. FiniteZset /\ Cardinality(qZset) = 0
  BY FS_EmptySet DEF Q!Init, FiniteZset
<1>3. Q!Adding = {}
  BY DEF Q!Init, Q!Adding
<1>4. Cardinality(Q!Adding) = 0 /\ Cardinality(Caller) \in Nat
  BY <1>3, FS_EmptySet, AddingFinite
<1>5. Bounded
  BY <1>2, <1>4, LimitersAssumption DEF Bounded
<1>6. QED
  BY <1>1, <1>2, <1>5 DEF GatewayInv

\* Check: nothing is counted yet.
LEMMA CheckStep == ASSUME GatewayInv, NEW c \in Caller, Q!Check(c) PROVE GatewayInv'
<1>1. Q!TypeOK'
  BY DEF GatewayInv, Q!TypeOK, Q!Check, Q!Goto, Q!Steps
<1>2. qZset' \subseteq qZset /\ Q!Adding' \subseteq Q!Adding
  BY DEF GatewayInv, Q!TypeOK, Q!Check, Q!Goto, Q!Adding
<1>3. QED
  BY <1>1, <1>2, GatewayShrinks DEF GatewayInv, FiniteZset

\* ZREMRANGEBYSCORE only removes members.
LEMMA ZRemStep == ASSUME GatewayInv, NEW c \in Caller, Q!ZRemRangeByScore(c) PROVE GatewayInv'
<1>1. qZset' \subseteq qZset
  BY DEF Q!ZRemRangeByScore
<1>2. Q!TypeOK'
  BY <1>1 DEF GatewayInv, Q!TypeOK, Q!ZRemRangeByScore, Q!Goto, Q!Steps
<1>3. Q!Adding' \subseteq Q!Adding
  BY DEF GatewayInv, Q!TypeOK, Q!ZRemRangeByScore, Q!Goto, Q!Adding
<1>4. QED
  BY <1>1, <1>2, <1>3, GatewayShrinks DEF GatewayInv, FiniteZset

\* ZCARD: a check enters Adding only when it saw fewer than Limit members.
LEMMA ZCardStep == ASSUME GatewayInv, NEW c \in Caller, Q!ZCard(c) PROVE GatewayInv'
<1>1. Q!TypeOK'
  BY DEF GatewayInv, Q!TypeOK, Q!ZCard, Q!Goto, Q!Steps
<1>2. FiniteZset'
  BY DEF GatewayInv, FiniteZset, Q!ZCard
<1>3. CASE Q!Exceeded
  <2>1. qZset' \subseteq qZset /\ Q!Adding' \subseteq Q!Adding
    BY <1>3 DEF GatewayInv, Q!TypeOK, Q!ZCard, Q!Goto, Q!Adding
  <2>2. QED
    BY <2>1, <1>1, <1>2, GatewayShrinks DEF GatewayInv
<1>4. CASE ~Q!Exceeded
  <2>1. qZset' = qZset /\ Cardinality(qZset) \in Nat
    BY FS_CardinalityType DEF GatewayInv, FiniteZset, Q!ZCard
  <2>2. Cardinality(qZset) < Limit
    BY <2>1, <1>4, LimitersAssumption, SameGatewayCount DEF Q!Exceeded
  <2>3. Cardinality(qZset') + Cardinality(Q!Adding') < Limit + Cardinality(Caller)
    BY <2>1, <2>2, AddingFinite, AddingFiniteNext, LimitersAssumption
  <2>4. QED
    BY <2>3, <1>1, <1>2 DEF GatewayInv, Bounded
<1>5. QED
  BY <1>3, <1>4

\* ZADD: one member more, one check less about to add.
LEMMA ZAddStep == ASSUME GatewayInv, NEW c \in Caller, Q!ZAdd(c) PROVE GatewayInv'
<1>1. Q!TypeOK'
  BY DEF GatewayInv, Q!TypeOK, Q!ZAdd, Q!FreshUuid, Q!Goto, Q!Steps
<1> DEFINE m == <<qNow[c], Q!FreshUuid>>
<1>2. qZset' = qZset \cup {m}
  BY DEF Q!ZAdd
<1>3. IsFiniteSet(qZset')
  BY <1>2, FS_AddElement DEF GatewayInv, FiniteZset
<1>4. /\ Cardinality(qZset) \in Nat /\ Cardinality(qZset') \in Nat
      /\ Cardinality(qZset') <= Cardinality(qZset) + 1
  <2>1. Cardinality(qZset) \in Nat
    BY FS_CardinalityType DEF GatewayInv, FiniteZset
  <2>2. Cardinality(qZset \cup {m}) =
            IF m \in qZset THEN Cardinality(qZset) ELSE Cardinality(qZset) + 1
    BY FS_AddElement DEF GatewayInv, FiniteZset
  <2>3. QED
    BY <2>1, <2>2, <1>2
<1>5. c \in Q!Adding /\ Q!Adding' = Q!Adding \ {c}
  BY DEF GatewayInv, Q!TypeOK, Q!ZAdd, Q!Goto, Q!Adding
<1>6. Cardinality(Q!Adding') = Cardinality(Q!Adding) - 1
  BY <1>5, AddingFinite, FS_RemoveElement
<1>7. Cardinality(qZset) + Cardinality(Q!Adding) < Limit + Cardinality(Caller)
  BY DEF GatewayInv, Bounded
<1>8. Cardinality(qZset') + Cardinality(Q!Adding') < Limit + Cardinality(Caller)
  BY <1>4, <1>6, <1>7, AddingFinite, LimitersAssumption
<1>9. QED
  BY <1>1, <1>2, <1>3, <1>8 DEF GatewayInv, FiniteZset, Bounded

\* EXPIRE ends a granted check; the set is as it was.
LEMMA ExpireStep == ASSUME GatewayInv, NEW c \in Caller, Q!Expire(c) PROVE GatewayInv'
<1>1. Q!TypeOK'
  BY LimitersAssumption DEF GatewayInv, Q!TypeOK, Q!Expire, Q!Goto, Q!Steps
<1>2. qZset' \subseteq qZset /\ Q!Adding' \subseteq Q!Adding
  BY DEF GatewayInv, Q!TypeOK, Q!Expire, Q!Goto, Q!Adding
<1>3. QED
  BY <1>1, <1>2, GatewayShrinks DEF GatewayInv, FiniteZset

\* An error ends a check wherever it is.
LEMMA CheckFailsStep == ASSUME GatewayInv, NEW c \in Caller, Q!CheckFails(c) PROVE GatewayInv'
<1>1. Q!TypeOK'
  BY DEF GatewayInv, Q!TypeOK, Q!CheckFails, Q!Goto, Q!Steps
<1>2. qZset' \subseteq qZset /\ Q!Adding' \subseteq Q!Adding
  BY DEF GatewayInv, Q!TypeOK, Q!CheckFails, Q!Goto, Q!Adding
<1>3. QED
  BY <1>1, <1>2, GatewayShrinks DEF GatewayInv, FiniteZset

\* When time passes Redis may delete the whole set.
LEMMA TickStep == ASSUME GatewayInv, Q!Tick PROVE GatewayInv'
<1>1. qZset' \subseteq qZset /\ Q!Adding' \subseteq Q!Adding
  BY DEF Q!Tick, Q!Adding
<1>2. qClock' \in Window .. MaxTime /\ Window .. qClock \subseteq Window .. qClock'
  BY LimitersAssumption DEF GatewayInv, Q!TypeOK, Q!Tick
<1>3. Q!TypeOK'
  BY <1>1, <1>2 DEF GatewayInv, Q!TypeOK, Q!Tick
<1>4. QED
  BY <1>1, <1>3, GatewayShrinks DEF GatewayInv, FiniteZset

\* The inductive invariant holds in every reachable state.
LEMMA GatewayInvariant == Q!Spec => []GatewayInv
<1>1. GatewayInv /\ [Q!Next]_qVars => GatewayInv'
  <2> SUFFICES ASSUME GatewayInv, [Q!Next]_qVars PROVE GatewayInv'
    OBVIOUS
  <2>1. CASE Q!Next
    BY <2>1, CheckStep, ZRemStep, ZCardStep, ZAddStep, ExpireStep, CheckFailsStep, TickStep
       DEF Q!Next
  <2>2. CASE UNCHANGED qVars
    BY <2>2 DEF qVars, GatewayInv, Q!TypeOK, FiniteZset, Bounded, Q!Adding
  <2>3. QED
    BY <2>1, <2>2
<1>2. QED
  BY GatewayInit, <1>1, PTL DEF Q!Spec, Q!vars, qVars

\* Every variable of check_redis keeps its type and members keep distinct uuids.
LEMMA GatewayTypes == Q!Spec => []Q!TypeOK
<1>1. GatewayInv => Q!TypeOK
  BY DEF GatewayInv
<1>2. QED
  BY <1>1, GatewayInvariant, PTL

\* The breaker and check_redis keep their types.
THEOREM GuardsTyped == Spec /\ Q!Spec => []Typed
<1>1. TypeOK /\ Q!TypeOK => Typed
  BY DEF Typed
<1> QED
  BY <1>1, BreakerTypes, GatewayTypes, PTL

\* For every number of tasks and gateways that run check_redis at once, the set outgrows
\* the limit by fewer members than there are of them.
THEOREM OvershootIsBounded == Q!Spec => []BoundedOvershoot
<1>1. GatewayInv => BoundedOvershoot
  BY SameGatewayCount DEF GatewayInv, Bounded, BoundedOvershoot, Q!BoundedOvershoot
<1>2. QED
  BY <1>1, GatewayInvariant, PTL

-----------------------------------------------------------------------------
(* ProjectRateLimit.  Before a window ends its key does not expire, so that  *)
(* the counter is at least what checks of the window were or will be granted *)
(* for their counts.  After its end no check of the window begins, and each  *)
(* one under way is granted at most once.                                    *)

\* The first second after window w.
WindowEnd(w) == (w + 1) * Minute

\* Checks of window w that have not returned, and those among them that counted
\* themselves within the burst.
Underway(w) == {c \in Client : P!InFlight(c) /\ P!windowKey(c) = w}
Promised(w) ==
    {c \in Client : pAt[c] = "expire" /\ P!windowKey(c) = w /\ pCount[c] <= Burst}

WindowInv(w) ==
    /\ pExpireAt[w] # 0 => pExpireAt[w] > WindowEnd(w)
    /\ pGranted[w] + Cardinality(Underway(w)) <= Burst + Cardinality(Client) + pErrors[w]
    /\ pClock < WindowEnd(w) =>
          /\ pGranted[w] + Cardinality(Promised(w)) <= Burst + pErrors[w]
          /\ pGranted[w] + Cardinality(Promised(w)) <= pCounter[w] + pErrors[w]

ProjectInv == P!TypeOK /\ \A w \in P!WindowKey : WindowInv(w)

\* A second lies in its window.
LEMMA WindowBounds ==
    ASSUME NEW t \in Nat, t <= MaxTime
    PROVE  /\ P!WindowOf(t) \in P!WindowKey
           /\ WindowEnd(P!WindowOf(t)) \in Nat
           /\ t < WindowEnd(P!WindowOf(t))
           /\ WindowEnd(P!WindowOf(t)) <= t + Minute
<1>1. Minute \in Nat /\ Minute >= 1 /\ MaxTime \in Nat
  BY LimitersAssumption
<1>2. t \div Minute \in Nat /\ MaxTime \div Minute \in Nat
  BY <1>1
<1>3. t \div Minute <= MaxTime \div Minute
  BY <1>1
<1>4. (t \div Minute) * Minute <= t /\ t < ((t \div Minute) + 1) * Minute
  BY <1>1
<1>5. ((t \div Minute) + 1) * Minute = (t \div Minute) * Minute + Minute
  BY <1>1, <1>2
<1>6. (t \div Minute) * Minute \in Nat
  BY <1>1, <1>2
<1> HIDE <1>2
<1> QED
  BY <1>1, <1>2, <1>3, <1>4, <1>5, <1>6 DEF P!WindowOf, P!WindowKey, WindowEnd

\* The window of a check.
LEMMA WindowOfCheck ==
    ASSUME P!TypeOK, NEW c \in Client
    PROVE  /\ P!windowKey(c) \in P!WindowKey
           /\ pStart[c] \in Nat /\ pStart[c] <= pClock /\ pClock \in Nat /\ pClock <= MaxTime
           /\ WindowEnd(P!windowKey(c)) \in Nat
           /\ WindowEnd(P!windowKey(c)) <= pStart[c] + Minute
<1>1. /\ pStart[c] \in Nat /\ pStart[c] <= pClock /\ pClock \in Nat /\ pClock <= MaxTime
      /\ pStart[c] <= MaxTime
  BY LimitersAssumption DEF P!TypeOK
<1> QED
  BY <1>1, WindowBounds DEF P!windowKey

\* Windows end at a natural number of seconds.
LEMMA WindowEndNat == ASSUME NEW w \in P!WindowKey PROVE WindowEnd(w) \in Nat
<1>1. w \in Nat /\ Minute \in Nat
  BY LimitersAssumption DEF P!WindowKey
<1> QED
  BY <1>1 DEF WindowEnd

\* The checks of a window are some of the finitely many callers.
LEMMA ChecksFinite ==
    ASSUME NEW w
    PROVE  /\ IsFiniteSet(Promised(w)) /\ Cardinality(Promised(w)) \in Nat
           /\ IsFiniteSet(Promised(w)') /\ Cardinality(Promised(w)') \in Nat
           /\ IsFiniteSet(Underway(w)) /\ Cardinality(Underway(w)) \in Nat
           /\ IsFiniteSet(Underway(w)') /\ Cardinality(Underway(w)') \in Nat
           /\ Cardinality(Underway(w)') <= Cardinality(Client)
           /\ Cardinality(Underway(w)) <= Cardinality(Client)
           /\ Cardinality(Client) \in Nat
<1>1. /\ Promised(w) \subseteq Client /\ Promised(w)' \subseteq Client
      /\ Underway(w) \subseteq Client /\ Underway(w)' \subseteq Client
  BY DEF Promised, Underway
<1>2. IsFiniteSet(Client)
  BY LimitersAssumption
<1> QED
  BY <1>1, <1>2, FS_Subset, FS_CardinalityType

\* The numbers of a window.
LEMMA WindowNumbers ==
    ASSUME P!TypeOK, NEW w \in P!WindowKey
    PROVE  /\ pGranted[w] \in Nat /\ pCounter[w] \in Nat /\ pErrors[w] \in Nat
           /\ pExpireAt[w] \in Nat /\ Burst \in Nat /\ pClock \in Nat
BY LimitersAssumption DEF P!TypeOK

\* At the start nothing is counted, promised or granted.
LEMMA ProjectInit == P!Init => ProjectInv
<1> SUFFICES ASSUME P!Init PROVE ProjectInv
  OBVIOUS
<1>1. P!TypeOK
  BY LimitersAssumption DEF P!Init, P!TypeOK
<1>2. ASSUME NEW w \in P!WindowKey PROVE WindowInv(w)
  <2>1. Promised(w) = {} /\ Underway(w) = {}
    BY DEF P!Init, Promised, Underway, P!InFlight
  <2>2. Cardinality(Promised(w)) = 0 /\ Cardinality(Underway(w)) = 0
    BY <2>1, FS_EmptySet
  <2>3. pGranted[w] = 0 /\ pErrors[w] = 0 /\ pCounter[w] = 0 /\ pExpireAt[w] = 0
    BY DEF P!Init
  <2>4. Burst \in Nat /\ Cardinality(Client) \in Nat
    BY LimitersAssumption, ChecksFinite
  <2> QED
    BY <2>2, <2>3, <2>4 DEF WindowInv
<1> QED
  BY <1>1, <1>2 DEF ProjectInv

\* Whether EXPIRE took effect or not, a key that expires does so after its window.
LEMMA RenewedKeeps ==
    ASSUME ProjectInv, NEW c \in Client, NEW e \in {pExpireAt, P!Renewed(c)}
    PROVE  /\ e \in [P!WindowKey -> Nat]
           /\ \A w \in P!WindowKey : e[w] # 0 => e[w] > WindowEnd(w)
<1>1. /\ pExpireAt \in [P!WindowKey -> Nat]
      /\ \A w \in P!WindowKey : pExpireAt[w] # 0 => pExpireAt[w] > WindowEnd(w)
  BY DEF ProjectInv, P!TypeOK, WindowInv
<1>2. /\ Minute \in Nat /\ pClock \in Nat /\ pStart[c] \in Nat /\ pStart[c] <= pClock
      /\ WindowEnd(P!windowKey(c)) \in Nat /\ WindowEnd(P!windowKey(c)) <= pStart[c] + Minute
      /\ P!windowKey(c) \in P!WindowKey
  BY LimitersAssumption, WindowOfCheck DEF ProjectInv
<1>3. CASE e = pExpireAt
  BY <1>1, <1>3
<1>4. CASE e = [pExpireAt EXCEPT ![P!windowKey(c)] = pClock + (Minute + 1)]
  <2>1. pClock + (Minute + 1) \in Nat /\ pClock + (Minute + 1) > WindowEnd(P!windowKey(c))
    BY <1>2
  <2> QED
    BY <1>1, <1>2, <1>4, <2>1
<1> QED
  BY <1>3, <1>4 DEF P!Renewed, P!TimeToLive

\* A check that begins is of the window that is under way.
LEMMA CheckLimitKeeps == ASSUME ProjectInv, NEW c \in Client, P!CheckLimit(c)
                         PROVE  ProjectInv'
<1>1. P!TypeOK'
  BY DEF ProjectInv, P!TypeOK, P!CheckLimit
<1>2. ASSUME NEW w \in P!WindowKey PROVE WindowInv(w)'
  <2>1. UNCHANGED <<pClock, pCounter, pExpireAt, pGranted, pErrors>> /\ pAt[c] = "idle"
    BY DEF P!CheckLimit
  <2>2. Promised(w)' = Promised(w)
    BY DEF ProjectInv, P!TypeOK, P!CheckLimit, Promised, P!windowKey
  <2>3. CASE w = P!WindowOf(pClock)
    <3>1. pClock < WindowEnd(w)
      BY <2>3, WindowBounds, LimitersAssumption DEF ProjectInv, P!TypeOK
    <3> QED
      BY <2>1, <2>2, <3>1, ChecksFinite, WindowNumbers DEF ProjectInv, WindowInv
  <2>4. CASE w # P!WindowOf(pClock)
    <3>1. Underway(w)' = Underway(w)
      BY <2>4 DEF ProjectInv, P!TypeOK, P!CheckLimit, Underway, P!InFlight, P!windowKey
    <3> QED
      BY <2>1, <2>2, <3>1 DEF ProjectInv, WindowInv
  <2> QED
    BY <2>3, <2>4
<1> QED
  BY <1>1, <1>2 DEF ProjectInv, P!CheckLimit

\* INCR promises at most what the counter has room for.
LEMMA IncrKeeps == ASSUME ProjectInv, NEW c \in Client, P!Incr(c) PROVE ProjectInv'
<1>1. P!TypeOK'
  BY WindowOfCheck DEF ProjectInv, P!TypeOK, P!Incr
<1>2. ASSUME NEW w \in P!WindowKey PROVE WindowInv(w)'
  <2>1. UNCHANGED <<pClock, pExpireAt, pGranted, pErrors>> /\ pAt[c] = "incr"
    BY DEF P!Incr
  <2>2. Underway(w)' = Underway(w)
    BY DEF ProjectInv, P!TypeOK, P!Incr, Underway, P!InFlight, P!windowKey
  <2>3. CASE P!windowKey(c) # w
    <3>1. Promised(w)' = Promised(w) /\ pCounter'[w] = pCounter[w]
      BY <2>3 DEF ProjectInv, P!TypeOK, P!Incr, Promised, P!windowKey
    <3> QED
      BY <2>1, <2>2, <3>1 DEF ProjectInv, WindowInv
  <2>4. CASE P!windowKey(c) = w
    <3>1. pCounter'[w] = pCounter[w] + 1 /\ pCount'[c] = pCounter[w] + 1
      BY <2>4 DEF ProjectInv, P!TypeOK, P!Incr
    <3>2. Promised(w)' \subseteq Promised(w) \cup {c}
      BY DEF ProjectInv, P!TypeOK, P!Incr, Promised, P!windowKey
    <3>3. c \notin Promised(w)
      BY <2>1 DEF Promised
    <3>4. /\ IsFiniteSet(Promised(w) \cup {c})
          /\ Cardinality(Promised(w) \cup {c}) = Cardinality(Promised(w)) + 1
      BY <3>3, ChecksFinite, FS_AddElement
    <3>5. Cardinality(Promised(w)') <= Cardinality(Promised(w)) + 1
      BY <3>2, <3>4, FS_Subset
    <3>6. ~(pCounter[w] + 1 <= Burst) => Promised(w)' \subseteq Promised(w)
      BY <3>1, <3>2 DEF Promised
    <3>7. ~(pCounter[w] + 1 <= Burst) => Cardinality(Promised(w)') <= Cardinality(Promised(w))
      BY <3>6, ChecksFinite, FS_Subset
    <3>8. /\ pGranted[w] \in Nat /\ pCounter[w] \in Nat /\ pErrors[w] \in Nat /\ Burst \in Nat
          /\ Cardinality(Promised(w)) \in Nat /\ Cardinality(Promised(w)') \in Nat
      BY ChecksFinite, WindowNumbers DEF ProjectInv
    <3>9. WindowInv(w)
      BY DEF ProjectInv
    <3> QED
      BY <2>1, <2>2, <3>1, <3>5, <3>7, <3>8, <3>9 DEF WindowInv
  <2> QED
    BY <2>3, <2>4
<1> QED
  BY <1>1, <1>2 DEF ProjectInv, P!Incr

\* A check that returns leaves the checks of its window.
LEMMA ReturnLeaves ==
    ASSUME ProjectInv, NEW c \in Client, P!InFlight(c), P!Return(c)
    PROVE  /\ \A w : Promised(w)' = Promised(w) \ {c} /\ Underway(w)' = Underway(w) \ {c}
           /\ c \in Underway(P!windowKey(c))
           /\ \A w \in P!WindowKey : w # P!windowKey(c) =>
                 Promised(w)' = Promised(w) /\ Underway(w)' = Underway(w)
           /\ pAt' \in [Client -> {"idle", "incr", "expire"}]
           /\ pStart' \in [Client -> 0 .. pClock] /\ pCount' \in [Client -> Nat]
<1>1. \A w : Promised(w)' = Promised(w) \ {c} /\ Underway(w)' = Underway(w) \ {c}
  BY DEF ProjectInv, P!TypeOK, P!Return, Promised, Underway, P!InFlight, P!windowKey
<1>2. c \in Underway(P!windowKey(c))
  BY DEF Underway
<1>3. \A w : w # P!windowKey(c) => c \notin Promised(w) /\ c \notin Underway(w)
  BY DEF Promised, Underway
<1>4. /\ pAt' \in [Client -> {"idle", "incr", "expire"}]
      /\ pStart' \in [Client -> 0 .. pClock] /\ pCount' \in [Client -> Nat]
  BY DEF ProjectInv, P!TypeOK, P!Return
<1> QED
  BY <1>1, <1>2, <1>3, <1>4

\* EXPIRE sets a time after the window and grants what was promised.
LEMMA ExpireKeeps == ASSUME ProjectInv, NEW c \in Client, P!Expire(c) PROVE ProjectInv'
<1>1. /\ pAt[c] = "expire" /\ P!InFlight(c) /\ P!Return(c) /\ pExpireAt' = P!Renewed(c)
      /\ UNCHANGED <<pClock, pCounter, pErrors>>
      /\ pGranted' = IF P!Allowed(c) THEN [pGranted EXCEPT ![P!windowKey(c)] = @ + 1]
                     ELSE pGranted
  BY DEF P!Expire, P!InFlight
<1>2. /\ pExpireAt' \in [P!WindowKey -> Nat]
      /\ \A w \in P!WindowKey : pExpireAt'[w] # 0 => pExpireAt'[w] > WindowEnd(w)
  BY <1>1, RenewedKeeps
<1>3. P!windowKey(c) \in P!WindowKey
  BY WindowOfCheck DEF ProjectInv
<1>4. pGranted' \in [P!WindowKey -> Nat]
  BY <1>1, <1>3 DEF ProjectInv, P!TypeOK
<1>5. P!TypeOK'
  BY <1>1, <1>2, <1>4, ReturnLeaves DEF ProjectInv, P!TypeOK
<1>6. ASSUME NEW w \in P!WindowKey PROVE WindowInv(w)'
  <2>1. WindowInv(w) /\ pGranted[w] \in Nat /\ pErrors[w] \in Nat /\ pCounter[w] \in Nat
    BY WindowNumbers DEF ProjectInv
  <2>2. CASE w # P!windowKey(c)
    <3>1. pGranted'[w] = pGranted[w]
      BY <1>1, <2>2 DEF ProjectInv, P!TypeOK
    <3>2. Promised(w)' = Promised(w) /\ Underway(w)' = Underway(w)
      BY <1>1, <2>2, ReturnLeaves
    <3> QED
      BY <1>1, <1>2, <2>1, <3>1, <3>2 DEF WindowInv
  <2>3. CASE w = P!windowKey(c)
    <3>1. Cardinality(Underway(w)') = Cardinality(Underway(w)) - 1
      BY <1>1, <2>3, ReturnLeaves, ChecksFinite, FS_RemoveElement
    <3>2. CASE P!Allowed(c)
      <4>1. pGranted'[w] = pGranted[w] + 1
        BY <1>1, <2>3, <3>2 DEF ProjectInv, P!TypeOK
      <4>2. c \in Promised(w)
        BY <1>1, <2>3, <3>2 DEF Promised, P!Allowed
      <4>3. Cardinality(Promised(w)') = Cardinality(Promised(w)) - 1
        BY <1>1, <4>2, ReturnLeaves, ChecksFinite, FS_RemoveElement
      <4> QED
        BY <1>1, <1>2, <2>1, <3>1, <4>1, <4>3, ChecksFinite DEF WindowInv
    <3>3. CASE ~P!Allowed(c)
      <4>1. pGranted'[w] = pGranted[w]
        BY <1>1, <3>3
      <4>2. c \notin Promised(w)
        BY <3>3 DEF Promised, P!Allowed
      <4>3. Promised(w)' = Promised(w)
        BY <1>1, <4>2, ReturnLeaves
      <4>4. LimitersAssumption
        BY LimitersAssumption
      <4> QED
        BY <1>1, <1>2, <2>1, <3>1, <4>1, <4>3, <4>4, ChecksFinite DEF WindowInv
    <3> QED
      BY <3>2, <3>3
  <2> QED
    BY <2>2, <2>3
<1> QED
  BY <1>1, <1>5, <1>6 DEF ProjectInv

\* A pipeline that is sent again gives up its promise.
LEMMA ResendKeeps == ASSUME ProjectInv, NEW c \in Client, P!Resend(c) PROVE ProjectInv'
<1>1. /\ pAt[c] = "expire" /\ UNCHANGED <<pClock, pCounter, pErrors, pGranted, pStart>>
      /\ pAt' = [pAt EXCEPT ![c] = "incr"] /\ pCount' = [pCount EXCEPT ![c] = 0]
      /\ pExpireAt' \in {pExpireAt, P!Renewed(c)}
  BY DEF P!Resend
<1>2. /\ pExpireAt' \in [P!WindowKey -> Nat]
      /\ \A w \in P!WindowKey : pExpireAt'[w] # 0 => pExpireAt'[w] > WindowEnd(w)
  BY <1>1, RenewedKeeps
<1>3. P!TypeOK'
  BY <1>1, <1>2 DEF ProjectInv, P!TypeOK
<1>4. ASSUME NEW w \in P!WindowKey PROVE WindowInv(w)'
  <2>1. WindowInv(w) /\ pGranted[w] \in Nat /\ pErrors[w] \in Nat /\ pCounter[w] \in Nat
        /\ Burst \in Nat
    BY WindowNumbers DEF ProjectInv
  <2>2. Promised(w)' \subseteq Promised(w) /\ Underway(w)' = Underway(w)
    BY <1>1 DEF ProjectInv, P!TypeOK, Promised, Underway, P!InFlight, P!windowKey
  <2>3. Cardinality(Promised(w)') <= Cardinality(Promised(w))
    BY <2>2, ChecksFinite, FS_Subset
  <2> QED
    BY <1>1, <1>2, <2>1, <2>2, <2>3, ChecksFinite DEF WindowInv
<1> QED
  BY <1>1, <1>3, <1>4 DEF ProjectInv

\* A check that fails is passed on and counted as an error.
LEMMA FailOpenKeeps == ASSUME ProjectInv, NEW c \in Client, P!FailOpen(c) PROVE ProjectInv'
<1>1. /\ P!InFlight(c) /\ P!Return(c) /\ UNCHANGED <<pClock, pCounter>>
      /\ pExpireAt' \in {pExpireAt, P!Renewed(c)}
      /\ pGranted' = [pGranted EXCEPT ![P!windowKey(c)] = @ + 1]
      /\ pErrors' = [pErrors EXCEPT ![P!windowKey(c)] = @ + 1]
  BY DEF P!FailOpen
<1>2. /\ pExpireAt' \in [P!WindowKey -> Nat]
      /\ \A w \in P!WindowKey : pExpireAt'[w] # 0 => pExpireAt'[w] > WindowEnd(w)
  BY <1>1, RenewedKeeps
<1>3. P!windowKey(c) \in P!WindowKey
  BY WindowOfCheck DEF ProjectInv
<1>4. pGranted' \in [P!WindowKey -> Nat] /\ pErrors' \in [P!WindowKey -> Nat]
  BY <1>1, <1>3 DEF ProjectInv, P!TypeOK
<1>5. P!TypeOK'
  BY <1>1, <1>2, <1>4, ReturnLeaves DEF ProjectInv, P!TypeOK
<1>6. ASSUME NEW w \in P!WindowKey PROVE WindowInv(w)'
  <2>1. WindowInv(w) /\ pGranted[w] \in Nat /\ pErrors[w] \in Nat /\ pCounter[w] \in Nat
        /\ Burst \in Nat
    BY WindowNumbers DEF ProjectInv
  <2>2. /\ Cardinality(Promised(w)') <= Cardinality(Promised(w))
        /\ Cardinality(Underway(w)') <= Cardinality(Underway(w))
    BY <1>1, ReturnLeaves, ChecksFinite, FS_Subset
  <2>3. CASE w # P!windowKey(c)
    <3>1. pGranted'[w] = pGranted[w] /\ pErrors'[w] = pErrors[w]
      BY <1>1, <2>3 DEF ProjectInv, P!TypeOK
    <3> QED
      BY <1>1, <1>2, <2>1, <2>2, <3>1, ChecksFinite DEF WindowInv
  <2>4. CASE w = P!windowKey(c)
    <3>1. pGranted'[w] = pGranted[w] + 1 /\ pErrors'[w] = pErrors[w] + 1
      BY <1>1, <2>4 DEF ProjectInv, P!TypeOK
    <3> QED
      BY <1>1, <1>2, <2>1, <2>2, <3>1, ChecksFinite DEF WindowInv
  <2> QED
    BY <2>3, <2>4
<1> QED
  BY <1>1, <1>5, <1>6 DEF ProjectInv

\* A key Redis deletes is of a window that is over.
LEMMA ProjectTickKeeps == ASSUME ProjectInv, P!Tick PROVE ProjectInv'
<1>0. MaxTime \in Nat /\ pClock \in Nat
  BY LimitersAssumption DEF ProjectInv, P!TypeOK
<1>1. pClock' = pClock + 1 /\ pClock' \in 0 .. MaxTime /\ 0 .. pClock \subseteq 0 .. pClock'
  BY <1>0 DEF ProjectInv, P!TypeOK, P!Tick
<1>2. P!TypeOK'
  BY <1>1 DEF ProjectInv, P!TypeOK, P!Tick
<1>3. ASSUME NEW w \in P!WindowKey PROVE WindowInv(w)'
  <2>1. WindowInv(w) /\ pExpireAt[w] \in Nat /\ WindowEnd(w) \in Nat
    BY WindowNumbers, WindowEndNat DEF ProjectInv
  <2>2. Promised(w)' = Promised(w) /\ Underway(w)' = Underway(w)
    BY DEF P!Tick, Promised, Underway, P!InFlight, P!windowKey
  <2>3. pClock' < WindowEnd(w) => pCounter'[w] = pCounter[w] /\ pClock < WindowEnd(w)
    BY <1>0, <1>1, <2>1 DEF P!Tick, P!Expired, WindowInv
  <2>4. pExpireAt'[w] # 0 => pExpireAt'[w] = pExpireAt[w]
    BY DEF P!Tick
  <2>5. pGranted' = pGranted /\ pErrors' = pErrors
    BY DEF P!Tick
  <2> QED
    BY <2>1, <2>2, <2>3, <2>4, <2>5 DEF WindowInv
<1> QED
  BY <1>2, <1>3 DEF ProjectInv

\* Every step of a check, and the clock.
LEMMA ProjectStepKeeps == ProjectInv /\ [P!Next]_pVars => ProjectInv'
<1> SUFFICES ASSUME ProjectInv, [P!Next]_pVars PROVE ProjectInv'
  OBVIOUS
<1>1. CASE P!Next
  BY <1>1, CheckLimitKeeps, IncrKeeps, ExpireKeeps, ResendKeeps, FailOpenKeeps,
     ProjectTickKeeps DEF P!Next
<1>2. CASE UNCHANGED pVars
  BY <1>2 DEF pVars, ProjectInv, WindowInv, P!TypeOK, P!InFlight, Promised, Underway,
              P!windowKey
<1> QED
  BY <1>1, <1>2

\* The instance counts as the module FiniteSets does.
LEMMA SameProjectCount == P!Cardinality(Client) = Cardinality(Client)
BY DEF P!Cardinality, Cardinality, P!IsFiniteSet, IsFiniteSet

\* For every number of gateways, burst and window, and however long a check takes and
\* however often its pipeline is sent, checkLimit passes on at most the burst of a window,
\* one request for each caller, and what errors of Redis let pass.
THEOREM ProjectBurstIsBounded == P!Spec => []BurstPerWindow
<1>1. ProjectInv => BurstPerWindow
  <2> SUFFICES ASSUME ProjectInv, NEW w \in P!WindowKey
               PROVE  pGranted[w] <= Burst + Cardinality(Client) + pErrors[w]
    BY SameProjectCount DEF BurstPerWindow, P!BurstPerWindow
  <2> QED
    BY ChecksFinite, WindowNumbers DEF ProjectInv, WindowInv
<1> QED
  BY <1>1, ProjectInit, ProjectStepKeeps, PTL DEF P!Spec, P!vars, pVars

-----------------------------------------------------------------------------
(* LocalRateLimit.  A call let through moves the cell by at least one, also  *)
(* beyond an instant a when the call read the clock at a or later; the calls *)
(* that read it earlier are callers.                                         *)

\* Calls that read the clock before instant a and have yet to decide.
Early(a) == {c \in Client : lAt[c] = "deciding" /\ lNow[c] < a}

\* How far the cell is beyond instant a.
Ahead(a) == IF lCell > a THEN lCell - a ELSE 0

LocalTypes ==
    /\ lClock \in 0 .. MaxTime
    /\ lCell \in Nat
    /\ lAt \in [Client -> {"idle", "deciding"}]
    /\ lNow \in [Client -> 0 .. lClock]
    /\ lTotal \in [0 .. MaxTime -> Nat]

LocalInv ==
    /\ LocalTypes
    /\ lCell <= lClock + Quota
    /\ \A a \in 0 .. lClock :
          lTotal[lClock] + Cardinality(Early(a))
              <= L!Before(a) + Ahead(a) + Cardinality(Client)
    /\ \A a \in 0 .. lClock : \A b \in a .. lClock :
          lTotal[b] <= L!Before(a) + Quota + (b - a) + Cardinality(Client)

\* The constants, the clock and the sets have the numbers they need.
LEMMA LocalNumbers ==
    ASSUME LocalTypes, NEW a \in Nat
    PROVE  /\ lClock \in Nat /\ MaxTime \in Nat /\ Quota \in Nat /\ Quota >= 1
           /\ Cardinality(Client) \in Nat /\ lCell \in Nat /\ Ahead(a) \in Nat
           /\ IsFiniteSet(Early(a)) /\ Cardinality(Early(a)) \in Nat
           /\ Cardinality(Early(a)) <= Cardinality(Client)
           /\ IsFiniteSet(Early(a)') /\ Cardinality(Early(a)') \in Nat
           /\ Cardinality(Early(a)') <= Cardinality(Client)
           /\ a <= lClock => L!Before(a) \in Nat /\ lTotal[a] \in Nat
<1>1. Early(a) \subseteq Client /\ Early(a)' \subseteq Client
  BY DEF Early
<1>2. lClock \in Nat /\ MaxTime \in Nat /\ Quota \in Nat /\ Quota >= 1 /\ lClock <= MaxTime
  BY LimitersAssumption DEF LocalTypes
<1>3. a <= lClock => L!Before(a) \in Nat /\ lTotal[a] \in Nat
  BY <1>2 DEF LocalTypes, L!Before
<1>4. lCell \in Nat /\ Ahead(a) \in Nat
  BY DEF LocalTypes, Ahead
<1> QED
  BY <1>1, <1>2, <1>3, <1>4, LimitersAssumption, FS_Subset, FS_CardinalityType

\* At the start the cell is not ahead and nobody was let through.
LEMMA LocalInit == L!Init => LocalInv
<1> SUFFICES ASSUME L!Init PROVE LocalInv
  OBVIOUS
<1>1. LocalTypes
  BY LimitersAssumption DEF L!Init, LocalTypes
<1>2. lClock = 0 /\ lTotal[0] = 0 /\ lCell = 0 /\ L!Before(0) = 0
  BY LimitersAssumption DEF L!Init, L!Before
<1>3. /\ Cardinality(Client) \in Nat /\ Quota \in Nat /\ Ahead(0) \in Nat
      /\ Cardinality(Early(0)) \in Nat /\ Cardinality(Early(0)) <= Cardinality(Client)
  BY <1>1, LocalNumbers
<1>4. 0 .. 0 = {0}
  OBVIOUS
<1> QED
  BY <1>1, <1>2, <1>3, <1>4 DEF LocalInv

\* A step that neither lets a call through nor makes one early.
LEMMA LocalShrinks ==
    ASSUME LocalInv, LocalTypes', UNCHANGED <<lClock, lCell, lTotal>>,
           \A a \in 0 .. lClock : Early(a)' \subseteq Early(a)
    PROVE  LocalInv'
<1>1. ASSUME NEW a \in 0 .. lClock
      PROVE  lTotal[lClock] + Cardinality(Early(a)')
                 <= L!Before(a) + Ahead(a) + Cardinality(Client)
  <2>1. a \in Nat /\ a <= lClock /\ lClock \in Nat /\ lTotal[lClock] \in Nat
    BY LocalNumbers DEF LocalInv, LocalTypes
  <2>2. Cardinality(Early(a)') <= Cardinality(Early(a))
    BY <2>1, LocalNumbers, FS_Subset DEF LocalInv
  <2> QED
    BY <2>1, <2>2, LocalNumbers DEF LocalInv
<1> QED
  BY <1>1 DEF LocalInv, L!Before, Ahead

\* The larger of two numbers, which the instance takes from FiniteSetsExt.
LEMMA MaxOfTwo == ASSUME NEW i \in Nat, NEW j \in Nat
                  PROVE  L!Max({i, j}) = IF i >= j THEN i ELSE j
BY DEF L!Max

\* A call let through moves the cell.
LEMMA AllowKeeps == ASSUME LocalInv, NEW c \in Client, L!Allow(c) PROVE LocalInv'
<1>0. /\ lClock \in Nat /\ MaxTime \in Nat /\ lClock <= MaxTime
      /\ Quota \in Nat /\ Quota >= 1 /\ Cardinality(Client) \in Nat
  BY LocalNumbers DEF LocalInv, LocalTypes
<1>1. PICK cell \in Nat : cell = lCell
  BY DEF LocalInv, LocalTypes
<1>2. PICK n \in Nat : n = lNow[c] /\ n <= lClock
  BY <1>0 DEF LocalInv, LocalTypes
<1>3. PICK m \in Nat : m = L!Max({cell, n}) + 1 /\ m = (IF cell >= n THEN cell ELSE n) + 1
  BY MaxOfTwo
<1>4. lCell' = m /\ cell <= n + Quota - 1
  BY <1>1, <1>2, <1>3 DEF L!Allow, L!Passes, L!WithinQuota, LocalInv, LocalTypes
<1>5. lTotal' = [lTotal EXCEPT ![lClock] = lTotal[lClock] + 1] /\ lClock' = lClock
  BY DEF L!Allow, LocalInv, LocalTypes
<1>6. LocalTypes'
  <2>1. lCell' \in Nat
    BY <1>4 DEF LocalInv, LocalTypes
  <2>2. lTotal[lClock] + 1 \in Nat
    BY <1>0 DEF LocalInv, LocalTypes
  <2>3. lTotal' \in [0 .. MaxTime -> Nat]
    BY <1>5, <2>2 DEF LocalInv, LocalTypes
  <2>4. lAt' \in [Client -> {"idle", "deciding"}] /\ lNow' = lNow
    BY DEF L!Allow, LocalInv, LocalTypes
  <2> QED
    BY <1>5, <2>1, <2>3, <2>4 DEF LocalInv, LocalTypes
<1>7. lCell' <= lClock' + Quota
  BY <1>0, <1>1, <1>2, <1>3, <1>4, <1>5 DEF LocalInv
<1>8. ASSUME NEW a \in 0 .. lClock
      PROVE  /\ L!Before(a)' = L!Before(a)
             /\ lTotal'[lClock] + Cardinality(Early(a)')
                  <= L!Before(a) + Ahead(a)' + Cardinality(Client)
  <2>1. a \in Nat /\ a <= lClock
    BY <1>0
  <2>2. L!Before(a)' = L!Before(a)
    BY <1>0, <1>5, <2>1 DEF L!Before, LocalInv, LocalTypes
  <2>3. lTotal'[lClock] = lTotal[lClock] + 1 /\ lTotal[lClock] \in Nat
    BY <1>0, <1>5 DEF LocalInv, LocalTypes
  <2>4. lTotal[lClock] + Cardinality(Early(a)) <= L!Before(a) + Ahead(a) + Cardinality(Client)
    BY DEF LocalInv
  <2>5. /\ L!Before(a) \in Nat /\ Ahead(a) \in Nat /\ Cardinality(Early(a)) \in Nat
        /\ IsFiniteSet(Early(a)) /\ Cardinality(Early(a)') \in Nat
    BY <2>1, LocalNumbers DEF LocalInv
  <2>6. CASE n < a
    <3>1. c \in Early(a) /\ Early(a)' = Early(a) \ {c}
      BY <1>2, <2>6 DEF L!Allow, LocalInv, LocalTypes, Early
    <3>2. Cardinality(Early(a)') = Cardinality(Early(a)) - 1
      BY <3>1, <2>5, FS_RemoveElement
    <3>3. Ahead(a)' \in Nat /\ Ahead(a)' >= Ahead(a)
      BY <1>1, <1>3, <1>4, <2>1 DEF Ahead
    <3> QED
      BY <1>0, <2>2, <2>3, <2>4, <2>5, <3>2, <3>3
  <2>7. CASE ~(n < a)
    <3>1. Early(a)' = Early(a)
      BY <1>2, <2>7 DEF L!Allow, LocalInv, LocalTypes, Early
    <3>2. Ahead(a)' \in Nat /\ Ahead(a)' >= Ahead(a) + 1
      <4>1. m >= cell + 1 /\ m >= a + 1
        BY <1>2, <1>3, <2>1, <2>7
      <4>2. Ahead(a)' = m - a
        BY <1>4, <2>1, <4>1 DEF Ahead
      <4> QED
        BY <1>1, <2>1, <4>1, <4>2 DEF Ahead
    <3> QED
      BY <1>0, <2>2, <2>3, <2>4, <2>5, <3>1, <3>2
  <2> QED
    BY <2>6, <2>7
<1>9. ASSUME NEW a \in 0 .. lClock, NEW b \in a .. lClock
      PROVE  lTotal'[b] <= L!Before(a) + Quota + (b - a) + Cardinality(Client)
  <2>1. a \in Nat /\ b \in Nat /\ a <= lClock /\ b <= lClock /\ a <= b
    BY <1>0
  <2>2. CASE b # lClock
    BY <1>0, <1>5, <2>1, <2>2 DEF LocalInv, LocalTypes
  <2>3. CASE b = lClock
    <3>1. lTotal'[b] + Cardinality(Early(a)') <= L!Before(a) + Ahead(a)' + Cardinality(Client)
      BY <1>8, <2>3
    <3>2. Ahead(a)' \in Nat /\ Ahead(a)' <= Quota + (lClock - a)
      BY <1>0, <1>4, <1>5, <1>7, <2>1 DEF Ahead
    <3>3. lTotal'[b] \in Nat /\ Cardinality(Early(a)') \in Nat /\ L!Before(a) \in Nat
      <4>1. LocalTypes
        BY DEF LocalInv
      <4>2. b \in 0 .. MaxTime
        BY <1>0, <2>1
      <4> QED
        BY <1>6, <2>1, <4>1, <4>2, LocalNumbers DEF LocalTypes
    <3> QED
      BY <1>0, <2>1, <2>3, <3>1, <3>2, <3>3
  <2> QED
    BY <2>2, <2>3
<1> QED
  BY <1>5, <1>6, <1>7, <1>8, <1>9 DEF LocalInv

\* A new instant begins with nobody let through in it.
LEMMA LocalTickKeeps == ASSUME LocalInv, L!Tick PROVE LocalInv'
<1>0. /\ lClock \in Nat /\ MaxTime \in Nat /\ lClock + 1 <= MaxTime /\ lClock' = lClock + 1
      /\ Quota \in Nat /\ Cardinality(Client) \in Nat /\ lTotal[lClock] \in Nat
  <2>1. LocalTypes /\ lClock < MaxTime /\ lClock' = lClock + 1
    BY DEF LocalInv, L!Tick
  <2>2. lClock \in Nat
    BY <2>1 DEF LocalTypes
  <2> QED
    BY <2>1, <2>2, LocalNumbers
<1>1. lTotal' = [lTotal EXCEPT ![lClock + 1] = lTotal[lClock]]
  BY DEF L!Tick
<1>2. LocalTypes'
  <2>1. lClock' \in 0 .. MaxTime /\ 0 .. lClock \subseteq 0 .. lClock'
    BY <1>0
  <2> QED
    BY <1>0, <1>1, <2>1 DEF L!Tick, LocalInv, LocalTypes
<1>3. lCell' <= lClock' + Quota
  BY <1>0 DEF L!Tick, LocalInv, LocalTypes
<1>4. /\ lTotal'[lClock'] = lTotal[lClock]
      /\ \A a \in 0 .. lClock : lTotal'[a] = lTotal[a] /\ L!Before(a)' = L!Before(a)
      /\ \A a : a = lClock + 1 => L!Before(a)' = lTotal[lClock]
  BY <1>0, <1>1 DEF L!Before, LocalInv, LocalTypes
<1>5. \A a : Ahead(a)' = Ahead(a) /\ Early(a)' = Early(a)
  BY DEF L!Tick, Ahead, Early
<1>6. ASSUME NEW a \in 0 .. lClock'
      PROVE  lTotal'[lClock'] + Cardinality(Early(a)')
                 <= L!Before(a)' + Ahead(a)' + Cardinality(Client)
  <2>1. CASE a \in 0 .. lClock
    BY <1>4, <1>5, <2>1 DEF LocalInv
  <2>2. CASE a = lClock'
    <3>1. Cardinality(Early(a)) \in Nat /\ Cardinality(Early(a)) <= Cardinality(Client) /\ Ahead(a) \in Nat
      BY <1>0, LocalNumbers DEF LocalInv
    <3> QED
      BY <1>0, <1>4, <1>5, <2>2, <3>1
  <2> QED
    BY <1>0, <2>1, <2>2
<1>7. ASSUME NEW a \in 0 .. lClock', NEW b \in a .. lClock'
      PROVE  lTotal'[b] <= L!Before(a)' + Quota + (b - a) + Cardinality(Client)
  <2>1. CASE b \in a .. lClock
    <3>1. a \in 0 .. lClock /\ b \in 0 .. lClock
      BY <1>0, <2>1
    <3> QED
      BY <1>4, <2>1, <3>1 DEF LocalInv
  <2>2. CASE b = lClock' /\ a \in 0 .. lClock
    <3>1. lClock \in a .. lClock /\ a \in Nat /\ a <= lClock /\ L!Before(a) \in Nat
      BY <1>0, <2>2, LocalNumbers DEF LocalInv
    <3>2. lTotal[lClock] <= L!Before(a) + Quota + (lClock - a) + Cardinality(Client)
      BY <2>2, <3>1 DEF LocalInv
    <3> QED
      BY <1>0, <1>4, <2>2, <3>1, <3>2
  <2>3. CASE b = lClock' /\ a = lClock'
    BY <1>0, <1>4, <2>3
  <2> QED
    BY <1>0, <2>1, <2>2, <2>3
<1> QED
  BY <1>2, <1>3, <1>6, <1>7 DEF LocalInv

\* Every step of a call, and the clock.
LEMMA LocalStepKeeps == LocalInv /\ [L!Next]_lVars => LocalInv'
<1> SUFFICES ASSUME LocalInv, [L!Next]_lVars PROVE LocalInv'
  OBVIOUS
<1>1. ASSUME NEW c \in Client, L!ReadClock(c) PROVE LocalInv'
  <2>0. lClock \in Nat
    BY LocalNumbers DEF LocalInv
  <2>1. LocalTypes'
    BY <1>1, <2>0 DEF L!ReadClock, LocalInv, LocalTypes
  <2>2. \A a \in 0 .. lClock : Early(a)' \subseteq Early(a)
    BY <1>1, <2>0 DEF L!ReadClock, LocalInv, LocalTypes, Early
  <2> QED
    BY <1>1, <2>1, <2>2, LocalShrinks DEF L!ReadClock
<1>2. ASSUME NEW c \in Client, L!Deny(c) PROVE LocalInv'
  <2>1. LocalTypes'
    BY <1>2 DEF L!Deny, LocalInv, LocalTypes
  <2>2. \A a \in 0 .. lClock : Early(a)' \subseteq Early(a)
    BY <1>2 DEF L!Deny, LocalInv, LocalTypes, Early
  <2> QED
    BY <1>2, <2>1, <2>2, LocalShrinks DEF L!Deny
<1>3. CASE UNCHANGED lVars
  BY <1>3 DEF lVars, LocalInv, LocalTypes, Early, Ahead, L!Before
<1> QED
  BY <1>1, <1>2, <1>3, AllowKeeps, LocalTickKeeps DEF L!Next

\* The instance counts as the module FiniteSets does.
LEMMA SameLocalCount == L!Cardinality(Client) = Cardinality(Client)
BY DEF L!Cardinality, Cardinality, L!IsFiniteSet, IsFiniteSet

\* For every quota and number of calls at once, one limiter lets through in any
\* stretch of time at most its quota, what that replenished, and one for each caller.
THEOREM LocalBurstIsBounded == L!Spec => []LocalBurst
<1>1. LocalInv => LocalBurst
  BY SameLocalCount DEF LocalInv, LocalBurst, L!LocalBurst
<1> QED
  BY <1>1, LocalInit, LocalStepKeeps, PTL DEF L!Spec, L!vars, lVars
=============================================================================
