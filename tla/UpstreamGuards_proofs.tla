------------------------ MODULE UpstreamGuards_proofs ------------------------
(***************************************************************************)
(* Proofs about what the gateway knows of its upstreams: the breaker, for   *)
(* any callers, threshold, number of probes and recovery time; the registry *)
(* that hands breakers out, for any callers and keys; the health checker,   *)
(* for any upstreams.                                                       *)
(***************************************************************************)
EXTENDS MCGuards, TLAPS

-----------------------------------------------------------------------------
(* CircuitBreaker.  The state properties are one inductive invariant: each   *)
(* alone is not preserved, because what a late success does depends on       *)
(* success_count and what a late failure does on failures.                   *)

\* A breaker that is not closed knows when it last failed.
HasFailureTime == state # "Closed" => age # Never

BreakerInv ==
    /\ TypeOK
    /\ ClosedIffBelowThreshold
    /\ HalfOpenAdmits
    /\ HasFailureTime
    \* What ClosedIffBelowThreshold leaves open when failure_threshold is 0.
    /\ state # "Closed" => failures >= Threshold

\* The initial state satisfies the invariant: closed, nothing on account.
LEMMA InitBreaker == Init => BreakerInv
BY CircuitBreakerAssumption
DEF Init, BreakerInv, TypeOK, ClosedIffBelowThreshold, HalfOpenAdmits, HasFailureTime,
    CircuitState, Never

\* Every step preserves the invariant; one case per action.
LEMMA StepBreaker == BreakerInv /\ [Next]_vars => BreakerInv'
<1> SUFFICES ASSUME BreakerInv, [Next]_vars PROVE BreakerInv'
  OBVIOUS
<1> USE CircuitBreakerAssumption
    DEF BreakerInv, TypeOK, ClosedIffBelowThreshold, HalfOpenAdmits, HasFailureTime,
        CircuitState, Never
<1>1. ASSUME NEW c \in Caller, AllowClosed(c) PROVE BreakerInv'
  BY <1>1 DEF AllowClosed, StartCall
<1>2. ASSUME NEW c \in Caller, AllowProbe(c) PROVE BreakerInv'
  BY <1>2 DEF AllowProbe, EnterHalfOpen, StartCall
<1>3. ASSUME NEW c \in Caller, AllowHalfOpen(c) PROVE BreakerInv'
  BY <1>3 DEF AllowHalfOpen, StartCall
<1>4. ASSUME NEW c \in Caller, RecordSuccess(c) PROVE BreakerInv'
  <2>0. call' \in [Caller -> {"none", "success", "failure"}]
    BY <1>4 DEF RecordSuccess
  <2>1. CASE state = "HalfOpen" /\ ProbesDone /\ Close
    BY <1>4, <2>0, <2>1 DEF RecordSuccess, Close
  <2>2. CASE state = "HalfOpen" /\ ~ProbesDone /\ success_count' = success_count + 1
             /\ UNCHANGED <<state, failures>>
    BY <1>4, <2>0, <2>2 DEF RecordSuccess, ProbesDone
  <2>3. CASE state = "Closed" /\ failures' = OneFailureLess /\ UNCHANGED <<state, success_count>>
    BY <1>4, <2>0, <2>3 DEF RecordSuccess, OneFailureLess
  <2>4. CASE state = "Open" /\ UNCHANGED <<state, failures, success_count>>
    BY <1>4, <2>0, <2>4 DEF RecordSuccess
  <2>5. QED
    BY <1>4, <2>1, <2>2, <2>3, <2>4 DEF RecordSuccess
<1>5. ASSUME NEW c \in Caller, RecordFailure(c) PROVE BreakerInv'
  BY <1>5 DEF RecordFailure, StampFailure
<1>6. ASSUME NEW c \in Caller, Abandon(c) PROVE BreakerInv'
  BY <1>6 DEF Abandon
<1>7. CASE Tick \/ UpstreamChanges \/ UNCHANGED vars
  BY <1>7 DEF Tick, UpstreamChanges, vars
<1>8. QED
  BY <1>1, <1>2, <1>3, <1>4, <1>5, <1>6, <1>7 DEF Next

\* The inductive invariant, and with it the type of every variable, holds always.
LEMMA BreakerInvariant == Spec => []BreakerInv
BY InitBreaker, StepBreaker, PTL DEF Spec

\* Closed exactly while below the threshold, for every threshold above 0.
THEOREM ClosedIffBelow == Spec => []ClosedIffBelowThreshold
<1>1. BreakerInv => ClosedIffBelowThreshold
  BY DEF BreakerInv
<1>2. QED
  BY <1>1, BreakerInvariant, PTL

\* Half-open always admits a further probe, for every half_open_max_calls above 0.
THEOREM HalfOpenAlwaysAdmits == Spec => []HalfOpenAdmits
<1>1. BreakerInv => HalfOpenAdmits
  BY DEF BreakerInv
<1>2. QED
  BY <1>1, BreakerInvariant, PTL

\* No step leaves half-open by a failure other than to Open, and none goes from Open
\* to Closed; this needs the failures kept across Open -> HalfOpen.
THEOREM ProbeFailureAlwaysReopens == Spec => ProbeFailureReopens
<1> DEFINE A == /\ state = "HalfOpen" /\ failures' > failures => state' = "Open"
                /\ state = "Open" => state' # "Closed"
<1>1. BreakerInv /\ [Next]_vars => [A]_vars
  <2> SUFFICES ASSUME BreakerInv, Next PROVE A
    OBVIOUS
  <2> USE CircuitBreakerAssumption DEF BreakerInv, TypeOK, CircuitState
  <2>1. ASSUME NEW c \in Caller, AllowClosed(c) \/ AllowProbe(c) \/ AllowHalfOpen(c) PROVE A
    BY <2>1 DEF AllowClosed, AllowProbe, EnterHalfOpen, AllowHalfOpen
  <2>2. ASSUME NEW c \in Caller, RecordSuccess(c) PROVE A
    <3>1. failures' <= failures
      BY <2>2 DEF RecordSuccess, Close, OneFailureLess
    <3>2. state = "Open" => state' = "Open"
      BY <2>2 DEF RecordSuccess, Close, OneFailureLess
    <3>3. failures' \in Int
      BY <2>2 DEF RecordSuccess, Close, OneFailureLess
    <3>4. QED
      BY <3>1, <3>2, <3>3
  <2>3. ASSUME NEW c \in Caller, RecordFailure(c) \/ Abandon(c) PROVE A
    BY <2>3 DEF RecordFailure, StampFailure, Abandon
  <2>4. CASE Tick \/ UpstreamChanges
    BY <2>4 DEF Tick, UpstreamChanges
  <2>5. QED
    BY <2>1, <2>2, <2>3, <2>4 DEF Next
<1>2. QED
  BY <1>1, BreakerInvariant, PTL DEF Spec, ProbeFailureReopens

\* Every variable of the breaker has its type: the saturating subtraction keeps the
\* unsigned count of failures at zero or above.
THEOREM BreakerTypes == Spec => []TypeOK
<1>1. BreakerInv => TypeOK
  BY DEF BreakerInv
<1> QED
  BY <1>1, BreakerInvariant, PTL

-----------------------------------------------------------------------------
(* BreakerRegistry.  That a caller holds the registered breaker is inductive *)
(* once it is known that nobody holds None: an insertion fills an entry that *)
(* was None, so no caller had a breaker of that key.                         *)

RegistryInv ==
    /\ rBreakers \in [Key -> Nat]
    /\ rCreated \in Nat
    /\ rCaller \in [Caller -> [at : {"idle", "missed", "has"}, key : Key, got : Nat]]
    /\ \A c \in Caller : rCaller[c].at = "has" => rCaller[c].got # R!None
    /\ SharedBreaker

\* Initially every caller is idle.
LEMMA InitRegistry == R!Init => RegistryInv
BY DEF R!Init, RegistryInv, R!Idle, R!None, SharedBreaker, R!SharedBreaker

\* Every step of get_or_create keeps the invariant; insertion is the interesting one.
LEMMA StepRegistry == RegistryInv /\ [R!Next]_rVars => RegistryInv'
<1> SUFFICES ASSUME RegistryInv, [R!Next]_rVars PROVE RegistryInv'
  OBVIOUS
<1> USE DEF RegistryInv, R!None, SharedBreaker, R!SharedBreaker
<1>1. ASSUME NEW c \in Caller, R!GetHit(c) PROVE RegistryInv'
  BY <1>1 DEF R!GetHit
<1>2. ASSUME NEW c \in Caller, R!GetMiss(c) PROVE RegistryInv'
  BY <1>2 DEF R!GetMiss
<1>3. ASSUME NEW c \in Caller, R!InsertNew(c) PROVE RegistryInv'
  <2> DEFINE k == rCaller[c].key
             b == rCreated + 1
  <2>1. /\ k \in Key /\ rBreakers[k] = 0 /\ b \in Nat /\ b # 0
        /\ rBreakers' = [rBreakers EXCEPT ![k] = b] /\ rCreated' = b
        /\ rCaller' = [rCaller EXCEPT ![c].at = "has", ![c].got = b]
    BY <1>3 DEF R!InsertNew, R!EntryVacant
  <2>2. \A d \in Caller : rCaller[d].at = "has" => rCaller[d].key # k
    BY <2>1
  <2>3. /\ rCaller' \in [Caller -> [at : {"idle", "missed", "has"}, key : Key, got : Nat]]
        /\ rCaller'[c].at = "has" /\ rCaller'[c].key = k /\ rCaller'[c].got = b
        /\ \A d \in Caller : d # c => rCaller'[d] = rCaller[d]
    BY <2>1
  <2>4. rBreakers' \in [Key -> Nat] /\ rBreakers'[k] = b
        /\ \A l \in Key : l # k => rBreakers'[l] = rBreakers[l]
    BY <2>1
  <2>5. ASSUME NEW d \in Caller, rCaller'[d].at = "has"
        PROVE  rCaller'[d].got # 0 /\ rCaller'[d].got = rBreakers'[rCaller'[d].key]
    <3>1. CASE d = c
      BY <3>1, <2>1, <2>3, <2>4
    <3>2. CASE d # c
      BY <3>2, <2>2, <2>3, <2>4, <2>5
    <3> QED
      BY <3>1, <3>2
  <2> QED
    BY <2>1, <2>3, <2>4, <2>5
<1>4. ASSUME NEW c \in Caller, R!TakeExisting(c) PROVE RegistryInv'
  BY <1>4 DEF R!TakeExisting, R!EntryVacant
<1>5. ASSUME NEW c \in Caller, R!Again(c) PROVE RegistryInv'
  BY <1>5 DEF R!Again, R!Idle
<1>6. CASE UNCHANGED rVars
  BY <1>6 DEF rVars
<1> QED
  BY <1>1, <1>2, <1>3, <1>4, <1>5, <1>6 DEF R!Next

\* For any number of callers and keys, two callers of get_or_create with the same key
\* get the same breaker, the registered one.
THEOREM BreakersAreShared == R!Spec => []SharedBreaker
<1>1. RegistryInv => SharedBreaker
  BY DEF RegistryInv
<1> QED
  BY InitRegistry, StepRegistry, <1>1, PTL DEF R!Spec, R!vars, rVars

-----------------------------------------------------------------------------
(* HealthChecker.  healthy is decided on consecutive_failures, the property  *)
(* speaks of failed probes: both are the same number.                        *)

HealthInv ==
    /\ H!TypeOK
    /\ hMisses = hFailures
    /\ OutAfterThreeMisses

\* Initially nothing is registered and nothing failed.
LEMMA InitHealth == H!Init => HealthInv
BY GuardsAssumption, CircuitBreakerAssumption
DEF H!Init, HealthInv, H!TypeOK, OutAfterThreeMisses, H!OutAfterThreeMisses

\* insert puts a new entry in place of an old one.
LEMMA InsertKeeps ==
    ASSUME HealthInv, NEW u \in Upstream, H!Insert(u),
           hStartup' \in {"pending", "done"}, UNCHANGED <<hNames, hProbing, hUp, hWorld>>
    PROVE  HealthInv'
BY CircuitBreakerAssumption
DEF HealthInv, H!TypeOK, OutAfterThreeMisses, H!OutAfterThreeMisses, H!Insert

\* Every step keeps the invariant, a registration in the middle of a round included.
LEMMA StepHealth == HealthInv /\ [H!Next]_hVars => HealthInv'
<1> SUFFICES ASSUME HealthInv, [H!Next]_hVars PROVE HealthInv'
  OBVIOUS
<1> USE GuardsAssumption, CircuitBreakerAssumption
<1>1. CASE H!InsertDefault
  BY <1>1, InsertKeeps DEF H!InsertDefault
<1>2. ASSUME NEW u \in Upstream, H!Register(u) PROVE HealthInv'
  BY <1>2, InsertKeeps DEF H!Register, HealthInv, H!TypeOK
<1> USE DEF HealthInv, H!TypeOK, OutAfterThreeMisses, H!OutAfterThreeMisses
<1>3. CASE H!RoundStarts
  BY <1>3 DEF H!RoundStarts, H!KnownNames
<1>4. ASSUME NEW u \in Upstream, H!ProbeStarts(u) PROVE HealthInv'
  BY <1>4 DEF H!ProbeStarts
<1>5. ASSUME NEW u \in Upstream, H!ProbeSucceeds(u) PROVE HealthInv'
  BY <1>5 DEF H!ProbeSucceeds, H!Restore, H!ResetFailures
<1>6. ASSUME NEW u \in Upstream, H!ProbeFails(u) PROVE HealthInv'
  BY <1>6 DEF H!ProbeFails, H!Down, H!More
<1>7. ASSUME NEW u \in Upstream, H!GoesDown(u) \/ H!ComesUp(u) PROVE HealthInv'
  BY <1>7 DEF H!GoesDown, H!ComesUp
<1>8. CASE H!Settle \/ UNCHANGED hVars
  BY <1>8 DEF H!Settle, hVars
<1> QED
  BY <1>1, <1>2, <1>3, <1>4, <1>5, <1>6, <1>7, <1>8 DEF H!Next

\* For any set of upstreams, one is out exactly when its last three probes failed in a
\* row since it was registered, whatever is registered while a round is under way.
THEOREM OutExactlyAfterThree == H!Spec => []OutAfterThreeMisses
<1>1. HealthInv => OutAfterThreeMisses
  BY DEF HealthInv
<1> QED
  BY InitHealth, StepHealth, <1>1, PTL DEF H!Spec, H!vars, hVars
=============================================================================
