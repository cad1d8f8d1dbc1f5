---------------------------- MODULE CircuitBreaker ----------------------------
(***************************************************************************)
(* One CircuitBreaker of rust-gateway/src/circuit_breaker.rs, shared by     *)
(* concurrent callers behind its RwLock.  allow, record_success and         *)
(* record_failure each run under the write lock and are atomic; between a   *)
(* caller's allow and its record_* the other callers act, so a result may   *)
(* be recorded in a state of the breaker that did not admit the call.       *)
(*                                                                          *)
(* The outcome of a call is fixed by the upstream when the call starts and  *)
(* is recorded later, or never: the future of a call may be dropped.        *)
(* last_failure is kept as its age, counted up to the first value greater   *)
(* than the recovery timeout.                                               *)
(***************************************************************************)
EXTENDS Integers

CONSTANTS Caller,
          Threshold,    \* failure_threshold
          MaxCalls,     \* half_open_max_calls
          Recovery,     \* recovery_timeout_ms, in ticks
          MaxFailures   \* bound of the u32 failures

ASSUME CircuitBreakerAssumption ==
    /\ Threshold \in Nat
    /\ MaxCalls \in Nat
    /\ Recovery \in Nat
    /\ MaxFailures \in Nat

VARIABLES state, failures, success_count,
          age,       \* last_failure.elapsed(), or Never
          call,      \* per caller: no call, or the outcome of the one in flight
          upstream   \* whether calls that start now will succeed

vars == <<state, failures, success_count, age, call, upstream>>

CircuitState == {"Closed", "Open", "HalfOpen"}
Never == -1

Init ==
    /\ state = "Closed"
    /\ failures = 0
    /\ success_count = 0
    /\ age = Never
    /\ call = [c \in Caller |-> "none"]
    /\ upstream = "up"

-----------------------------------------------------------------------------
\* The call starts; its outcome is the upstream's present condition.
StartCall(c) ==
    call' = [call EXCEPT ![c] = IF upstream = "up" THEN "success" ELSE "failure"]

\* allow() while Closed.
AllowClosed(c) ==
    /\ call[c] = "none"
    /\ state = "Closed"
    /\ StartCall(c)
    /\ UNCHANGED <<state, failures, success_count, age, upstream>>

\* What entering half-open resets (and its mutant, which also forgets the failures
\* that opened the breaker).
EnterHalfOpenForgetful ==
    state' = "HalfOpen" /\ success_count' = 0 /\ failures' = 0
EnterHalfOpen ==
    state' = "HalfOpen" /\ success_count' = 0 /\ UNCHANGED failures

\* allow() while Open, after the recovery timeout: this call is the first probe.
\* Before that, and while last_failure is None, allow() denies and changes nothing.
AllowProbe(c) ==
    /\ call[c] = "none"
    /\ state = "Open"
    /\ age > Recovery
    /\ EnterHalfOpen
    /\ StartCall(c)
    /\ UNCHANGED <<age, upstream>>

\* allow() while HalfOpen.
AllowHalfOpen(c) ==
    /\ call[c] = "none"
    /\ state = "HalfOpen"
    /\ success_count < MaxCalls
    /\ StartCall(c)
    /\ UNCHANGED <<state, failures, success_count, age, upstream>>

\* This success is the last one half-open needs (mutant: one too many is asked for).
ProbesDoneLate == success_count + 1 > MaxCalls
ProbesDone     == success_count + 1 >= MaxCalls

\* Closing clears both counts (mutant: the failures are kept).
CloseKeepingFailures == state' = "Closed" /\ success_count' = 0 /\ UNCHANGED failures
Close                == state' = "Closed" /\ success_count' = 0 /\ failures' = 0

\* failures.saturating_sub(1) (mutant: plain subtraction).
OneFailureLessUnsaturated == failures - 1
OneFailureLess            == IF failures > 0 THEN failures - 1 ELSE 0

\* record_success(): by state.  A success that arrives while Open is ignored; one
\* that arrives while HalfOpen counts as a probe whoever admitted its call.
RecordSuccess(c) ==
    /\ call[c] = "success"
    /\ call' = [call EXCEPT ![c] = "none"]
    /\ \/ state = "HalfOpen" /\ ProbesDone /\ Close
       \/ /\ state = "HalfOpen" /\ ~ProbesDone
          /\ success_count' = success_count + 1
          /\ UNCHANGED <<state, failures>>
       \/ /\ state = "Closed"
          /\ failures' = OneFailureLess
          /\ UNCHANGED <<state, success_count>>
       \/ state = "Open" /\ UNCHANGED <<state, failures, success_count>>
    /\ UNCHANGED <<age, upstream>>

\* last_failure = Some(Instant::now()) (mutant: forgotten).
StampFailureForgotten == UNCHANGED age
StampFailure          == age' = 0

\* record_failure(): whatever the state.
RecordFailure(c) ==
    /\ call[c] = "failure"
    /\ failures < MaxFailures
    /\ call' = [call EXCEPT ![c] = "none"]
    /\ failures' = failures + 1
    /\ StampFailure
    /\ state' = IF failures + 1 >= Threshold THEN "Open" ELSE state
    /\ UNCHANGED <<success_count, upstream>>

\* The caller goes away between allow() and record_*().
Abandon(c) ==
    /\ call[c] # "none"
    /\ call' = [call EXCEPT ![c] = "none"]
    /\ UNCHANGED <<state, failures, success_count, age, upstream>>

Tick ==
    /\ age # Never
    /\ age <= Recovery
    /\ age' = age + 1
    /\ UNCHANGED <<state, failures, success_count, call, upstream>>

UpstreamChanges ==
    /\ upstream' = IF upstream = "up" THEN "down" ELSE "up"
    /\ UNCHANGED <<state, failures, success_count, age, call>>

Allow(c) == AllowClosed(c) \/ AllowProbe(c) \/ AllowHalfOpen(c)

Next ==
    \/ \E c \in Caller : AllowClosed(c) \/ AllowProbe(c) \/ AllowHalfOpen(c)
    \/ \E c \in Caller : RecordSuccess(c) \/ RecordFailure(c) \/ Abandon(c)
    \/ Tick \/ UpstreamChanges

Spec == Init /\ [][Next]_vars

\* Callers keep asking, time passes, every call ends (the HTTP client has a timeout)
\* and not every successful call is abandoned.
FairSpec ==
    /\ Spec
    /\ WF_vars(Tick)
    /\ \A c \in Caller : /\ WF_vars(Allow(c))
                         /\ SF_vars(RecordSuccess(c))
                         /\ WF_vars(RecordFailure(c) \/ Abandon(c))

-----------------------------------------------------------------------------
\* Every variable has its type.
TypeOK ==
    /\ state \in CircuitState
    /\ failures \in 0 .. MaxFailures
    /\ success_count \in Nat
    /\ age \in Never .. (Recovery + 1)
    /\ call \in [Caller -> {"none", "success", "failure"}]
    /\ upstream \in {"up", "down"}

\* The breaker admits freely exactly while fewer than failure_threshold failures are
\* on its account, in every interleaving of allow with late results: half-open keeps
\* the account, closing clears it.  (A threshold of 0 opens at the first failure.)
ClosedIffBelowThreshold ==
    Threshold > 0 => (state = "Closed" <=> failures < Threshold)

\* A half-open breaker never runs out of probes it may admit: success_count cannot
\* stay at half_open_max_calls, so allow() in HalfOpen denies only if that is 0.
HalfOpenAdmits ==
    MaxCalls > 0 => (state = "HalfOpen" => success_count < MaxCalls)

\* One failure recorded in half-open, even of a call admitted long before, opens
\* the breaker again; and an open breaker never closes without passing half-open.
ProbeFailureReopens ==
    [][/\ state = "HalfOpen" /\ failures' > failures => state' = "Open"
       /\ state = "Open" => state' # "Closed"]_vars

\* Once the upstream stays up, the breaker closes and stays closed, whatever stale
\* results and abandoned probes there were.
RecoversWithUpstream == <>[](upstream = "up") => <>[](state = "Closed")
=============================================================================
