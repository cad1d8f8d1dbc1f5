--------------------------- MODULE LocalRateLimit ---------------------------
(***************************************************************************)
(* The limiter in the state of the Rust gateway: main gives                 *)
(* RateLimiterService no Redis URL, so new makes a local one                *)
(* (rust-gateway/src/rate_limit.rs, new_local and check_local), a direct    *)
(* limiter of the crate governor.  The request path does not ask it yet.    *)
(*                                                                          *)
(* governor is external: a GCRA cell in one atomic word.  check reads the   *)
(* clock, then decides and replaces the word in a compare-exchange loop     *)
(* that keeps the time it read, so other calls may come in between.  Time   *)
(* is in units of the interval at which the quota replenishes one call.     *)
(***************************************************************************)
EXTENDS Naturals, FiniteSets, FiniteSetsExt

CONSTANTS Caller,   \* concurrent requests
          Quota,    \* Quota::per_second(1000)
          MaxTime   \* bound of the clock

VARIABLES clock,
          cell,     \* the theoretical arrival time of the next call
          at,       \* per caller: where it is in check
          now,      \* per caller: the time it read
          total     \* history, per instant: calls let through until its end

vars == <<clock, cell, at, now, total>>

\* new, new_local.
Init ==
    /\ clock = 0
    /\ cell = 0
    /\ at = [c \in Caller |-> "idle"]
    /\ now = [c \in Caller |-> 0]
    /\ total = [t \in 0 .. MaxTime |-> 0]

\* limiter.check() reads the clock.
ReadClock(c) ==
    /\ at[c] = "idle"
    /\ at' = [at EXCEPT ![c] = "deciding"]
    /\ now' = [now EXCEPT ![c] = clock]
    /\ UNCHANGED <<clock, cell, total>>

\* limiter.check() returns Ok.
WithinQuota(c) == cell <= now[c] + Quota - 1

\* What check_local makes of it (mutant: a denial is passed on as well).
PassesAlways(c) == TRUE
Passes(c)       == WithinQuota(c)

\* Ok(()): the call takes its place behind the ones before it.
Allow(c) ==
    /\ at[c] = "deciding" /\ Passes(c)
    /\ cell' = Max({cell, now[c]}) + 1
    /\ total' = [total EXCEPT ![clock] = @ + 1]
    /\ at' = [at EXCEPT ![c] = "idle"]
    /\ UNCHANGED <<clock, now>>

\* Err(_): check_local returns Ok(false).
Deny(c) ==
    /\ at[c] = "deciding" /\ ~Passes(c)
    /\ at' = [at EXCEPT ![c] = "idle"]
    /\ UNCHANGED <<clock, cell, now, total>>

Tick ==
    /\ clock < MaxTime
    /\ clock' = clock + 1
    /\ total' = [total EXCEPT ![clock + 1] = total[clock]]
    /\ UNCHANGED <<cell, at, now>>

Next ==
    \/ \E c \in Caller : ReadClock(c) \/ Allow(c) \/ Deny(c)
    \/ Tick

Spec == Init /\ [][Next]_vars

-----------------------------------------------------------------------------
\* The calls let through before instant a.
Before(a) == IF a = 0 THEN 0 ELSE total[a - 1]

\* However calls interleave between their reading of the clock and their decision, one
\* limiter lets no more of them through in any stretch of time than its quota, what it
\* replenished meanwhile, and one for each call that had read the clock before.
LocalBurst ==
    \A a \in 0 .. clock : \A b \in a .. clock :
        total[b] <= Before(a) + Quota + (b - a) + Cardinality(Caller)
=============================================================================
