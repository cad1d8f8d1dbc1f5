--------------------------- MODULE ProjectRateLimit ---------------------------
(***************************************************************************)
(* Limiter of internal/ratelimit/limiter.go, for one project: a counter per *)
(* window in Redis, increased by each request, with a time to live that is  *)
(* renewed each time.  The pipeline of INCR and EXPIRE is not a             *)
(* transaction; the window is computed from the clock before it is sent.    *)
(*                                                                          *)
(* Exec has no deadline of its own and the client (go-redis, external)      *)
(* sends a pipeline again when the connection breaks, so a check may take   *)
(* any time and may count more than once.                                   *)
(***************************************************************************)
EXTENDS Naturals, FiniteSets

CONSTANTS Caller,
          Window,    \* 60 in the code
          Burst,     \* 150 in the code
          MaxTime,   \* bound of the clock
          MaxCount,  \* bound on the INCRs of a window
          MaxErrors  \* bound on the errors of Redis

WindowOf(t) == t \div Window
WindowKey   == 0 .. WindowOf(MaxTime)

VARIABLES clock,
          counter,   \* Redis: value per window key, 0 when the key does not exist
          expireAt,  \* Redis: when a key is deleted, 0 without a time to live
          at,        \* per caller: "idle", "incr", "expire"
          start,     \* per caller: the second it read
          count,     \* per caller: the answer to INCR
          granted,   \* history: requests passed on, per window
          errors     \* history: those of them that an error of Redis let pass

vars == <<clock, counter, expireAt, at, start, count, granted, errors>>

InFlight(c)  == at[c] # "idle"
windowKey(c) == WindowOf(start[c])

Init ==
    /\ clock = 0
    /\ counter = [w \in WindowKey |-> 0]
    /\ expireAt = [w \in WindowKey |-> 0]
    /\ at = [c \in Caller |-> "idle"]
    /\ start = [c \in Caller |-> 0]
    /\ count = [c \in Caller |-> 0]
    /\ granted = [w \in WindowKey |-> 0]
    /\ errors = [w \in WindowKey |-> 0]

\* Middleware calls checkLimit, which reads the clock.
CheckLimit(c) ==
    /\ at[c] = "idle"
    /\ counter[WindowOf(clock)] < MaxCount
    /\ at' = [at EXCEPT ![c] = "incr"]
    /\ start' = [start EXCEPT ![c] = clock]
    /\ UNCHANGED <<clock, counter, expireAt, count, granted, errors>>

Incr(c) ==
    /\ at[c] = "incr"
    /\ at' = [at EXCEPT ![c] = "expire"]
    /\ counter' = [counter EXCEPT ![windowKey(c)] = @ + 1]
    /\ count' = [count EXCEPT ![c] = counter[windowKey(c)] + 1]
    /\ UNCHANGED <<clock, expireAt, start, granted, errors>>

\* The time to live EXPIRE sets (mutant: the window is forgotten).
TimeToLiveSecond == 1
TimeToLive       == Window + 1

\* EXPIRE, which does nothing to a key that is gone.
Renewed(c) ==
    IF counter[windowKey(c)] = 0 THEN expireAt
    ELSE [expireAt EXCEPT ![windowKey(c)] = clock + TimeToLive]

\* allowed := count <= l.burst.
Allowed(c) == count[c] <= Burst

\* checkLimit returns; its locals are gone.
Return(c) ==
    /\ at' = [at EXCEPT ![c] = "idle"]
    /\ start' = [start EXCEPT ![c] = 0]
    /\ count' = [count EXCEPT ![c] = 0]

\* EXPIRE and the answer.
Expire(c) ==
    /\ at[c] = "expire"
    /\ expireAt' = Renewed(c)
    /\ Return(c)
    /\ granted' = IF Allowed(c) THEN [granted EXCEPT ![windowKey(c)] = @ + 1] ELSE granted
    /\ UNCHANGED <<clock, counter, errors>>

\* The connection breaks after INCR, before or after EXPIRE took effect, and the client
\* sends the pipeline again (external).
Resend(c) ==
    /\ at[c] = "expire"
    /\ counter[windowKey(c)] < MaxCount
    /\ expireAt' \in {expireAt, Renewed(c)}
    /\ at' = [at EXCEPT ![c] = "incr"]
    /\ count' = [count EXCEPT ![c] = 0]
    /\ UNCHANGED <<clock, counter, start, granted, errors>>

\* Exec returns an error, whatever part of the pipeline took effect: return true, 0, 0.
FailOpen(c) ==
    /\ InFlight(c)
    /\ \A w \in WindowKey : errors[w] < MaxErrors
    /\ expireAt' \in {expireAt} \cup (IF at[c] = "expire" THEN {Renewed(c)} ELSE {})
    /\ Return(c)
    /\ granted' = [granted EXCEPT ![windowKey(c)] = @ + 1]
    /\ errors' = [errors EXCEPT ![windowKey(c)] = @ + 1]
    /\ UNCHANGED <<clock, counter>>

Expired(w) == expireAt[w] # 0 /\ clock + 1 >= expireAt[w]

\* A second passes; Redis deletes the keys whose time to live is over.
Tick ==
    /\ clock < MaxTime
    /\ clock' = clock + 1
    /\ counter' = [w \in WindowKey |-> IF Expired(w) THEN 0 ELSE counter[w]]
    /\ expireAt' = [w \in WindowKey |-> IF Expired(w) THEN 0 ELSE expireAt[w]]
    /\ UNCHANGED <<at, start, count, granted, errors>>

Next ==
    \/ \E c \in Caller : CheckLimit(c) \/ Incr(c) \/ Expire(c) \/ Resend(c) \/ FailOpen(c)
    \/ Tick

Spec == Init /\ [][Next]_vars

-----------------------------------------------------------------------------
\* Every variable has its type.
TypeOK ==
    /\ clock \in 0 .. MaxTime
    /\ counter \in [WindowKey -> Nat]
    /\ expireAt \in [WindowKey -> Nat]
    /\ at \in [Caller -> {"idle", "incr", "expire"}]
    /\ start \in [Caller -> 0 .. clock]
    /\ count \in [Caller -> Nat]
    /\ granted \in [WindowKey -> Nat]
    /\ errors \in [WindowKey -> Nat]

\* Of the requests of one window, checkLimit passes on at most the burst, those an error
\* of Redis let pass, and one for each caller: a check that is still under way when the
\* window's key expires starts the count anew, however often pipelines are sent again,
\* but before the window ends its key does not expire and all of them share one count.
BurstPerWindow ==
    \A w \in WindowKey : granted[w] <= Burst + Cardinality(Caller) + errors[w]
=============================================================================
