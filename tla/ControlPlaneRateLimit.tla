------------------------ MODULE ControlPlaneRateLimit ------------------------
(***************************************************************************)
(* RedisRateLimiter of control-plane/internal/ratelimit/ratelimit.go, for   *)
(* one API key.  Each check reads the clock in whole seconds and sends a    *)
(* pipeline of four commands, which is not a transaction: commands of       *)
(* other checks may run between them, and time may pass.  The sorted set    *)
(* uses the second as both score and member, so it is a set of seconds.     *)
(***************************************************************************)
EXTENDS Naturals, FiniteSets, Functions

CONSTANTS Caller,
          Window,      \* 60 in the code
          Limit,       \* 100 in the code
          MaxTime,     \* bound of the clock
          MaxPassed    \* bound on the requests allowed in a second

VARIABLES clock,
          zset,     \* "ratelimit:"+key; empty when the key does not exist
          expireAt, \* when Redis deletes the key, 0 without a time to live
          at,       \* per caller: the next command of its pipeline
          now,      \* per caller: the second it read
          count,    \* per caller: the answer to ZCARD
          passed    \* history: requests check allowed, per second they began in

vars == <<clock, zset, expireAt, at, now, count, passed>>

Steps == {"idle", "zcard", "zrem", "zadd", "expire"}
Goto(c, l) == at' = [at EXCEPT ![c] = l]

Init ==
    /\ clock = 0
    /\ zset = {}
    /\ expireAt = 0
    /\ at = [c \in Caller |-> "idle"]
    /\ now = [c \in Caller |-> 0]
    /\ count = [c \in Caller |-> 0]
    /\ passed = [t \in 0 .. MaxTime |-> 0]

\* Middleware calls check, which reads the clock.
Begin(c) ==
    /\ at[c] = "idle"
    /\ passed[clock] < MaxPassed
    /\ Goto(c, "zcard")
    /\ now' = [now EXCEPT ![c] = clock]
    /\ UNCHANGED <<clock, zset, expireAt, count, passed>>

\* The set is counted before it is trimmed.
ZCard(c) ==
    /\ at[c] = "zcard"
    /\ Goto(c, "zrem")
    /\ count' = [count EXCEPT ![c] = Cardinality(zset)]
    /\ UNCHANGED <<clock, zset, expireAt, now, passed>>

\* ZREMRANGEBYSCORE key 0 now-window; Redis deletes a set that becomes empty, and with
\* it its time to live.
ZRemRangeByScore(c) ==
    /\ at[c] = "zrem"
    /\ Goto(c, "zadd")
    /\ zset' = {t \in zset : t + Window > now[c]}
    /\ expireAt' = IF zset' = {} THEN 0 ELSE expireAt
    /\ UNCHANGED <<clock, now, count, passed>>

\* The member is the second: another request of it finds it in the set.
ZAdd(c) ==
    /\ at[c] = "zadd"
    /\ Goto(c, "expire")
    /\ zset' = zset \cup {now[c]}
    /\ UNCHANGED <<clock, expireAt, now, count, passed>>

\* EXPIRE, which does nothing to a key that is gone; then the answers are read:
\* allowed := count < limit.
ExpireAndDecide(c) ==
    /\ at[c] = "expire"
    /\ expireAt' = IF zset = {} THEN expireAt ELSE clock + Window
    /\ passed' = IF count[c] < Limit THEN [passed EXCEPT ![now[c]] = @ + 1] ELSE passed
    /\ Goto(c, "idle")
    /\ UNCHANGED <<clock, zset, now, count>>

\* Any command may fail after the ones before it took effect: the middleware passes the
\* request on (fail open); what an error let pass is not counted.
FailOpen(c) ==
    /\ at[c] # "idle"
    /\ Goto(c, "idle")
    /\ UNCHANGED <<clock, zset, expireAt, now, count, passed>>

\* A second passes; Redis deletes the key whose time to live is over.  A key whose
\* EXPIRE never came has none.
Expired == expireAt # 0 /\ clock + 1 >= expireAt

Tick ==
    /\ clock < MaxTime
    /\ clock' = clock + 1
    /\ zset' = IF Expired THEN {} ELSE zset
    /\ expireAt' = IF Expired THEN 0 ELSE expireAt
    /\ UNCHANGED <<at, now, count, passed>>

Next ==
    \/ \E c \in Caller :
          \/ Begin(c) \/ ZCard(c) \/ ZRemRangeByScore(c) \/ ZAdd(c)
          \/ ExpireAndDecide(c) \/ FailOpen(c)
    \/ Tick

Spec == Init /\ [][Next]_vars

-----------------------------------------------------------------------------
\* Middleware "enforces rate limits", which check sets to "100 req/min": of the requests
\* that begin within a window, check allows at most Limit.  (Violated: with one caller
\* after the other and no error, every request of a second adds the same member, so the
\* set counts seconds, of which a window has fewer than the limit.)
LimitEnforced ==
    \A t \in 0 .. MaxTime :
        FoldFunctionOnSet(+, 0, passed, {u \in 0 .. MaxTime : t <= u /\ u < t + Window})
            <= Limit
=============================================================================
