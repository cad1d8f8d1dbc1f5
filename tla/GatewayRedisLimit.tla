-------------------------- MODULE GatewayRedisLimit --------------------------
(***************************************************************************)
(* check_redis of RateLimiterService (rust-gateway/src/rate_limit.rs), for  *)
(* one identity: four commands, each awaited, on a sorted set with one      *)
(* member per granted request.  Checks of several tasks and gateways        *)
(* interleave between the commands, and time passes between them.  Redis    *)
(* is external.  Time is counted in one unit for scores and expiry.         *)
(***************************************************************************)
EXTENDS Naturals, FiniteSets

CONSTANTS Caller,
          Window,
          Limit,
          MaxTime,   \* bound of the clock
          MaxAdds    \* bound on the members ever added

VARIABLES clock,
          zset,      \* members <<score, uuid>>; empty when the key does not exist
          expireAt,  \* when Redis deletes the key, 0 without a time to live
          at,        \* per caller: the next command
          now,       \* per caller: the time it read
          uuid       \* the last member's number

vars == <<clock, zset, expireAt, at, now, uuid>>

Steps == {"idle", "zrem", "zcard", "zadd", "expire"}
Goto(c, l) == at' = [at EXCEPT ![c] = l]

\* The epoch is more than a window away, so that now - window does not saturate.
Init ==
    /\ clock = Window
    /\ zset = {}
    /\ expireAt = 0
    /\ at = [c \in Caller |-> "idle"]
    /\ now = [c \in Caller |-> Window]
    /\ uuid = 0

\* check with a Redis connection: the clock is read.
Check(c) ==
    /\ at[c] = "idle"
    /\ uuid < MaxAdds
    /\ Goto(c, "zrem")
    /\ now' = [now EXCEPT ![c] = clock]
    /\ UNCHANGED <<clock, zset, expireAt, uuid>>

WindowStart(c) == now[c] - Window

\* ZREMRANGEBYSCORE key 0 window_start; Redis deletes a set that becomes empty, and with
\* it its time to live.
ZRemRangeByScore(c) ==
    /\ at[c] = "zrem"
    /\ Goto(c, "zcard")
    /\ zset' = {m \in zset : m[1] > WindowStart(c)}
    /\ expireAt' = IF zset' = {} THEN 0 ELSE expireAt
    /\ UNCHANGED <<clock, now, uuid>>

\* count >= limit (mutant: off by one).
ExceededLate == Cardinality(zset) > Limit
Exceeded     == Cardinality(zset) >= Limit

\* ZCARD, and the early return.
ZCard(c) ==
    /\ at[c] = "zcard"
    /\ Goto(c, IF Exceeded THEN "idle" ELSE "zadd")
    /\ UNCHANGED <<clock, zset, expireAt, now, uuid>>

\* The member is made unique by a uuid (mutant: the time alone, as if it were unique).
FreshUuidMissing == 0
FreshUuid        == uuid + 1

ZAdd(c) ==
    /\ at[c] = "zadd"
    /\ Goto(c, "expire")
    /\ uuid' = FreshUuid
    /\ zset' = zset \cup {<<now[c], FreshUuid>>}
    /\ UNCHANGED <<clock, expireAt, now>>

\* EXPIRE, which does nothing if the key is gone; Ok(true).
Expire(c) ==
    /\ at[c] = "expire"
    /\ Goto(c, "idle")
    /\ expireAt' = IF zset = {} THEN expireAt ELSE clock + Window
    /\ UNCHANGED <<clock, zset, now, uuid>>

\* Any command fails: the error is returned.
CheckFails(c) ==
    /\ at[c] # "idle"
    /\ Goto(c, "idle")
    /\ UNCHANGED <<clock, zset, expireAt, now, uuid>>

\* Time passes; Redis deletes the key when its time to live is over.
Expired == expireAt # 0 /\ clock + 1 >= expireAt

Tick ==
    /\ clock < MaxTime
    /\ clock' = clock + 1
    /\ zset' = IF Expired THEN {} ELSE zset
    /\ expireAt' = IF Expired THEN 0 ELSE expireAt
    /\ UNCHANGED <<at, now, uuid>>

Next ==
    \/ \E c \in Caller :
          \/ Check(c) \/ ZRemRangeByScore(c) \/ ZCard(c) \/ ZAdd(c) \/ Expire(c)
          \/ CheckFails(c)
    \/ Tick

Spec == Init /\ [][Next]_vars

-----------------------------------------------------------------------------
\* Every variable has its type; no two members have the same uuid.
TypeOK ==
    /\ clock \in Window .. MaxTime
    /\ zset \subseteq (Window .. clock) \X (1 .. uuid)
    /\ \A m, n \in zset : m[2] = n[2] => m = n
    /\ expireAt \in Nat
    /\ at \in [Caller -> Steps]
    /\ now \in [Caller -> Window .. clock]
    /\ uuid \in Nat

\* Checks that have seen a count below the limit and not yet added their member.
Adding == {c \in Caller : at[c] = "zadd"}

\* ZCARD and ZADD are not atomic, so the set may outgrow the limit, but never by more
\* than the other checks that run at the same time: members present and members about
\* to be added stay below limit plus the number of callers.
BoundedOvershoot ==
    Cardinality(zset) + Cardinality(Adding) < Limit + Cardinality(Caller)
=============================================================================
