------------------------------- MODULE MCGuards -------------------------------
(***************************************************************************)
(* What stands between the gateways and too much traffic, for TLC: a        *)
(* circuit breaker, the registry that hands breakers out, the health        *)
(* checker, and the rate limiters of the Rust gateway and of the LLM proxy. *)
(* They share no state, so the initial state picks one and the others stand *)
(* still: the states explored are the sum and not the product of theirs.    *)
(***************************************************************************)
EXTENDS CircuitBreaker, FiniteSets

CONSTANTS Key, MaxBreakers,
          Upstream, DefaultUpstream, NoName,
          MaxTime,
          Window, Limit, MaxAdds,                   \* of check_redis
          Client,                                   \* callers of the other two limiters
          Minute, Burst, MaxCount, MaxErrors,       \* of the LLM proxy's limiter
          Quota                                     \* of the local limiter

VARIABLES guard,      \* the component that runs
          rBreakers, rCreated, rCaller,
          hRegistered, hUnhealthy, hFailures, hStartup, hNames, hProbing, hUp, hWorld,
          hMisses,
          qClock, qZset, qExpireAt, qAt, qNow, qUuid,
          pClock, pCounter, pExpireAt, pAt, pStart, pCount, pGranted, pErrors,
          lClock, lCell, lAt, lNow, lTotal

R == INSTANCE BreakerRegistry
       WITH breakers <- rBreakers, created <- rCreated, caller <- rCaller

H == INSTANCE HealthChecker
       WITH registered <- hRegistered, unhealthy <- hUnhealthy, failures <- hFailures,
            startup <- hStartup, names <- hNames, probing <- hProbing, up <- hUp,
            world <- hWorld, misses <- hMisses

Q == INSTANCE GatewayRedisLimit
       WITH clock <- qClock, zset <- qZset, expireAt <- qExpireAt, at <- qAt,
            now <- qNow, uuid <- qUuid

P == INSTANCE ProjectRateLimit
       WITH Caller <- Client, Window <- Minute, clock <- pClock, counter <- pCounter,
            expireAt <- pExpireAt, at <- pAt, start <- pStart, count <- pCount,
            granted <- pGranted, errors <- pErrors

L == INSTANCE LocalRateLimit
       WITH Caller <- Client, clock <- lClock, cell <- lCell, at <- lAt, now <- lNow,
            total <- lTotal

ASSUME GuardsAssumption ==
    /\ MaxBreakers \in Nat
    /\ DefaultUpstream \in Upstream
    /\ NoName \notin Upstream
    /\ MaxFailures >= 3

ASSUME LimitersAssumption ==
    /\ IsFiniteSet(Caller) /\ Caller # {} /\ IsFiniteSet(Client)
    /\ Window \in Nat /\ MaxTime \in Nat /\ MaxTime >= Window /\ Minute \in Nat \ {0}
    /\ Limit \in Nat \ {0} /\ Quota \in Nat \ {0}
    /\ {Burst, MaxAdds, MaxCount, MaxErrors} \subseteq Nat

rVars == <<rBreakers, rCreated, rCaller>>
hVars == <<hRegistered, hUnhealthy, hFailures, hStartup, hNames, hProbing, hUp, hWorld,
           hMisses>>
qVars == <<qClock, qZset, qExpireAt, qAt, qNow, qUuid>>
pVars == <<pClock, pCounter, pExpireAt, pAt, pStart, pCount, pGranted, pErrors>>
lVars == <<lClock, lCell, lAt, lNow, lTotal>>
all   == <<guard, vars, rVars, hVars, qVars, pVars, lVars>>

Limiters == {"redis", "project", "local"}

\* One initial state for a component that stands still.
AtRest(g) ==
    /\ g # "registry" => rCaller = [c \in Caller |-> R!Idle(CHOOSE k \in Key : TRUE)]
    /\ g # "health"   => hStartup = "done"

MCInit ==
    /\ guard \in {"breaker", "registry", "health"} \cup Limiters
    /\ AtRest(guard)
    /\ Init /\ R!Init /\ H!Init /\ Q!Init /\ P!Init /\ L!Init

BreakerStep ==
    guard = "breaker"  /\ Next   /\ UNCHANGED <<guard, rVars, hVars, qVars, pVars, lVars>>
RegistryStep ==
    guard = "registry" /\ R!Next /\ UNCHANGED <<guard, vars, hVars, qVars, pVars, lVars>>
HealthStep ==
    guard = "health"   /\ H!Next /\ UNCHANGED <<guard, vars, rVars, qVars, pVars, lVars>>
RedisStep ==
    guard = "redis"    /\ Q!Next /\ UNCHANGED <<guard, vars, rVars, hVars, pVars, lVars>>
ProjectStep ==
    guard = "project"  /\ P!Next /\ UNCHANGED <<guard, vars, rVars, hVars, qVars, lVars>>
LocalStep ==
    guard = "local"    /\ L!Next /\ UNCHANGED <<guard, vars, rVars, hVars, qVars, pVars>>

\* The clocks of the limiters end at their bound.
LimiterAtItsBound == guard \in Limiters /\ UNCHANGED all

MCNext ==
    \/ BreakerStep \/ RegistryStep \/ HealthStep
    \/ RedisStep \/ ProjectStep \/ LocalStep
    \/ LimiterAtItsBound

\* The fairness of CircuitBreaker!FairSpec and of HealthChecker!FairSpec, for the
\* component that runs.
MCFairness ==
    /\ WF_vars(guard = "breaker" /\ Tick)
    /\ \A c \in Caller :
          /\ WF_vars(guard = "breaker" /\ Allow(c))
          /\ SF_vars(guard = "breaker" /\ RecordSuccess(c))
          /\ WF_vars(guard = "breaker" /\ (RecordFailure(c) \/ Abandon(c)))
    /\ WF_hVars(guard = "health" /\ H!Checks)
    /\ WF_hVars(guard = "health" /\ H!InsertDefault)

MCSpec == MCInit /\ [][MCNext]_all /\ MCFairness

-----------------------------------------------------------------------------
\* Every variable of the breaker and of check_redis has its type: the breaker's failures
\* never go below zero, and no two members of the sorted set share a uuid.
Typed == TypeOK /\ Q!TypeOK

\* No interleaving of lookups and creations in get_or_create splits the failures of an
\* upstream over two breakers.
SharedBreaker == R!SharedBreaker

\* An upstream is out exactly when its last three probes failed in a row, also when it is
\* registered again in the middle of a round.
OutAfterThreeMisses == H!OutAfterThreeMisses

\* When upstreams stop changing, the health map comes to tell which of them are up.
HealthConverges == H!HealthConverges

\* ZCARD and ZADD of check_redis are not atomic, but the set outgrows the limit by fewer
\* members than there are callers.
BoundedOvershoot == Q!BoundedOvershoot

\* checkLimit passes on at most the burst of a window, one more for each caller whose
\* check outlives the window's key, and what errors of Redis let pass, however late and
\* however often pipelines are sent.
BurstPerWindow == P!BurstPerWindow

\* One local limiter lets no more calls through in any stretch of time than its quota,
\* what that replenished, and one for each call that had read the clock before.
LocalBurst == L!LocalBurst
=============================================================================
