--------------------------- MODULE BreakerRegistry ---------------------------
(***************************************************************************)
(* CircuitBreakerRegistry::get_or_create of rust-gateway/src/               *)
(* circuit_breaker.rs.  A caller looks the key up under the read lock,      *)
(* releases it, and on a miss takes the write lock; between the two locks   *)
(* another caller may have created the breaker.  A breaker is an identity   *)
(* here: the module CircuitBreaker models what is behind it.                *)
(***************************************************************************)
EXTENDS Naturals

CONSTANTS Caller, Key,
          MaxBreakers   \* bound on the breakers ever created

VARIABLES breakers,  \* the map: per key the breaker, 0 when there is no entry
          created,   \* breakers created so far; their identities are 1..created
          caller     \* per caller: where it is, the key it wants, what it got

vars == <<breakers, created, caller>>

None == 0
Idle(k) == [at |-> "idle", key |-> k, got |-> None]

Init ==
    /\ breakers = [k \in Key |-> None]
    /\ created = 0
    /\ caller \in [Caller -> {Idle(k) : k \in Key}]

\* get(key) under the read lock finds the entry.
GetHit(c) ==
    LET k == caller[c].key IN
    /\ caller[c].at = "idle"
    /\ breakers[k] # None
    /\ caller' = [caller EXCEPT ![c].at = "has", ![c].got = breakers[k]]
    /\ UNCHANGED <<breakers, created>>

\* get(key) misses; the read lock is released before the write lock is asked for.
GetMiss(c) ==
    /\ caller[c].at = "idle"
    /\ breakers[caller[c].key] = None
    /\ caller' = [caller EXCEPT ![c].at = "missed"]
    /\ UNCHANGED <<breakers, created>>

\* Whether or_insert_with runs its closure (mutant: insert, which always does).
InsertAlways(k) == TRUE
EntryVacant(k)  == breakers[k] = None

\* entry(key).or_insert_with(...) under the write lock, on a vacant entry ...
InsertNew(c) ==
    LET k == caller[c].key IN
    /\ caller[c].at = "missed"
    /\ EntryVacant(k)
    /\ created < MaxBreakers
    /\ created' = created + 1
    /\ breakers' = [breakers EXCEPT ![k] = created + 1]
    /\ caller' = [caller EXCEPT ![c].at = "has", ![c].got = created + 1]

\* ... and on one filled since the miss.
TakeExisting(c) ==
    LET k == caller[c].key IN
    /\ caller[c].at = "missed"
    /\ ~EntryVacant(k)
    /\ caller' = [caller EXCEPT ![c].at = "has", ![c].got = breakers[k]]
    /\ UNCHANGED <<breakers, created>>

\* The caller is done with the breaker and asks again, for any key.
Again(c) ==
    /\ caller[c].at = "has"
    /\ \E k \in Key : caller' = [caller EXCEPT ![c] = Idle(k)]
    /\ UNCHANGED <<breakers, created>>

Next ==
    \E c \in Caller : \/ GetHit(c) \/ GetMiss(c)
                      \/ InsertNew(c) \/ TakeExisting(c) \/ Again(c)

Spec == Init /\ [][Next]_vars

\* Two callers that hold a breaker of the same key hold the same one, and it is the
\* registered one: no interleaving of lookups and creations in get_or_create splits
\* an upstream's failures over two breakers.
SharedBreaker ==
    \A c \in Caller :
        caller[c].at = "has" => caller[c].got = breakers[caller[c].key]
=============================================================================
