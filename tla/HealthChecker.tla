---------------------------- MODULE HealthChecker ----------------------------
(***************************************************************************)
(* HealthChecker of rust-gateway/src/health.rs: a map of upstreams under a  *)
(* lock, a task that inserts the default upstream, callers of register, and *)
(* a task that every ten seconds copies the names and probes them one after *)
(* the other, without the lock while a probe is under way.  The upstreams   *)
(* are external: one may go down or come up until the world is "stable".    *)
(***************************************************************************)
EXTENDS Naturals

CONSTANTS Upstream,
          DefaultUpstream,  \* config.upstream.default_url
          NoName,
          MaxFailures       \* bound on consecutive_failures

VARIABLES registered,  \* the keys of the map
          unhealthy,   \* keys whose healthy is false
          failures,    \* consecutive_failures
          startup,     \* the task of new(): "pending"; "done", also without a default_url
          names,       \* names left to probe in this round
          probing,     \* the name being probed, NoName between probes
          up,          \* upstreams whose /healthz answers with success
          world,       \* "changing" or "stable"
          misses       \* history: failed probes since the last success or registration

vars == <<registered, unhealthy, failures, startup, names, probing, up, world, misses>>

Init ==
    /\ registered = {}
    /\ unhealthy = {}
    /\ failures = [u \in Upstream |-> 0]
    /\ startup \in {"pending", "done"}
    /\ names = {}
    /\ probing = NoName
    /\ up = Upstream
    /\ world = "changing"
    /\ misses = [u \in Upstream |-> 0]

\* map.insert with a new HealthStatus: an entry that was there is replaced.
Insert(u) ==
    /\ registered' = registered \cup {u}
    /\ unhealthy' = unhealthy \ {u}
    /\ failures' = [failures EXCEPT ![u] = 0]
    /\ misses' = [misses EXCEPT ![u] = 0]

\* The task spawned by new().
InsertDefault ==
    /\ startup = "pending"
    /\ startup' = "done"
    /\ Insert(DefaultUpstream)
    /\ UNCHANGED <<names, probing, up, world>>

Register(u) ==
    /\ world = "changing"
    /\ Insert(u)
    /\ UNCHANGED <<startup, names, probing, up, world>>

\* The names of a round: the keys of the map.
KnownNames == registered

\* ticker.tick(): the names are copied; the map may grow before they are probed.
RoundStarts ==
    /\ names = {}
    /\ probing = NoName
    /\ names' = KnownNames
    /\ UNCHANGED <<registered, unhealthy, failures, startup, probing, up, world, misses>>

\* The next name, in the order of a hash map.
ProbeStarts(u) ==
    /\ probing = NoName
    /\ u \in names
    /\ probing' = u
    /\ names' = names \ {u}
    /\ UNCHANGED <<registered, unhealthy, failures, startup, up, world, misses>>

\* status.consecutive_failures = 0 (mutant: forgotten).
ResetForgotten(u) == failures
ResetFailures(u)  == [failures EXCEPT ![u] = 0]

\* status.healthy = true (mutant: only a new registration brings an upstream back).
RestoreForgotten(u) == unhealthy
Restore(u)          == unhealthy \ {u}

ProbeSucceeds(u) ==
    /\ probing = u
    /\ u \in up
    /\ probing' = NoName
    /\ unhealthy' = Restore(u)
    /\ failures' = ResetFailures(u)
    /\ misses' = [misses EXCEPT ![u] = 0]
    /\ UNCHANGED <<registered, startup, names, up, world>>

\* consecutive_failures >= 3.
Down(n) == n >= 3

More(n) == IF n < MaxFailures THEN n + 1 ELSE n

\* An answer that is no success, an error or the five second timeout.  While the world
\* changes, a probe of an upstream that is up may fail as well.
ProbeFails(u) ==
    /\ probing = u
    /\ u \notin up \/ world = "changing"
    /\ probing' = NoName
    /\ failures' = [failures EXCEPT ![u] = More(@)]
    /\ unhealthy' = IF Down(More(failures[u])) THEN unhealthy \cup {u} ELSE unhealthy
    /\ misses' = [misses EXCEPT ![u] = More(@)]
    /\ UNCHANGED <<registered, startup, names, up, world>>

GoesDown(u) ==
    /\ world = "changing"
    /\ u \in up
    /\ up' = up \ {u}
    /\ UNCHANGED <<registered, unhealthy, failures, startup, names, probing, world, misses>>

ComesUp(u) ==
    /\ world = "changing"
    /\ u \notin up
    /\ up' = up \cup {u}
    /\ UNCHANGED <<registered, unhealthy, failures, startup, names, probing, world, misses>>

Settle ==
    /\ world = "changing"
    /\ world' = "stable"
    /\ UNCHANGED <<registered, unhealthy, failures, startup, names, probing, up, misses>>

Checks == RoundStarts \/ \E u \in Upstream : ProbeStarts(u) \/ ProbeSucceeds(u) \/ ProbeFails(u)

Next ==
    \/ InsertDefault
    \/ RoundStarts
    \/ \E u \in Upstream : ProbeStarts(u) \/ ProbeSucceeds(u) \/ ProbeFails(u)
    \/ \E u \in Upstream : Register(u) \/ GoesDown(u) \/ ComesUp(u)
    \/ Settle

Spec == Init /\ [][Next]_vars

\* Both tasks run, and every probe ends after at most five seconds.
FairSpec == Spec /\ WF_vars(Checks) /\ WF_vars(InsertDefault)

-----------------------------------------------------------------------------
\* is_healthy: an upstream that is not in the map counts as healthy.
IsHealthy(u) == u \notin registered \/ u \notin unhealthy

\* Every variable has its type.
TypeOK ==
    /\ registered \subseteq Upstream
    /\ unhealthy \subseteq registered
    /\ failures \in [Upstream -> 0 .. MaxFailures]
    /\ startup \in {"pending", "done"}
    /\ names \subseteq registered
    /\ probing \in registered \cup {NoName}
    /\ up \subseteq Upstream
    /\ world \in {"changing", "stable"}

\* An upstream is out exactly when its last three probes failed in a row, counted since
\* it was registered, also when it is registered again in the middle of a round.
OutAfterThreeMisses ==
    \A u \in Upstream : u \in unhealthy <=> misses[u] >= 3

\* When upstreams stop changing, the map comes to tell which of them are up.
HealthConverges ==
    \A u \in Upstream :
        (world = "stable" /\ u \in registered) ~> (u \in up <=> IsHealthy(u))
=============================================================================
