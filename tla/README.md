# A TLA+ model of AppGate

AppGate puts a gateway between an organisation's applications and LLM providers. The
repository holds four programs that were written side by side:

| program | language | directory |
|---|---|---|
| gateway (HTTP, `AppGateServer`) | Rust | `rust-gateway/` |
| TLS gateway (with a policy engine of its own) | Rust | `gateway/` |
| control plane (policies, leader election, audit ingestion) | Go | `control-plane/` |
| LLM proxy (tokens, limits, audit log, reverse proxy) | Go | `internal/` |

The modules here model what these programs do with shared state: which task or goroutine
may run between two steps of another, what an external system may do in between (etcd,
Redis, Postgres, an upstream, a peer), and what is left behind when a step fails. Paths
below are relative to the repository; `PROJECT.json` maps every definition to its lines.

## Inventory

State, operations and hard behaviours, component by component.

**Server life cycle** (`rust-gateway/src/server.rs`, `main.rs`). State: a semaphore of
10000 permits, the counter `active_connections`, a broadcast channel, a `Notify`.
Operations: accept, admit or reject, count, spawn, uncount, release, forward the signal,
drain, time out. Hard: four kinds of tasks on a multi-threaded runtime; a notification is
only for those who already wait; counter and permit are two steps each. Correct when no
more connections are served than there are permits, the unsigned counter never wraps, a
drain that ends has seen every connection, and the process ends after a signal.

**Request path of the gateway** (`server.rs`, `router.rs`, `proxy.rs`). No shared state;
a handler is a future that may be dropped at any await. Correct when nothing oversized or
without an upstream is sent and every forwarded request ends.

**Start of the gateway** (`rust-gateway/src/main.rs`, `config.rs`, `telemetry.rs`,
`jwt.rs`). State: the environment, the configuration read from it, the tracer, the server
task. Operations: init tracing, load, make the validator or exit, spawn, bind; Docker starts
an exited process again. Hard: a configuration that is wrong in one place falls back as a
whole; steps that fail one after the other; names of variables that the loader does not look
for. Correct when what the environment names reaches the part it is meant for.

**Upstream guards** (`circuit_breaker.rs`, `health.rs`). State: per upstream a breaker
behind a lock, a map of breakers, a map of health entries. Operations: `allow`,
`record_success`, `record_failure`, `get_or_create`, `register`, background probes. Hard:
results arrive late, out of order or never; look-up and creation are under different
locks; an entry is replaced while its probe is under way. `main` creates them, but no
handler calls them yet: the modules model them as the library they are.

**Rate limiters** (`rust-gateway/src/rate_limit.rs`, `internal/ratelimit/limiter.go`,
`control-plane/internal/ratelimit/ratelimit.go`). State: keys in Redis with a time to live.
Hard: several commands per check that are no transaction, from several processes; errors
between them; expiry; second boundaries. Both Go limiters let requests pass when Redis
fails. Without a Redis URL, which is how `main` makes it, the gateway's limiter is a local
cell of the crate `governor`, shared by all identities.

**Audit** (`internal/audit/logger.go`, `rust-gateway/src/audit.rs`, `gateway/src/audit.rs`,
`HandleAuditBatch` in `control-plane/internal/api/api.go`). State: a channel, a batch, the
store. Hard: `Log` must not block; a batch whose commit or POST was not answered may still
take effect; `Close` races the worker and gives up after five seconds. Correct when events
are stored in whole batches, in order, never twice, and leave without further traffic.

**Leader election** (`control-plane/internal/leader/leader.go`, `cmd/server/main.go`,
write handlers in `api.go`). State: election keys in etcd, bound to leases; per replica the
flags `isLeader` and `isHealthy`. Hard: leases expire while a process believes in them,
revocations fail, processes die, the same replica campaigns again beside its old key.

**Policies** (`gateway/src/policy.rs`, `control-plane/internal/policy/policy.go`). State: a
list behind an `ArcSwap`, refreshed every minute. Hard: the list is swapped while it is
walked; two implementations must decide alike; a fetch fails or does not parse.

**TLS gateway** (`gateway/src/server.rs`, `main.rs`, `router.rs`, `proxy.rs`, `tls.rs`).
State: the global counter `ACTIVE_CONNECTIONS`; one task per connection, which starts with
the handshake and forwards the connection's requests one by one. Hard: a handshake or a
request that fails half-way; an upstream that stops in the body of its answer; a panic in
one task. Correct when the counter is exact, every forwarded request ends, and a process
that cannot listen does not stay up.

**Tokens** (`control-plane/internal/auth/auth.go`, `api.go`, and the three validators
`rust-gateway/src/jwt.rs`, `gateway/src/jwt.rs`, `internal/auth/jwt.go`). State: signing keys
made at each start of the control plane, the key each validator loaded at its start, the
clock. Hard: files and keys change while validators run; three validators with three sets
of algorithms, claims and leeways. Correct when a token the control plane signs is accepted,
while it is valid, by a gateway that has the key and expects that issuer.

**Checks of upstream URLs** (`rust-gateway/src/ssrf.rs`, `gateway/src/ssrf.rs`). State: the
approved domains and a switch. Two implementations, one of which should be the stricter.

**Metrics** (`rust-gateway/src/metrics.rs`, `gateway/src/metrics.rs`). State: one lazily
registered family per metric. Hard: threads meet at the first use of a family; a scrape
falls between the two updates of a request. Correct when no first use panics and a scrape
shows every recording that had returned.

**LLM proxy** (`internal/proxy/handler.go`, `internal/auth/jwt.go`). The middleware chain
token, limiter, policy, audit, then the handlers and the reverse proxy.

How they interact: the request paths call limiters, loggers and upstreams; the gateways
post to and fetch from the control plane over HTTP; replicas of the control plane meet in
etcd; all limiters but the local one meet in Redis.

## Modules

| module | models |
|---|---|
| `GatewayServer`, `GatewayServer_proofs` | accept loop, connection tasks, shutdown forwarder, drain, shutdown half of `main` |
| `GatewayStartup` | `main` up to its wait, `GatewayConfig::from_env`, tracing set-up, restarts |
| `GatewayRequest` | `handle_request`, `route_request`, `handle_proxy`, `Router`, `forward` |
| `CircuitBreaker` | one breaker with concurrent callers |
| `BreakerRegistry` | `get_or_create` with its two locks |
| `HealthChecker` | map, start-up task, background probes |
| `GatewayRedisLimit` | `check_redis` |
| `ProjectRateLimit` | `Limiter.checkLimit` of the LLM proxy |
| `LocalRateLimit` | `RateLimiterService::new_local`, `check_local` |
| `MCGuards`, `UpstreamGuards_proofs`, `RateLimiters_proofs` | the six modules above for TLC; proofs about the first three and about the last three |
| `ControlPlaneRateLimit` | `RedisRateLimiter.check` and its middleware |
| `AuditTrail` | abstract: what an asynchronous audit log promises |
| `AuditLogger` | `Logger` of the LLM proxy; implements `AuditTrail` |
| `GatewayAudit` | the gateways' audit task and the ingesting handler; implements `AuditTrail` |
| `MCAuditPipelines`, `AuditPipelines_proofs` | the two implementations for TLC; proofs of both refinements |
| `LeaderElection`, `LeaderElection_proofs` | `Elector.Run`, `Resign`, start and stop, `/readyz`, the leader check |
| `PolicyEngine` | refresh task, `evaluate`, the control plane's `Evaluate` |
| `MCPolicies`, `MCPolicyEngine` | policies and questions for TLC; the engine alone |
| `TokenValidation` | issuing handlers of the control plane, the three validators, key files, the clock |
| `SsrfGuards` | `SsrfGuard::validate_url`, `SSRFDefense` |
| `TlsGateway`, `TlsGateway_proofs` | `run_server`, connection tasks, `route_request`, `forward`, `main` |
| `LLMProxy` | middleware chain, handlers, upstream outcomes |
| `Metrics` | lazy families, `record_*`, `gather_metrics` |
| `MCRequestPaths`, `Access_proofs`, `RequestPaths_proofs` | `TlsGateway`, `GatewayRequest`, `LLMProxy`, `Metrics`, `PolicyEngine` and `SsrfGuards` for TLC; proofs about the last two, and about the other three but `TlsGateway` |

Actions keep the names of the code's functions where there is one per function
(`RecordSuccess`, `CheckLimit`, `HandleAuditBatch`). A function that awaits, or that sends
several commands, is one action per step between awaits or commands; a function that runs
under a lock is one action. A definition that says "mutant" in its comment has, in front of
it, the form a plausible bug would give it; the mutants in `PROJECT.json` put that form in
its place and a property must fail. `MCGuards`, `MCAuditPipelines` and `MCRequestPaths` put
components that share nothing into one run: the initial state picks the component that runs
and the others stand still, so that the run explores the sum of their states and not the
product.

Abstractions that a reader should know:

- Requests, events, tokens and bodies are members of small sets, one per case the code
  tells apart. Status 200 of a forwarded request stands for whatever the upstream answered.
  "oversized" is a document above the limit (10 MB in the proxy).
- The outcome of a call guarded by a breaker is fixed when it starts; it is recorded later,
  or never.
- etcd: a campaign puts a key under the session's lease and waits until no key with a
  smaller revision is left; keys vanish by revocation, resignation or expiry.
- Redis executes one command at a time, deletes a key when its time is over and a sorted set,
  with its time to live, when its last member goes; `EXPIRE` does nothing to a missing key. A
  check may take any time between two commands, since none has a deadline; go-redis may send
  the pipeline of the LLM proxy again after it took effect.
- Postgres and HTTP: a commit or request without an answer is put into `limbo`, from where
  it takes effect later, or never.
- Configuration: the environment is one variable of each kind the loader treats alike. The
  crate `envy`, in the version of `Cargo.lock`, looks for names without a prefix and fills no
  nested section, which keeps its derived default (`FromEnv`).
- hyper: what `serve_connection` makes of a timeout without a timer is the constant
  `NeedsTimer`; the version in `Cargo.lock` panics (`TRUE`). Runs other than `tls_serves`
  check both, so that the code behind `serve_connection` is explored.
- Token libraries: a signature verifies exactly with the key it was made with and an
  algorithm of that key's family. `governor`: a cell is one atomic word, decided on with the
  time read before. `url` and `std::net`: a host is a name of some labels, absent, or an
  address, which has labels too and is of a class.
- A metric family is a counter; labels and buckets are left out.
- `Logger.Close` is part of the package's interface; nothing in the repository calls it.
  The model lets one caller close the logger at any moment.

## Runs

| run | cfg | checks |
|---|---|---|
| `server` | `GatewayServer.cfg` | four peers, three permits: `BackPressure`, `DrainSeesEveryConnection`, the counter's range (`TypeOK`), and `ExitsAfterSignal` |
| `server_lostwakeup` | `GatewayServer_lostwakeup.cfg` | violated: `ExitsThroughDrain` |
| `guards` | `Guards.cfg` | breaker: `ClosedIffBelowThreshold`, `HalfOpenAdmits`, `ProbeFailureReopens`, `RecoversWithUpstream`; registry: `SharedBreaker`; health: `OutAfterThreeMisses`, `HealthConverges`; limiters: `BoundedOvershoot` (gateway, Redis), `LocalBurst` (gateway, local), `BurstPerWindow` (project) |
| `leader` | `LeaderElection.cfg` | `OneLiveLeader`, `LeaderEmerges` |
| `leader_ready` | `LeaderElection_ready.cfg` | violated: `AllReadyAfterRecovery` |
| `controlplane_limit` | `ControlPlaneRateLimit_enforced.cfg` | violated: `LimitEnforced` |
| `audit` | `AuditPipelines.cfg` | both refinements of `AuditTrail`, `CleanClose`, `NoWriteAfterClose`, `EveryEventSettles`, `EveryEventLeaves` |
| `request_paths` | `RequestPaths.cfg` | gateway and proxy: `OnlyCheckedIsSent`; proxy: `AuditMatchesMetrics`; TLS gateway: `ActiveIsExact`, `StartFailureEndsProcess`; both gateways: `EveryForwardEnds`, `ScrapeIsFresh`; policies: `DecisionOfOneList`, `EnginesDifferOnlyOnEmpty`; URLs: `StricterThanRust` |
| `startup` | `GatewayStartup_keypath.cfg` | violated: `KeyPathHonoured` |
| `tls_serves` | `TlsGateway_serves.cfg` | violated: `ServesConnections` |
| `token_accepted` | `TokenValidation_accepted.cfg` | violated: `SignedTokenAccepted` |
| `policy_controlplane` | `PolicyEngine_controlplane.cfg` | violated: `PoliciesArrive` |

Each passing run also checks one type invariant, except `leader`, whose type invariant is
proved. A run takes from a second to about two and a half minutes.

### Bounds

- Peers 4, permits 3: all permits can be taken while a further peer is rejected, and peers
  come back. `MaxWait` 2 of `MaxTime` 3 ticks lets a drain begin at, end before and end at
  main's deadline.
- Breaker: three callers, threshold 2, two probes, `MaxFailures` 5: enough for a stale
  failure and a stale success in each state; `MaxFailures` exceeds the threshold by more
  than the calls that can be in flight.
- Registry: three callers, two keys, one breaker more than needed. Health: two upstreams;
  counts are capped above 3, the only threshold.
- Leader: two replicas, at most three keys while the network is flaky and seven in all:
  each replica can lose a key, leave it behind, and campaign again beside it. With a
  bounded number of keys a behaviour may stop, so deadlock is not checked.
- Limiters: `check_redis`: three callers, a window of two seconds and the clock up to four,
  so that there are two whole windows, limit 1 and three additions. Project: two callers, a
  window of three seconds and a burst of 2; a key lives four seconds, so within the clock's
  four it expires under a check of its window; `MaxCount` 3 lets one request be denied or one
  pipeline be sent again, `MaxErrors` 1 one be let pass by an error. Local: a quota of 3 and
  two callers: a late decision of each is possible in one instant, and the bound of
  `LocalBurst` is reached. Control plane: limit 3 above a window of 2, as 100 is above 60 in
  the code. Counts and clocks end at their bounds: `MCGuards` lets a limiter stand still
  there, and `controlplane_limit` does not check deadlock.
- Audit: four events, a channel and a batch of two: the channel fills up, there are full
  and partial batches, and a late batch may be overtaken by another.
- Policies: lists of up to two out of two policies (by role; by user, without models), four
  questions, every kind of answer; `policy_controlplane` has the one answer the control plane
  gives.
- TLS gateway: three connections, which come back, so that the counter goes up and down in
  any order. Gateway and proxy: two requests, a burst of 1, a table with a shadowed prefix
  and an empty upstream.
- Start: every environment; the operator may change it at a restart, so the states are few.
- Metrics: three threads, two calls begun per family, three functions that record (both
  orders in which the gateways update requests and duration, and a single family).
- Tokens: one in circulation at a time suffices, since validators compare none with another;
  lifetime 1, leeway 1 and clock 3 put it before, at, within the leeway of and past its
  expiry; two starts of the control plane, one key of each family at the provider.
- URLs: six names: an approved one, names above and below it, `localhost` on its own and as a
  suffix; seven addresses of every class; as domains to approve all of these but one, and the
  end of an address.

### Fairness

- Tasks and goroutines that can go on do (`tokio` and Go schedule them): weak fairness of
  their steps. Never of what a peer or upstream does: a connection need not end, a body
  need not arrive, an upstream need not answer.
- Timers fire: weak fairness of the steps a timeout, ticker or interval enables. In
  `GatewayServer` the clock has strong fairness: it stands still only while a task is
  runnable, which is never for ever.
- `CircuitBreaker`: strong fairness of `RecordSuccess`: not every successful call is
  abandoned. `PolicyEngine`: weak fairness of the refresh loop, whose client has a timeout of
  ten seconds; nothing is assumed of the answers.
- `TlsGateway`, `GatewayRequest`: the HTTP clients keep their timeout, so the failing
  outcome of `forward` is fair; the answer of the upstream is not.
- `LeaderElection`: leases that nobody keeps alive expire; etcd and the processes behave
  from some moment on.

### What the violated properties show

- **Lost wake-up** (`server.rs:76`). `notify_waiters` wakes only those that wait. While the
  accept loop is between `accept` and the next `select!` nobody does; the loop goes on
  accepting, `main` gives up after 30 seconds and the drain that the header of the file
  announces does not take place.
- **Readiness** (`leader.go:77`). A follower whose session or campaign failed once becomes
  healthy again only by winning an election, so `/readyz` answers 503 while another replica
  leads; the failover runbook waits for every pod to be ready.
- **Policies never arrive** (`api.go:146`). The control plane answers with an object, the
  gateway parses a list. It logs the error and goes on with no policies, healthy.
- **Key path** (`rust-gateway/src/config.rs:101`). `envy::from_env` looks for names without
  the prefix `APPGATE_` and cannot fill the section `jwt`, so the key path never reaches the
  validator and the process exits with status 1 at every start, although the compose file
  sets `APPGATE_JWT_KEY_PATH` and the error message asks for it.
- **First connection** (`gateway/src/server.rs:87`). The connection builder has a
  `header_read_timeout` and no timer, on which hyper panics; with `panic = "abort"` the
  process ends when the first client has completed its handshake.
- **Limit of the control plane** (`ratelimit.go:82`). The member of the sorted set is the
  second, so requests of one second count once and a window of 60 seconds does not reach a
  count of 100: with one caller after the other, and without any error of Redis, more than
  the limit pass, although the comments say "enforces rate limits" and "100 req/min".
- **Tokens** (`rust-gateway/src/jwt.rs:11`). The control plane writes the audience as an
  array where `rust-gateway` reads a string, so a gateway that has its key, and is configured
  with its issuer and audience, rejects a token that is still valid. The other two validators
  read RSA or EC keys, and it has Ed25519 ones; the key set it publishes is empty.

### Other divergences met while modelling

Stated here with the definition that models the behaviour; no run is devoted to them.

- The write handlers test a flag that outlives the lease (`api.go:152`, `AcceptsWrites`):
  `OneLiveLeader` speaks of the replicas that etcd knows of, because two flags may overlap.
- `check_redis` counts and adds in two round trips, so its window may be exceeded;
  `BoundedOvershoot` states by how much.
- `Limiter` is described as a token bucket and is a counter per fixed window; `rps` is used
  in headers only.
- `HandleAuditBatch` reports events as ingested and discards them.
- The LLM proxy meters and logs only requests an upstream answered (`UpstreamFails` does
  neither), although `README.md:45` says "Every request is authenticated, authorized, and
  audited". A document above the limit is cut off by `LimitReader` and
  answered with 400 instead of 413 (`ChatRejection`).
- A failed bind leaves `rust-gateway` up without a listener: `main` waits for a signal only
  (`GatewayStartup`), where the TLS gateway ends (`StartFailureEndsProcess`).
- An absent circuit-breaker section is the derived default, with threshold and
  `half_open_max_calls` 0, and not the `default_*` values (`Default`).
- The proxy accepts a token that names no expiry (`TimeOk`).
- "GCRA token bucket per identity" (`ARCHITECTURE.md:24`) is one cell for all callers
  (`cell` of `LocalRateLimit`).
- The engines of gateway and control plane differ on a policy without providers or without
  models: a wildcard for the one, no match for the other. `Validate` of the control plane
  would refuse such a policy, but nothing calls it. `EnginesDifferOnlyOnEmpty` states that
  there is no other difference.
- The deployment scales on `gateway_connections_active`, which nothing sets, and the
  integration test expects `gateway_requests_total`, which the TLS gateway never records.
- Of `gateway/src`, the default features include neither the token validator nor the
  policy engine, limiter and URL check; `rate_limit.rs` has one brace too many and
  `config.rs` is in no module tree. Two tests of `policy.rs` (`test_allowed_request`,
  `test_fail_closed_no_policies`) contradict each other.
- `forward` of the gateway sends no body and adds no security headers to what it returns
  (`ForwardSends`, `ForwardAnswered`), and no handler asks the token validator, limiter,
  policy engine, breaker or audit logger (`RouteRequest`).

## Proofs

`tlapm` proves every state invariant, action property and refinement the passing runs
check, for every value of the constants that satisfies the named assumptions, and so for
any number of peers, callers, requests, events or threads. Modules of proofs belong to
the module their run checks; components of one run keep their own specification (`R!Spec`,
`G!Spec`), and a theorem speaks of the ones its property is about.

Assumptions (`ASSUME`, evaluated by TLC in every passing run): counts and bounds are natural
numbers; sets whose elements are counted (peers, connections, callers, threads) are finite;
queue, batch, quota, limit and the project's window are not 0; the clock may reach the end of
a first window; the health checker's failure count is not capped below its threshold of 3;
some domain is approved at the start, as in `new_with_defaults`; a record function updates at
least one family and none twice.

- **GatewayServer_proofs**. `TypeOK`, `BackPressure` and `DrainSeesEveryConnection` are not
  inductive: they do not say where a permit is. The invariant `IInv` adds that permits in
  the semaphore, the one in the accept loop's hands and those of the connection tasks add
  up to `Limit` (`PermitAccounting`), that the counter is the number of tasks between count
  and uncount, plus one while the loop has counted and not yet spawned (`CountAccounting`),
  that the connection in the loop's hands has no task (`LoopOwnsCur`), and that nothing is
  counted once a drain has completed (`NothingCounted`). One lemma per group of actions;
  cardinalities change by one, by the theorems on finite sets.
- **UpstreamGuards_proofs**. Breaker: `ClosedIffBelowThreshold` and `HalfOpenAdmits` are
  inductive together with the types and the fact that a breaker that is not closed has a
  failure on record and as many failures as the threshold; the action property
  `ProbeFailureReopens` follows, since in half-open one more failure opens. Registry:
  `SharedBreaker` is inductive once nobody holds the absent breaker (`RegistryInv`); the
  creation under the write lock looks again, so it fills only an entry nobody has read.
  Health: the count the code keeps is the number of probes missed in a row (`HealthInv`).
- **LeaderElection_proofs**. `OneLiveLeader` needs two facts: live sessions have different
  keys (`DistinctKeys`), and a replica past the wait of its campaign, as long as its key
  exists, has the smallest key there is (`VictorFirst`). A put takes a larger revision than
  all before, so it disturbs neither.
- **RateLimiters_proofs**. Gateway with Redis: `BoundedOvershoot` counts the members present
  and the checks about to add theirs; a check joins these only when it saw fewer than
  `Limit` members, and adding moves one from the second count to the first. Project: a key
  expires after its window has ended, so until then the window's counter is at least what was
  granted and what is promised to checks past their `INCR`, errors apart; afterwards no check
  of the window begins, and each one under way is granted at most once, whatever count it
  gets from a key made anew (`WindowInv`). Local: each call let through moves the cell by at
  least one; what passed since instant `a` is at most how far the cell is ahead of `a`, plus
  one for each caller that had read the clock before `a` and has decided since (`LocalInv`).
- **AuditPipelines_proofs**. The batch followed by the channel is the end of what was accepted
  (`EndsWith`); so a batch that leaves is the next run of `AuditTrail`, and each step maps to
  `Accept`, `Settle`, `Late` or a stutter: both refinements. For `CleanClose` and
  `NoWriteAfterClose` the invariant relates the places of worker and closer (`WorkerInv`,
  `CloserInv`). From the refinement and an invariant of the abstract trail (`Once`: what is
  stored and what is in limbo are disjoint pieces of what was settled, without repetition)
  follows for both pipelines that no event is stored twice and none that was not taken in
  (`NothingStoredTwice`, `NothingReceivedTwice`), however late a commit or a request takes
  effect.
- **TlsGateway_proofs**. `ActiveIsExact`, and from it the counter's range in `TypeOK`, need
  that the connection the accept loop holds between accept and spawn has been counted
  (`LoopHoldsCur`); then each step moves one connection into the count, out of it, or
  within it.
- **RequestPaths_proofs**. Gateway: what `forward` holds has a sound body and a URL, and what
  was sent belongs to a request that is past collecting, whose input no longer changes
  (`HandlerInv`). Proxy: each place of the chain implies what the middlewares before it
  checked (`Checked`), a forwarded request is past its handler, so it is forwarded once
  (`ForwardedOnce`), what is metered was received by an upstream and is on its way to the
  audit log or in it (`Accounted`), and what was received, answered and not logged was
  answered with 502 (`Failed`). Metrics: one thread at most runs the closure of a cell
  (`Cells`); a family's value is the calls that returned plus the threads past it, and the
  calls begun are those that returned plus the threads under way (`Balance`); a scrape lies
  between (`Scrape`).
- **Access_proofs**. Policies: during a walk no policy before `next` of the loaded list
  matches; so the verdict is the first match of that list, whatever was published meanwhile.
  `EnginesDifferOnlyOnEmpty` compares the two matchings rule by rule: for a set that is not
  empty they are the same test. URLs: the list of approved domains only grows, so the TLS
  gateway never comes to the empty list that would approve every host.

Only model-checked: the liveness properties (`ExitsAfterSignal`, `RecoversWithUpstream`,
`HealthConverges`, `LeaderEmerges`, `EveryEventSettles`, `EveryEventLeaves`,
`EveryForwardEnds`, `StartFailureEndsProcess`), because fairness and `ENABLED` are outside the
prover's reach, and the violated properties, whose counterexamples TLC gives. Of
`GatewayStartup`, `TokenValidation` and `ControlPlaneRateLimit` there is one violated property
each and no theorem.

## Not modelled

- Prompt inspection (`internal/policy/engine.go`): called by no handler.
- Response cache (`rust-gateway/src/cache.rs`): a wrapper of `moka` that no handler calls;
  expiry and eviction are the crate's.
- The TLS gateway's local limiter, which does not compile with its feature.
- Stores and migrations of the control plane; its refresh, revoke and introspect handlers,
  heartbeat and secret status, which answer with constants.
- Labels, buckets and spans; the metrics of the Go programs; deployment files, dashboards.
- Header filtering and message formats; the time a peer takes to send a body or to finish
  a TLS handshake, neither of which the code bounds.

## Plan

Done, in this order: server life cycle, breaker, leader election, limiters, audit with its
abstract specification, request paths, policies, TLS gateway, health; then start and
configuration, forwarding of the TLS gateway, metrics, tokens, URL checks, local limiter;
then the proofs of every safety property and both refinements. Next:

1. Composition of `LLMProxy` with `ProjectRateLimit` and `AuditLogger` in place of its
   number and its call, and the proof that it implements `LLMProxy`.
2. The safety parts of the liveness arguments, as lemmas: what the state is when a drain, an
   election or a flush waits, and that the step it waits for is possible there.
