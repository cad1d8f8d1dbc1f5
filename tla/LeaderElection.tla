---------------------------- MODULE LeaderElection ----------------------------
(***************************************************************************)
(* Leader election of the control-plane replicas: Elector of                *)
(* control-plane/internal/leader/leader.go, the parts of                    *)
(* control-plane/cmd/server/main.go that start and stop it and answer       *)
(* /readyz, and the leader check of the policy write handlers in            *)
(* control-plane/internal/api/api.go.                                       *)
(*                                                                          *)
(* etcd and its concurrency package are external.  A campaign puts a key    *)
(* bound to the session's lease and waits until no key of a smaller         *)
(* revision exists; it does not look at its own key again.  A lease that    *)
(* is not kept alive expires, which deletes its key.  While net is "flaky"  *)
(* calls to etcd may fail, leases expire and processes die; from the moment *)
(* it is "stable" none of that happens any more.                            *)
(***************************************************************************)
EXTENDS Naturals

CONSTANTS Replica,
          MaxFlaky,   \* bound on the keys put while the network is flaky
          MaxRev      \* bound on all keys ever put

ASSUME LeaderElectionAssumption ==
    /\ MaxFlaky \in Nat
    /\ MaxRev \in Nat

VARIABLES
    pc,       \* per replica: where Elector.Run is
    ctx,      \* per replica: the context main cancels at shutdown
    leaders,  \* replicas whose isLeader is true
    healthy,  \* replicas whose isHealthy is true
    my,       \* per replica: revision of its session's key, 0 before the put
    keys,     \* etcd: revisions of the election keys that exist
    rev,      \* etcd: the last revision given to a key
    net

vars == <<pc, ctx, leaders, healthy, my, keys, rev, net>>

\* down: no process; standalone: no etcd at start, elector is nil; start: top of the
\* loop in Run; put, wait: in Campaign before and after its put; won: Campaign
\* returned; leading: in the second select; expired: session.Done() was chosen;
\* resigned: the key was deleted, the flag not yet cleared; returned: Run returned.
PCs == {"down", "standalone", "start", "put", "wait", "won", "leading", "expired",
        "resigned", "backoff", "returned"}

Up(r) == pc[r] # "down"
Goto(r, l) == pc' = [pc EXCEPT ![r] = l]

Init ==
    /\ pc = [r \in Replica |-> "down"]
    /\ ctx = [r \in Replica |-> "live"]
    /\ leaders = {}
    /\ healthy = {}
    /\ my = [r \in Replica |-> 0]
    /\ keys = {}
    /\ rev = 0
    /\ net = "flaky"

-----------------------------------------------------------------------------
(* The process: main                                                         *)

\* etcd is reachable: NewElector (isHealthy true) and go elector.Run(ctx).
Start(r) ==
    /\ net = "flaky"
    /\ pc[r] = "down"
    /\ Goto(r, "start")
    /\ ctx' = [ctx EXCEPT ![r] = "live"]
    /\ healthy' = healthy \cup {r}
    /\ UNCHANGED <<leaders, my, keys, rev, net>>

\* etcd is not reachable at start: the elector stays nil for the process's life.
StartStandalone(r) ==
    /\ net = "flaky"
    /\ pc[r] = "down"
    /\ Goto(r, "standalone")
    /\ ctx' = [ctx EXCEPT ![r] = "live"]
    /\ UNCHANGED <<leaders, healthy, my, keys, rev, net>>

\* SIGTERM: the HTTP server is shut down, then cancel().
Shutdown(r) ==
    /\ net = "flaky"
    /\ Up(r)
    /\ ctx[r] = "live"
    /\ ctx' = [ctx EXCEPT ![r] = "cancelled"]
    /\ UNCHANGED <<pc, leaders, healthy, my, keys, rev, net>>

\* The process ends: main returns after cancel() without waiting for Run, or it
\* crashes.  What it held in etcd stays until its lease expires.
ProcessEnds(r) ==
    /\ Up(r)
    /\ ctx[r] = "cancelled" \/ net = "flaky"
    /\ Goto(r, "down")
    /\ leaders' = leaders \ {r}
    /\ healthy' = healthy \ {r}
    /\ my' = [my EXCEPT ![r] = 0]
    /\ UNCHANGED <<ctx, keys, rev, net>>

-----------------------------------------------------------------------------
(* Elector.Run                                                               *)

\* Top of the loop: the context is done.
LoopExit(r) ==
    /\ pc[r] = "start"
    /\ ctx[r] = "cancelled"
    /\ Goto(r, "returned")
    /\ UNCHANGED <<ctx, leaders, healthy, my, keys, rev, net>>

\* createSession succeeds; NewElection is local.
CreateSession(r) ==
    /\ pc[r] = "start"
    /\ ctx[r] = "live"
    /\ Goto(r, "put")
    /\ my' = [my EXCEPT ![r] = 0]
    /\ UNCHANGED <<ctx, leaders, healthy, keys, rev, net>>

\* createSession fails: setHealthy(false), sleep.
CreateSessionFails(r) ==
    /\ net = "flaky"
    /\ pc[r] = "start"
    /\ ctx[r] = "live"
    /\ Goto(r, "backoff")
    /\ healthy' = healthy \ {r}
    /\ UNCHANGED <<ctx, leaders, my, keys, rev, net>>

\* The sleep ends: continue.
BackoffEnds(r) ==
    /\ pc[r] = "backoff"
    /\ Goto(r, "start")
    /\ UNCHANGED <<ctx, leaders, healthy, my, keys, rev, net>>

\* Campaign (external), first half: the key is put under the session's lease.
PutKey(r) ==
    /\ pc[r] = "put"
    /\ rev < (IF net = "flaky" THEN MaxFlaky ELSE MaxRev)
    /\ Goto(r, "wait")
    /\ rev' = rev + 1
    /\ keys' = keys \cup {rev + 1}
    /\ my' = [my EXCEPT ![r] = rev + 1]
    /\ UNCHANGED <<ctx, leaders, healthy, net>>

\* Campaign (external), second half: no key of a smaller revision is left.
WaitDeletes(r) ==
    /\ pc[r] = "wait"
    /\ \A k \in keys : k >= my[r]
    /\ Goto(r, "won")
    /\ UNCHANGED <<ctx, leaders, healthy, my, keys, rev, net>>

\* Campaign returns an error, because of the network or because ctx was cancelled:
\* session.Close() revokes the lease if it reaches etcd, setHealthy(false), sleep.
CampaignFails(r) ==
    /\ pc[r] \in {"put", "wait"}
    /\ net = "flaky" \/ ctx[r] = "cancelled"
    /\ \/ keys' = keys \ {my[r]}
       \/ net = "flaky" /\ UNCHANGED keys
    /\ healthy' = healthy \ {r}
    /\ Goto(r, "backoff")
    /\ UNCHANGED <<ctx, leaders, my, rev, net>>

\* Campaign returned nil: isLeader = true, isHealthy = true.
BecomeLeader(r) ==
    /\ pc[r] = "won"
    /\ leaders' = leaders \cup {r}
    /\ healthy' = healthy \cup {r}
    /\ Goto(r, "leading")
    /\ UNCHANGED <<ctx, my, keys, rev, net>>

\* session.Done() is closed: the keep-alive ended, after the lease expired or because
\* the client gave up (mutant: Run waits for ctx.Done() only).
SessionEndUnwatched(r) == FALSE
SessionEnded(r)        == my[r] \notin keys \/ net = "flaky"

\* The second select of Run chooses session.Done().  Nothing is revoked.
SessionDone(r) ==
    /\ pc[r] = "leading"
    /\ SessionEnded(r)
    /\ Goto(r, "expired")
    /\ UNCHANGED <<ctx, leaders, healthy, my, keys, rev, net>>

\* isLeader = false after the session (mutant: the flag is left for Campaign to set).
ClearLeaderForgotten(r) == UNCHANGED leaders
ClearLeader(r)          == leaders' = leaders \ {r}

\* The end of the loop body.
StepDown(r) ==
    /\ pc[r] = "expired"
    /\ ClearLeader(r)
    /\ Goto(r, "start")
    /\ UNCHANGED <<ctx, healthy, my, keys, rev, net>>

\* ctx.Done() while leading: election.Resign deletes the key ...
ResignKey(r) ==
    /\ pc[r] = "leading"
    /\ ctx[r] = "cancelled"
    /\ keys' = keys \ {my[r]}
    /\ Goto(r, "resigned")
    /\ UNCHANGED <<ctx, leaders, healthy, my, rev, net>>

\* ... and only then isLeader is cleared.
ResignFlag(r) ==
    /\ pc[r] = "resigned"
    /\ leaders' = leaders \ {r}
    /\ Goto(r, "returned")
    /\ UNCHANGED <<ctx, healthy, my, keys, rev, net>>

\* election.Resign fails or times out: Run returns with isLeader still true.
ResignFails(r) ==
    /\ net = "flaky"
    /\ pc[r] = "leading"
    /\ ctx[r] = "cancelled"
    /\ Goto(r, "returned")
    /\ UNCHANGED <<ctx, leaders, healthy, my, keys, rev, net>>

-----------------------------------------------------------------------------
(* etcd                                                                      *)

\* A session whose owner runs and has not ended it is kept alive.
KeptAlive(k) == \E r \in Replica : my[r] = k /\ pc[r] \in {"wait", "won", "leading"}

\* A lease expires and its key is deleted.
Expire(k) ==
    /\ net = "flaky" \/ ~KeptAlive(k)
    /\ keys' = keys \ {k}
    /\ UNCHANGED <<pc, ctx, leaders, healthy, my, rev, net>>

SomeLeaseExpires == \E k \in keys : Expire(k)

\* From now on the network and the processes behave.
Stabilise ==
    /\ net = "flaky"
    /\ net' = "stable"
    /\ UNCHANGED <<pc, ctx, leaders, healthy, my, keys, rev>>

RunStep(r) ==
    \/ LoopExit(r) \/ CreateSession(r) \/ BackoffEnds(r) \/ PutKey(r) \/ WaitDeletes(r)
    \/ BecomeLeader(r) \/ SessionDone(r) \/ StepDown(r) \/ ResignKey(r) \/ ResignFlag(r)

Failure(r) == CreateSessionFails(r) \/ CampaignFails(r) \/ ResignFails(r)

Next ==
    \/ \E r \in Replica : Start(r) \/ StartStandalone(r) \/ Shutdown(r) \/ ProcessEnds(r)
    \/ \E r \in Replica : RunStep(r)
    \/ \E r \in Replica : Failure(r)
    \/ SomeLeaseExpires
    \/ Stabilise

Spec == Init /\ [][Next]_vars

\* Goroutines run, leases that nobody keeps alive expire, and a campaign whose
\* context is cancelled returns.
FairSpec ==
    /\ Spec
    /\ \A r \in Replica : WF_vars(RunStep(r)) /\ WF_vars(ctx[r] = "cancelled" /\ CampaignFails(r))
    /\ WF_vars(SomeLeaseExpires)

-----------------------------------------------------------------------------
\* The check in HandleCreatePolicy, HandleUpdatePolicy and HandleDeletePolicy.
AcceptsWrites(r) ==
    /\ Up(r)
    /\ ctx[r] = "live"
    /\ pc[r] = "standalone" \/ r \in leaders

\* /readyz answers 200.
Ready(r) == pc[r] = "standalone" \/ r \in leaders \/ r \in healthy

\* Every variable has its type, and isLeader is set only from a victory of the replica's
\* present session to the end of that session.
TypeOK ==
    /\ pc \in [Replica -> PCs]
    /\ ctx \in [Replica -> {"live", "cancelled"}]
    /\ leaders \subseteq Replica
    /\ healthy \subseteq Replica
    /\ my \in [Replica -> 0 .. rev]
    /\ rev \in Nat
    /\ keys \subseteq 1 .. rev
    /\ net \in {"flaky", "stable"}
    /\ \A r \in leaders : pc[r] \in {"leading", "expired", "resigned", "returned"}

\* Among the replicas whose isLeader is set, at most one has its election key in etcd:
\* through expiries, failed revocations, resignations, crashes and new campaigns of the
\* same replica, two flags overlap only while one of them is known to be stale by etcd.
OneLiveLeader ==
    \A r, s \in leaders : my[r] \in keys /\ my[s] \in keys => r = s

\* Once etcd is stable and while some replica with an elector keeps running, a leader
\* emerges that etcd knows of and whose handlers accept policy writes, whatever keys and
\* flags the time before has left.
Candidate(r) == pc[r] \notin {"down", "standalone"} /\ ctx[r] = "live"
LeaderEmerges ==
    (net = "stable") ~> \/ \A r \in Replica : ~Candidate(r)
                        \/ \E r \in Replica : AcceptsWrites(r) /\ my[r] \in keys

\* The failover runbook verifies recovery by waiting until every control-plane pod is
\* ready: once etcd is stable again, every running replica becomes ready.
AllReadyAfterRecovery ==
    (net = "stable") ~> \A r \in Replica : Candidate(r) => Ready(r)
=============================================================================
