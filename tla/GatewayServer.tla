---------------------------- MODULE GatewayServer ----------------------------
(***************************************************************************)
(* The life cycle of the Rust gateway process: AppGateServer::run in        *)
(* rust-gateway/src/server.rs (accept loop, connection semaphore, counter   *)
(* of active connections, drain) and the shutdown half of main in           *)
(* rust-gateway/src/main.rs.                                                *)
(*                                                                          *)
(* Four kinds of tasks interleave on the multi-threaded runtime: main, the  *)
(* accept loop, the task that forwards the shutdown broadcast to the        *)
(* Notify, and one task per admitted connection.  What a connection serves  *)
(* is left to other modules; here it is open until its handler returns.     *)
(*                                                                          *)
(* Time is counted from the moment main sends the shutdown broadcast.  One  *)
(* tick stands for a time far longer than a poll of a task, so it does not  *)
(* pass while the forwarder or the accept loop is runnable; timers fire at  *)
(* or after their deadline.                                                 *)
(***************************************************************************)
EXTENDS Naturals, FiniteSets

CONSTANTS Conn,       \* peers; each may connect again after it was closed
          Limit,      \* permits of connection_limit (10000 in the code)
          MaxWait,    \* SHUTDOWN_MAX_WAIT_SECS and main's own timeout, in ticks
          MaxTime,    \* bound of the clock
          NoConn      \* "no connection in the accept loop's hands"

ASSUME GatewayServerAssumption ==
    /\ IsFiniteSet(Conn)
    /\ NoConn \notin Conn
    /\ Limit \in Nat \ {0}
    /\ MaxWait \in Nat
    /\ MaxTime \in Nat
    /\ MaxTime > MaxWait

VARIABLES
    main,       \* "serving": awaits a signal; "waiting": awaits server_handle
    elapsed,    \* time since the broadcast was sent
    forwarder,  \* the spawned task that turns the broadcast into a notification
    loop,       \* where AppGateServer::run is
    cur,        \* the connection accept() handed to the loop
    drainStart, \* drain_start, on the same clock
    conn,       \* per peer: where its connection is
    permits,    \* available permits of connection_limit
    active      \* ACTIVE_CONNECTIONS

vars == <<main, elapsed, forwarder, loop, cur, drainStart, conn, permits, active>>

MainStates      == {"serving", "waiting", "exited"}
ForwarderStates == {"none", "recv", "done"}
\* bind: before TcpListener::bind returned; enter: about to enter select! (the
\* Notified future of this iteration does not exist yet); select: parked in
\* select!; woken: that future was notified; accepted, admitted, counted: in the
\* body after accept() returned, after try_acquire_owned and after fetch_add;
\* forced: run returned because the drain timed out.
LoopStates == {"bind", "enter", "select", "woken", "accepted", "admitted",
               "counted", "draining", "returned", "forced"}
\* closed: no connection; open: its task runs handle_connection; handled: that
\* returned; uncounted: fetch_sub done, the permit still held.
ConnStates == {"closed", "accepted", "open", "handled", "uncounted"}

Init ==
    /\ main = "serving"
    /\ elapsed = 0
    /\ forwarder = "none"
    /\ loop = "bind"
    /\ cur = NoConn
    /\ drainStart = 0
    /\ conn = [c \in Conn |-> "closed"]
    /\ permits = Limit
    /\ active = 0

Alive == main # "exited"
\* AppGateServer::run has returned, so server_handle is complete.
Returned == loop \in {"returned", "forced"}


-----------------------------------------------------------------------------
(* main                                                                      *)

\* SIGINT or SIGTERM ends main's select!; the broadcast is sent at once and the
\* 30 s timeout on server_handle starts.
Signal ==
    /\ main = "serving"
    /\ main' = "waiting"
    /\ UNCHANGED <<elapsed, forwarder, loop, cur, drainStart, conn, permits, active>>

\* server_handle completes; returning from main ends every other task.
MainJoin ==
    /\ main = "waiting"
    /\ Returned
    /\ main' = "exited"
    /\ UNCHANGED <<elapsed, forwarder, loop, cur, drainStart, conn, permits, active>>

\* The timeout on server_handle (mutant: it is awaited without one).
MainDeadlineMissing == FALSE
MainDeadline        == elapsed >= MaxWait

\* The timeout elapses first.
MainTimeout ==
    /\ main = "waiting"
    /\ ~Returned
    /\ MainDeadline
    /\ main' = "exited"
    /\ UNCHANGED <<elapsed, forwarder, loop, cur, drainStart, conn, permits, active>>

-----------------------------------------------------------------------------
(* AppGateServer::run                                                        *)

\* The listener is bound and the forwarder task is spawned.
Bind ==
    /\ Alive
    /\ loop = "bind"
    /\ loop' = "enter"
    /\ forwarder' = "recv"
    /\ UNCHANGED <<main, elapsed, cur, drainStart, conn, permits, active>>

\* run returns the error, which its task logs; main keeps waiting for a signal.
BindFails ==
    /\ Alive
    /\ loop = "bind"
    /\ loop' = "returned"
    /\ UNCHANGED <<main, elapsed, forwarder, cur, drainStart, conn, permits, active>>

\* rx.recv() yields the broadcast, buffered since Signal, and notify_waiters
\* wakes the Notified futures that exist now.  It stores nothing: when the loop
\* is not inside select!, no future is there to be woken.
Forward ==
    /\ Alive
    /\ forwarder = "recv"
    /\ main = "waiting"
    /\ forwarder' = "done"
    /\ loop' = IF loop = "select" THEN "woken" ELSE loop
    /\ UNCHANGED <<main, elapsed, cur, drainStart, conn, permits, active>>

\* A new iteration creates a new Notified future and polls both branches.
EnterSelect ==
    /\ Alive
    /\ loop = "enter"
    /\ loop' = "select"
    /\ UNCHANGED <<main, elapsed, forwarder, cur, drainStart, conn, permits, active>>

\* shutdown.notified() is polled first (biased): break, and the drain starts.
StopAccepting ==
    /\ Alive
    /\ loop = "woken"
    /\ loop' = "draining"
    /\ drainStart' = elapsed
    /\ UNCHANGED <<main, elapsed, forwarder, cur, conn, permits, active>>

\* listener.accept() yields a connection.
Accept(c) ==
    /\ Alive
    /\ loop = "select"
    /\ conn[c] = "closed"
    /\ loop' = "accepted"
    /\ cur' = c
    /\ conn' = [conn EXCEPT ![c] = "accepted"]
    /\ UNCHANGED <<main, elapsed, forwarder, drainStart, permits, active>>

\* listener.accept() yields an error: continue.
AcceptError ==
    /\ Alive
    /\ loop = "select"
    /\ loop' = "enter"
    /\ UNCHANGED <<main, elapsed, forwarder, cur, drainStart, conn, permits, active>>

\* try_acquire_owned succeeds.
Admit ==
    /\ Alive
    /\ loop = "accepted"
    /\ permits > 0
    /\ permits' = permits - 1
    /\ loop' = "admitted"
    /\ UNCHANGED <<main, elapsed, forwarder, cur, drainStart, conn, active>>

\* try_acquire_owned fails: the stream is dropped and the loop continues.
Reject ==
    /\ Alive
    /\ loop = "accepted"
    /\ permits = 0
    /\ loop' = "enter"
    /\ conn' = [conn EXCEPT ![cur] = "closed"]
    /\ cur' = NoConn
    /\ UNCHANGED <<main, elapsed, forwarder, drainStart, permits, active>>

\* ACTIVE_CONNECTIONS.fetch_add in the accept loop (mutant: left to the task, which
\* has not run yet when the loop goes on).
FetchAddLater == UNCHANGED active
FetchAdd      == active' = active + 1

\* The connection is counted before its task exists.
CountConnection ==
    /\ Alive
    /\ loop = "admitted"
    /\ FetchAdd
    /\ loop' = "counted"
    /\ UNCHANGED <<main, elapsed, forwarder, cur, drainStart, conn, permits>>

\* `let _permit = permit` moves the permit into the task (mutant: `let _ = permit`
\* drops it at once).
PermitDropped == permits' = permits + 1
PermitMoved   == UNCHANGED permits

\* tokio::spawn of the connection's task.
SpawnConnection ==
    /\ Alive
    /\ loop = "counted"
    /\ PermitMoved
    /\ loop' = "enter"
    /\ conn' = [conn EXCEPT ![cur] = "open"]
    /\ cur' = NoConn
    /\ UNCHANGED <<main, elapsed, forwarder, drainStart, active>>

\* The drain loop reads 0 and run returns.
DrainComplete ==
    /\ Alive
    /\ loop = "draining"
    /\ active = 0
    /\ loop' = "returned"
    /\ UNCHANGED <<main, elapsed, forwarder, cur, drainStart, conn, permits, active>>

\* Connections remain and the drain's own deadline has passed.
DrainTimeout ==
    /\ Alive
    /\ loop = "draining"
    /\ active > 0
    /\ elapsed > drainStart + MaxWait
    /\ loop' = "forced"
    /\ UNCHANGED <<main, elapsed, forwarder, cur, drainStart, conn, permits, active>>

-----------------------------------------------------------------------------
(* The task of one connection                                                *)

\* handle_connection returns: the peer closed, an error, or a timeout.
ConnectionEnds(c) ==
    /\ Alive
    /\ conn[c] = "open"
    /\ conn' = [conn EXCEPT ![c] = "handled"]
    /\ UNCHANGED <<main, elapsed, forwarder, loop, cur, drainStart, permits, active>>

\* ACTIVE_CONNECTIONS.fetch_sub.
UncountConnection(c) ==
    /\ Alive
    /\ conn[c] = "handled"
    /\ conn' = [conn EXCEPT ![c] = "uncounted"]
    /\ active' = active - 1
    /\ UNCHANGED <<main, elapsed, forwarder, loop, cur, drainStart, permits>>

\* The task ends and _permit is dropped.
ReleasePermit(c) ==
    /\ Alive
    /\ conn[c] = "uncounted"
    /\ conn' = [conn EXCEPT ![c] = "closed"]
    /\ permits' = permits + 1
    /\ UNCHANGED <<main, elapsed, forwarder, loop, cur, drainStart, active>>

-----------------------------------------------------------------------------
\* Time passes after the signal while neither the forwarder nor the accept loop
\* can run.
Tick ==
    /\ main = "waiting"
    /\ forwarder # "recv"
    /\ loop \in {"select", "draining", "returned", "forced"}
    /\ elapsed < MaxTime
    /\ elapsed' = elapsed + 1
    /\ UNCHANGED <<main, forwarder, loop, cur, drainStart, conn, permits, active>>

\* The process has ended.
Exited ==
    /\ main = "exited"
    /\ UNCHANGED vars

Next ==
    \/ Signal \/ MainJoin \/ MainTimeout
    \/ Bind \/ BindFails \/ Forward
    \/ EnterSelect \/ StopAccepting \/ AcceptError
    \/ \E c \in Conn : Accept(c)
    \/ Admit \/ Reject \/ CountConnection \/ SpawnConnection
    \/ DrainComplete \/ DrainTimeout
    \/ \E c \in Conn : ConnectionEnds(c) \/ UncountConnection(c) \/ ReleasePermit(c)
    \/ Tick \/ Exited

Spec == Init /\ [][Next]_vars

LoopStep ==
    \/ Bind \/ BindFails \/ EnterSelect \/ StopAccepting \/ Admit \/ Reject
    \/ CountConnection \/ SpawnConnection \/ DrainComplete \/ DrainTimeout

\* The runtime runs every runnable task, and time passes: the timers of main and
\* of the drain fire.  Peers owe nothing: no fairness for Accept, for the end of a
\* connection, or for the signal.  Time is strongly fair because a stream of
\* accepted connections keeps interrupting the moments in which it may pass.
FairSpec ==
    /\ Spec
    /\ WF_vars(MainJoin) /\ WF_vars(MainTimeout)
    /\ WF_vars(Forward) /\ WF_vars(LoopStep)
    /\ \A c \in Conn : WF_vars(UncountConnection(c)) /\ WF_vars(ReleasePermit(c))
    /\ SF_vars(Tick)

-----------------------------------------------------------------------------
\* The connections whose task was spawned and has not run fetch_sub yet.
CountedTasks == {c \in Conn : conn[c] \in {"open", "handled"}}
\* The connections whose task holds a permit.
PermitTasks  == {c \in Conn : conn[c] \in {"open", "handled", "uncounted"}}

\* Every variable has its type; the counter of active connections stays within
\* the semaphore's size, so the AtomicUsize never wraps below zero.
TypeOK ==
    /\ main \in MainStates
    /\ elapsed \in 0 .. MaxTime
    /\ forwarder \in ForwarderStates
    /\ loop \in LoopStates
    /\ cur \in Conn \cup {NoConn}
    /\ drainStart \in 0 .. MaxTime
    /\ conn \in [Conn -> ConnStates]
    /\ permits \in 0 .. Limit
    /\ active \in 0 .. Limit

\* Back-pressure (connection_limit in run): at no interleaving of the accept loop
\* with ending connections are there more connection tasks than permits, and the
\* gauge ACTIVE_CONNECTIONS never shows more connections than hold a permit.
BackPressure ==
    /\ Cardinality(PermitTasks) <= Limit - permits
    /\ active <= Limit - permits

\* Graceful drain (run, after the accept loop): when the server returned without
\* hitting the drain timeout, no connection task is still being served.  This
\* needs fetch_add to happen before the task is spawned and fetch_sub after its
\* handler returned.
DrainSeesEveryConnection ==
    loop = "returned" => CountedTasks = {}

\* The process ends after a signal whatever the connections do: either the server
\* returned or the timeout in main fired.
ExitsAfterSignal == (main = "waiting") ~> (main = "exited")

\* The header of server.rs promises a graceful shutdown with a 30 s drain: when the
\* process ends, the accept loop had been left and the drain begun.
ExitsThroughDrain ==
    main = "exited" => loop \in {"draining", "returned", "forced"}
=============================================================================
