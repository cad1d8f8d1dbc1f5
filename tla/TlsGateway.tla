------------------------------ MODULE TlsGateway ------------------------------
(***************************************************************************)
(* The gateway of gateway/src: run_server and handle_request of server.rs,  *)
(* load_tls_config of tls.rs, main of main.rs, route_request of router.rs   *)
(* and forward of proxy.rs.  Every connection is accepted, counted and      *)
(* served by a task of its own, which starts with the TLS handshake; main   *)
(* ends the process on a signal or when run_server returns.                 *)
(*                                                                          *)
(* The connection builder sets header_read_timeout and no timer.  What      *)
(* serve_connection of the hyper crate makes of that is external: it either *)
(* insists on a timer and panics, as the version in Cargo.lock does, or     *)
(* serves without the timeout.  A panic ends the process (panic = "abort"   *)
(* in the release profile, which the image is built with).                  *)
(***************************************************************************)
EXTENDS Naturals, FiniteSets

CONSTANTS Conn, NoConn,
          NeedsTimer   \* what hyper may do about a timeout without a timer: a set of BOOLEANs

ASSUME TlsGatewayAssumption ==
    /\ IsFiniteSet(Conn) /\ NoConn \notin Conn
    /\ NeedsTimer \subseteq BOOLEAN /\ NeedsTimer # {}

VARIABLES main,      \* "select", "exited", or "aborted" by a panic
          server,    \* "bind", "load_tls", "accept", "spawn", "failed"
          cur,       \* the connection between accept and spawn
          conn,      \* per connection: where its task is
          active,    \* ACTIVE_CONNECTIONS
          insists    \* hyper: a timeout without a timer is a panic

vars == <<main, server, cur, conn, active, insists>>

ConnStates == {"none", "accepted", "handshake", "serve", "idle", "sending", "reading",
               "ended", "closed"}

Running == main = "select"
Goto(c, l) == conn' = [conn EXCEPT ![c] = l]

Init ==
    /\ main = "select"
    /\ server = "bind"
    /\ cur = NoConn
    /\ conn = [c \in Conn |-> "none"]
    /\ active = 0
    /\ insists \in NeedsTimer

-----------------------------------------------------------------------------
(* run_server                                                                *)

Bind ==
    /\ Running
    /\ server = "bind"
    /\ server' \in {"load_tls", "failed"}
    /\ UNCHANGED <<main, cur, conn, active, insists>>

\* load_tls_config reads the certificate chain and the first PKCS#8 key, any of which
\* may be missing, or not fit together.
LoadTlsConfig == {"accept", "failed"}

\* It comes after bind: until it has returned, connections wait in the listener's backlog.
LoadTls ==
    /\ Running
    /\ server = "load_tls"
    /\ server' \in LoadTlsConfig
    /\ UNCHANGED <<main, cur, conn, active, insists>>

\* accept returned a connection, which is counted.  An error is logged and the loop
\* goes on at once; there is no limit on connections.
Accept(c) ==
    /\ Running
    /\ server = "accept"
    /\ conn[c] = "none"
    /\ Goto(c, "accepted")
    /\ active' = active + 1
    /\ cur' = c
    /\ server' = "spawn"
    /\ UNCHANGED <<main, insists>>

Spawn ==
    /\ Running
    /\ server = "spawn"
    /\ Goto(cur, "handshake")
    /\ cur' = NoConn
    /\ server' = "accept"
    /\ UNCHANGED <<main, active, insists>>

-----------------------------------------------------------------------------
(* The task of a connection                                                  *)

HandshakeDone(c) ==
    /\ Running
    /\ conn[c] = "handshake"
    /\ Goto(c, "serve")
    /\ UNCHANGED <<main, server, cur, active, insists>>

\* fetch_sub on the way out of a failed handshake (mutant: forgotten).
UncountFailedForgotten == active' = active
UncountFailed          == active' = active - 1

HandshakeFails(c) ==
    /\ Running
    /\ conn[c] = "handshake"
    /\ UncountFailed
    /\ Goto(c, "closed")
    /\ UNCHANGED <<main, server, cur, insists>>

\* http1::Builder::new() ... serve_connection.
ServeConnection(c) ==
    /\ Running
    /\ conn[c] = "serve"
    /\ IF insists
       THEN main' = "aborted" /\ UNCHANGED conn
       ELSE Goto(c, "idle") /\ UNCHANGED main
    /\ UNCHANGED <<server, cur, active, insists>>

\* handle_request of anything but the probes, which are answered at once: route_request
\* and forward, which sends method, URL and seven headers, without the body.
RouteRequest(c) ==
    /\ Running
    /\ conn[c] = "idle"
    /\ Goto(c, "sending")
    /\ UNCHANGED <<main, server, cur, active, insists>>

\* send() returned the head of the upstream's answer: its status and two of its headers
\* are taken over, its body is still to be read.
ForwardHead(c) ==
    /\ Running
    /\ conn[c] = "sending"
    /\ Goto(c, "reading")
    /\ UNCHANGED <<main, server, cur, active, insists>>

\* bytes() returned the body: the answer goes to the client.
ForwardBody(c) ==
    /\ Running
    /\ conn[c] = "reading"
    /\ Goto(c, "idle")
    /\ UNCHANGED <<main, server, cur, active, insists>>

\* Where forward may return an error, at the latest when the client's 30 seconds are
\* over (mutant: the timeout covers the head only).
MayFailOnHead(c) == conn[c] = "sending"
MayFail(c)       == conn[c] \in {"sending", "reading"}

\* route_request makes a 502 of it.
ForwardFails(c) ==
    /\ Running
    /\ MayFail(c)
    /\ Goto(c, "idle")
    /\ UNCHANGED <<main, server, cur, active, insists>>

\* serve_connection returns: the peer closed, broke off or timed out.
ConnectionEnds(c) ==
    /\ Running
    /\ conn[c] \in {"idle", "sending", "reading"}
    /\ Goto(c, "ended")
    /\ UNCHANGED <<main, server, cur, active, insists>>

Uncount(c) ==
    /\ Running
    /\ conn[c] = "ended"
    /\ active' = active - 1
    /\ Goto(c, "closed")
    /\ UNCHANGED <<main, server, cur, insists>>

\* A peer that left comes back.
Reconnect(c) ==
    /\ Running
    /\ conn[c] = "closed"
    /\ Goto(c, "none")
    /\ UNCHANGED <<main, server, cur, active, insists>>

-----------------------------------------------------------------------------
(* main                                                                      *)

\* SIGINT or SIGTERM: main returns, the runtime drops every task.
Signal ==
    /\ Running
    /\ main' = "exited"
    /\ UNCHANGED <<server, cur, conn, active, insists>>

\* result = &mut server_handle (mutant: main waits for a signal only).
JoinsServerNever == FALSE
JoinsServer      == server = "failed"

ServerStopped ==
    /\ Running
    /\ JoinsServer
    /\ main' = "exited"
    /\ UNCHANGED <<server, cur, conn, active, insists>>

Ended == ~Running /\ UNCHANGED vars

Task(c) ==
    \/ HandshakeDone(c) \/ HandshakeFails(c) \/ ServeConnection(c)
    \/ RouteRequest(c) \/ ForwardHead(c) \/ ForwardBody(c) \/ ForwardFails(c)
    \/ ConnectionEnds(c) \/ Uncount(c) \/ Reconnect(c)

Next ==
    \/ Bind \/ LoadTls \/ Spawn
    \/ \E c \in Conn : Accept(c) \/ Task(c)
    \/ Signal \/ ServerStopped \/ Ended

Spec == Init /\ [][Next]_vars

\* The runtime polls what can go on, and the client of forward keeps its timeout; no
\* peer and no upstream is assumed to do anything.
Fairness ==
    /\ WF_vars(Bind) /\ WF_vars(LoadTls) /\ WF_vars(ServerStopped)
    /\ \A c \in Conn : WF_vars(ForwardFails(c))

FairSpec == Spec /\ Fairness

-----------------------------------------------------------------------------
\* Every variable has its type; the unsigned counter does not wrap.
TypeOK ==
    /\ main \in {"select", "exited", "aborted"}
    /\ server \in {"bind", "load_tls", "accept", "spawn", "failed"}
    /\ cur \in Conn \cup {NoConn}
    /\ conn \in [Conn -> ConnStates]
    /\ active \in 0 .. Cardinality(Conn)
    /\ insists \in NeedsTimer

\* After any history of connections, failed handshakes included, the counter that
\* active_connections() returns is the number of connections there are.
ActiveIsExact ==
    active = Cardinality({c \in Conn : conn[c] \notin {"none", "closed"}})

\* A gateway that cannot bind or cannot load its certificate does not stay up without a
\* listener: the process ends.
StartFailureEndsProcess == (server = "failed") ~> (main = "exited")

\* A request that was handed to forward is answered, or its connection or the process is
\* gone, whatever the upstream does: also when it breaks off in the body of its answer.
ForwardEnds ==
    \A c \in Conn :
        (conn[c] \in {"sending", "reading"})
            ~> (conn[c] \notin {"sending", "reading"} \/ ~Running)

\* "Client -> Gateway: TLS 1.3 connection" of the architecture document, and the HTTPS
\* probes of /healthz in the deployment: a client that completed its handshake is served,
\* and no connection brings the process down.
ServesConnections == main # "aborted"
=============================================================================
