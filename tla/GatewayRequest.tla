---------------------------- MODULE GatewayRequest ----------------------------
(***************************************************************************)
(* The request path of rust-gateway: handle_request, route_request and      *)
(* handle_proxy of server.rs, Router::select of router.rs and               *)
(* ProxyClient::forward of proxy.rs.                                        *)
(*                                                                          *)
(* A handler is a future that hyper drops when its client goes away: it     *)
(* then stops at the await it has reached.  The upstream is external; the   *)
(* client of forward gives up after 30 seconds.  What the code tells apart  *)
(* of a request is its route and its body.                                  *)
(***************************************************************************)
EXTENDS Naturals, Sequences

CONSTANTS Request,
          Routes,    \* APPGATE_ROUTES: a sequence of [prefix, upstream]
          Default    \* config.upstream.default_url, "" when it is not set

Paths == {"/v1/proxy", "/v1/chat/completions"}

VARIABLES at,        \* per request: where its future is
          in,        \* per request: path and body; "probe" and "other" are not proxied
          url,       \* per request: the upstream chosen
          sent,      \* requests that went upstream: [request, url]
          status,    \* per request: the answer, 0 before it
          metered    \* requests recorded by metrics::record_request

vars == <<at, in, url, sent, status, metered>>

Bodies == {"empty", "json", "oversized", "broken"}
Inputs == [path : Paths \cup {"probe", "other"}, body : Bodies]

Init ==
    /\ at = [r \in Request |-> "new"]
    /\ in = [r \in Request |-> [path |-> "other", body |-> "empty"]]
    /\ url = [r \in Request |-> ""]
    /\ sent = {}
    /\ status = [r \in Request |-> 0]
    /\ metered = {}

Goto(r, l) == at' = [at EXCEPT ![r] = l]

\* A response of the gateway itself.
Respond(r, s) ==
    /\ Goto(r, "returning")
    /\ status' = [status EXCEPT ![r] = s]

-----------------------------------------------------------------------------
\* route_request: the probes, not_found_response, or handle_proxy, which starts to
\* collect the body.  None of jwt_validator, rate_limiter, policy_engine, ssrf_guard,
\* circuit_breaker and audit_logger of the state is used.
RouteRequest(r, i) ==
    /\ at[r] = "new"
    /\ in' = [in EXCEPT ![r] = i]
    /\ CASE i.path = "probe" -> Respond(r, 200)
         [] i.path = "other" -> Respond(r, 404)
         [] OTHER            -> Goto(r, "collecting") /\ UNCHANGED status
    /\ UNCHANGED <<url, sent, metered>>

\* Router::new: without configured routes there is one, to the default upstream.
RouteTable ==
    IF Routes = <<>>
    THEN << [prefix |-> {"/v1/chat/completions"}, upstream |-> Default] >>
    ELSE Routes

\* Router::select: the first route whose prefix the path starts with, or the default.
Matching(path) == {i \in DOMAIN RouteTable : path \in RouteTable[i].prefix}
Select(path) ==
    IF Matching(path) = {}
    THEN Default
    ELSE RouteTable[CHOOSE i \in Matching(path) : \A j \in Matching(path) : i <= j].upstream

\* body.len() > max_body_bytes (mutant: not looked at).
TooLargeUnchecked(r) == FALSE
TooLarge(r)          == in[r].body = "oversized"

\* The URI does not parse (mutant: not looked at).
NoUriUnchecked(r) == FALSE
NoUri(r)          == Select(in[r].path) = ""

\* The body has been collected (there is no limit on the time this takes) or could not
\* be read; the upstream request is built, which fails for an empty URI.
BodyCollected(r) ==
    /\ at[r] = "collecting"
    /\ url' = [url EXCEPT ![r] = Select(in[r].path)]
    /\ CASE in[r].body = "broken" -> Respond(r, 400)
         [] TooLarge(r)           -> Respond(r, 413)
         [] NoUri(r)              -> Respond(r, 500)
         [] OTHER -> Goto(r, "forwarding") /\ UNCHANGED status
    /\ UNCHANGED <<in, sent, metered>>

\* forward: method, URL and four headers go into the upstream request, the body does not.
ForwardSends(r) ==
    /\ at[r] = "forwarding"
    /\ sent' = sent \cup {[request |-> r, url |-> url[r]]}
    /\ Goto(r, "awaiting")
    /\ UNCHANGED <<in, url, status, metered>>

\* The upstream's answer, whatever its status, is passed on; 200 stands for it.
ForwardAnswered(r) ==
    /\ at[r] = "awaiting"
    /\ Goto(r, "returning")
    /\ status' = [status EXCEPT ![r] = 200]
    /\ UNCHANGED <<in, url, sent, metered>>

\* Where an upstream request may end in an error: connecting, or waiting for the
\* answer or its body, at the latest when the time is over (mutant: no timeout).
MayFailNever(r) == at[r] = "forwarding"
MayFail(r)      == at[r] \in {"forwarding", "awaiting"}

ForwardFails(r) ==
    /\ MayFail(r)
    /\ Respond(r, 502)
    /\ UNCHANGED <<in, url, sent, metered>>

\* handle_request: the access log line and record_request.
RequestCompleted(r) ==
    /\ at[r] = "returning"
    /\ metered' = metered \cup {r}
    /\ Goto(r, "done")
    /\ UNCHANGED <<in, url, sent, status>>

\* The client goes away: the future is dropped where it waits.
ClientGone(r) ==
    /\ at[r] \in {"collecting", "forwarding", "awaiting"}
    /\ Goto(r, "dropped")
    /\ UNCHANGED <<in, url, sent, status, metered>>

AllOver ==
    /\ \A r \in Request : at[r] \in {"done", "dropped"}
    /\ UNCHANGED vars

Step(r) == BodyCollected(r) \/ ForwardSends(r) \/ ForwardAnswered(r) \/ RequestCompleted(r)

Next ==
    \/ \E r \in Request : \E i \in Inputs : RouteRequest(r, i)
    \/ \E r \in Request : Step(r) \/ ForwardFails(r) \/ ClientGone(r)
    \/ AllOver

Spec == Init /\ [][Next]_vars

\* The runtime polls a handler that can go on, and the client of forward keeps its
\* timeout.  Neither the peer's sending of the body nor the upstream's answer is assumed.
FairSpec ==
    /\ Spec
    /\ \A r \in Request : WF_vars(ForwardSends(r) \/ ForwardFails(r))
                          /\ WF_vars(RequestCompleted(r))

-----------------------------------------------------------------------------
\* Every variable has its type.
TypeOK ==
    /\ at \in [Request -> {"new", "collecting", "forwarding", "awaiting", "returning",
                           "done", "dropped"}]
    /\ in \in [Request -> Inputs]
    /\ status \in [Request -> {0, 200, 400, 404, 413, 500, 502}]
    /\ metered \subseteq Request
    /\ \A s \in sent : s.request \in Request /\ s.url # ""

\* "Request body size limit enforcement": nothing of a request whose body is too large or
\* could not be read goes upstream, whatever its route, and however often handlers are
\* dropped.
SizeLimitEnforced == \A s \in sent : in[s.request].body \notin {"oversized", "broken"}

\* A request that was handed to forward is answered or its client is gone, whatever the
\* upstream does.
ForwardEnds ==
    \A r \in Request :
        (at[r] \in {"forwarding", "awaiting"}) ~> (at[r] \in {"done", "dropped"})
=============================================================================
