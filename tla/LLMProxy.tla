------------------------------- MODULE LLMProxy -------------------------------
(***************************************************************************)
(* The request path of LLMProxy (internal/proxy/handler.go): the middleware *)
(* chain built by routes (JWTValidator, Limiter, policy engine, audit) and  *)
(* the handlers behind it, for several requests at once.                    *)
(*                                                                          *)
(* A request is described by what the code tells apart: its route, its      *)
(* token, its body.  The decision of the limiter's counter is modelled in   *)
(* ProjectRateLimit and what becomes of a logged event in AuditLogger; here *)
(* the counter is one number and Log is the call.  The upstream is          *)
(* external: it answers, fails, or breaks off its answer.                   *)
(***************************************************************************)
EXTENDS Naturals, FiniteSets

CONSTANTS Request,
          Upstream,   \* names of the configured upstreams
          Burst       \* requests the limiter allows in the window

\* probe: /healthz, /readyz and /metrics; other: no route matches.
Routes == {"chat", "embeddings", "models", "probe", "other"}
Tokens == {"missing", "malformed", "rejected", "valid"}
\* small, large: max_tokens at most, above 4096; none: without max_tokens; oversized:
\* more than 10 MB.
Bodies == {"none", "small", "large", "oversized", "not_json", "unreadable"}

VARIABLES publicKey, \* "set", or "none" when no PEM was configured
          at,        \* per request: where it is in the chain
          in,        \* per request: route, token and body
          status,    \* per request: the answer, 0 before it
          count,     \* requests counted by the limiter in the current window
          charged,   \* requests the limiter counted and allowed
          unchecked, \* requests the limiter passed on because Redis failed
          forwarded, \* requests sent to an upstream: <<request, upstream, body>>
          metered,   \* requests recorded by metrics.RecordRequest
          logged     \* requests passed to auditor.Log

vars == <<publicKey, at, in, status, count, charged, unchecked, forwarded, metered, logged>>

\* NewJWTValidator: no PEM gives a validator without a key, which rejects every token; a
\* PEM that does not parse ends the process.
PublicKeys == {"set", "none"}

NoInput == [route |-> "other", token |-> "missing", body |-> "none"]
Inputs  == [route : Routes, token : Tokens, body : Bodies]

Init ==
    /\ publicKey \in PublicKeys
    /\ at = [r \in Request |-> "new"]
    /\ in = [r \in Request |-> NoInput]
    /\ status = [r \in Request |-> 0]
    /\ count = 0
    /\ charged = {}
    /\ unchecked = {}
    /\ forwarded = {}
    /\ metered = {}
    /\ logged = {}

Goto(r, l) == at' = [at EXCEPT ![r] = l]

Answer(r, s) == Goto(r, "answered") /\ status' = [status EXCEPT ![r] = s]

\* The router.  Probes are outside the chain; readyz depends on the limiter's and the
\* logger's Ping.
Serve(r, i) ==
    /\ at[r] = "new"
    /\ in' = [in EXCEPT ![r] = i]
    /\ CASE i.route = "other" -> Answer(r, 404)
         [] i.route = "probe" -> \E s \in {200, 503} : Answer(r, s)
         [] OTHER             -> Goto(r, "auth") /\ UNCHANGED status
    /\ UNCHANGED <<publicKey, count, charged, unchecked, forwarded, metered, logged>>

\* What JWTValidator.Middleware answers; 0 passes on (mutant: the header is only
\* required to be well formed).
AuthOutcomeUnverified(r) ==
    IF in[r].token \in {"missing", "malformed"} THEN 401 ELSE 0

AuthOutcome(r) ==
    CASE in[r].token \in {"missing", "malformed"} -> 401
      [] publicKey = "none"                       -> 500
      [] in[r].token = "rejected"                 -> 401
      [] OTHER                                    -> 0

Authenticate(r) ==
    /\ at[r] = "auth"
    /\ IF AuthOutcome(r) = 0
       THEN Goto(r, "limit") /\ UNCHANGED status
       ELSE Answer(r, AuthOutcome(r))
    /\ UNCHANGED <<publicKey, in, count, charged, unchecked, forwarded, metered, logged>>

\* The policy and audit middlewares call next in every case.
RateLimit(r) ==
    /\ at[r] = "limit"
    /\ count' = count + 1
    /\ IF count + 1 <= Burst
       THEN Goto(r, "handler") /\ charged' = charged \cup {r} /\ UNCHANGED status
       ELSE Answer(r, 429) /\ UNCHANGED charged
    /\ UNCHANGED <<publicKey, in, unchecked, forwarded, metered, logged>>

RateLimitFailsOpen(r) ==
    /\ at[r] = "limit"
    /\ Goto(r, "handler")
    /\ unchecked' = unchecked \cup {r}
    /\ UNCHANGED <<publicKey, in, status, count, charged, forwarded, metered, logged>>

\* The window ends.
NextWindow ==
    /\ count > 0
    /\ count' = 0
    /\ UNCHANGED <<publicKey, at, in, status, charged, unchecked, forwarded, metered, logged>>

\* handleEmbeddings, handleModels.
HandleOther(r) ==
    /\ at[r] = "handler"
    /\ in[r].route \in {"embeddings", "models"}
    /\ Answer(r, IF in[r].route = "models" THEN 200 ELSE 501)
    /\ UNCHANGED <<publicKey, in, count, charged, unchecked, forwarded, metered, logged>>

\* handleChatCompletions up to the choice of the upstream.  LimitReader ends a long body
\* without an error, so that what was read of it is no JSON document.
ChatRejection(r) ==
    CASE in[r].body = "unreadable"               -> 413
      [] in[r].body \in {"oversized", "not_json"} -> 400
      [] Upstream = {}                           -> 503
      [] OTHER                                   -> 0

ChatRejects(r) ==
    /\ at[r] = "handler"
    /\ in[r].route = "chat"
    /\ ChatRejection(r) # 0
    /\ Answer(r, ChatRejection(r))
    /\ UNCHANGED <<publicKey, in, count, charged, unchecked, forwarded, metered, logged>>

\* selectUpstream: openai if there is one, else whatever the map yields first (mutant:
\* openai without looking).
SelectUpstreamFixed == {"openai"}
SelectUpstream == IF "openai" \in Upstream THEN {"openai"} ELSE Upstream

\* max_tokens is set to 4096 when it is above.
Clamp(b) == IF b = "large" THEN "small" ELSE b

ChatForwards(r) ==
    /\ at[r] = "handler"
    /\ in[r].route = "chat"
    /\ ChatRejection(r) = 0
    /\ \E u \in SelectUpstream :
          forwarded' = forwarded \cup {<<r, u, Clamp(in[r].body)>>}
    /\ Goto(r, "upstream")
    /\ UNCHANGED <<publicKey, in, status, count, charged, unchecked, metered, logged>>

\* ModifyResponse: the answer and its body are read, and the request is metered.
UpstreamAnswers(r) ==
    /\ at[r] = "upstream"
    /\ metered' = metered \cup {r}
    /\ Goto(r, "audit")
    /\ UNCHANGED <<publicKey, in, status, count, charged, unchecked, forwarded, logged>>

\* Then it is logged, and the answer goes back to the client.
AuditsRequest(r) ==
    /\ at[r] = "audit"
    /\ logged' = logged \cup {r}
    /\ Answer(r, 200)
    /\ UNCHANGED <<publicKey, in, count, charged, unchecked, forwarded, metered>>

\* No connection, no answer, or ModifyResponse cannot read it: the reverse proxy's
\* error handler answers (mutant: the attempt is metered).
AfterFailureMeters(r) == metered' = metered \cup {r} /\ UNCHANGED logged
AfterFailure(r)       == UNCHANGED <<metered, logged>>

UpstreamFails(r) ==
    /\ at[r] = "upstream"
    /\ AfterFailure(r)
    /\ Answer(r, 502)
    /\ UNCHANGED <<publicKey, in, count, charged, unchecked, forwarded>>

AllAnswered ==
    /\ \A r \in Request : at[r] = "answered"
    /\ UNCHANGED vars

Step(r) ==
    \/ Authenticate(r) \/ RateLimit(r) \/ RateLimitFailsOpen(r)
    \/ HandleOther(r) \/ ChatRejects(r) \/ ChatForwards(r)
    \/ UpstreamAnswers(r) \/ AuditsRequest(r) \/ UpstreamFails(r)

Next ==
    \/ \E r \in Request : \E i \in Inputs : Serve(r, i)
    \/ \E r \in Request : Step(r)
    \/ NextWindow
    \/ AllAnswered

Spec == Init /\ [][Next]_vars

-----------------------------------------------------------------------------
\* Every variable has its type.
TypeOK ==
    /\ publicKey \in PublicKeys
    /\ at \in [Request -> {"new", "auth", "limit", "handler", "upstream", "audit",
                           "answered"}]
    /\ in \in [Request -> Inputs]
    /\ status \in [Request -> {0, 200, 400, 401, 404, 413, 429, 500, 501, 502, 503}]
    /\ count \in Nat
    /\ charged \subseteq Request
    /\ unchecked \subseteq Request
    /\ forwarded \subseteq Request \X Upstream \X Bodies
    /\ metered \subseteq Request
    /\ logged \subseteq Request

\* What reaches an upstream was authenticated with a configured key, counted by the
\* limiter (or passed on because Redis failed), goes to one upstream only and asks for
\* no more than 4096 tokens.
ForwardedIsChecked ==
    \A f, g \in forwarded :
        /\ in[f[1]].token = "valid" /\ publicKey = "set"
        /\ f[1] \in charged \cup unchecked
        /\ f[3] # "large"
        /\ f[1] = g[1] => f = g

\* With requests between the two calls, no request is logged that was not metered, and
\* none is metered that no upstream received; once a request is answered it is in both or
\* in neither, and in both when its client got the upstream's answer.
AuditMatchesMetrics ==
    /\ logged \subseteq metered
    /\ \A r \in metered : \E f \in forwarded : f[1] = r
    /\ \A r \in Request : at[r] = "answered" =>
          /\ r \in metered => r \in logged
          /\ (status[r] = 200 /\ \E f \in forwarded : f[1] = r) => r \in logged
=============================================================================
