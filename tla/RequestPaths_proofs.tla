-------------------------- MODULE RequestPaths_proofs --------------------------
(***************************************************************************)
(* Proofs about the paths of requests, for any number of requests, any      *)
(* routes and upstreams, and any record functions: nothing goes upstream    *)
(* unchecked, the proxy's metrics and audit trail agree, and a scrape is    *)
(* fresh.                                                                   *)
(***************************************************************************)
EXTENDS Access_proofs, TlsGateway_proofs, FiniteSetTheorems

-----------------------------------------------------------------------------
(* GatewayRequest.                                                           *)

\* A body that may go upstream.
Sound(i) == i.body \notin {"oversized", "broken"}

\* The answers of the handlers.
GStatusOK == gStatus \in [Request -> {0, 200, 400, 404, 413, 500, 502}]

\* What forward has in hand, and what it has sent, was collected, sound and has a URL.
HandlerInv ==
    /\ gAt \in [Request -> {"new", "collecting", "forwarding", "awaiting", "returning",
                            "done", "dropped"}]
    /\ gIn \in [Request -> G!Inputs]
    /\ gMetered \subseteq Request
    /\ DOMAIN gUrl = Request
    /\ \A r \in Request :
          gAt[r] \in {"forwarding", "awaiting"} => Sound(gIn[r]) /\ gUrl[r] # ""
    /\ \A s \in gSent : /\ s.request \in Request /\ s.url # ""
                        /\ gAt[s.request] \notin {"new", "collecting"}
                        /\ Sound(gIn[s.request])

\* At the start nothing is sent.
LEMMA HandlerInit == G!Init => HandlerInv /\ GStatusOK
<1> SUFFICES ASSUME G!Init PROVE HandlerInv /\ GStatusOK
  OBVIOUS
<1>1. GStatusOK
  BY DEF G!Init, GStatusOK
<1>2. HandlerInv
  BY DEF G!Init, HandlerInv, G!Inputs, G!Bodies, G!Paths
<1> QED
  BY <1>1, <1>2

\* Every step leaves the answers as they are or gives one of them.
LEMMA HandlerAnswers == GStatusOK /\ [G!Next]_gVars => GStatusOK'
<1> SUFFICES ASSUME GStatusOK, [G!Next]_gVars PROVE GStatusOK'
  OBVIOUS
<1> USE DEF GStatusOK
<1>1. ASSUME NEW r \in Request, NEW i \in G!Inputs, G!RouteRequest(r, i) PROVE GStatusOK'
  BY <1>1 DEF G!RouteRequest, G!Respond
<1>2. ASSUME NEW r \in Request, G!BodyCollected(r) PROVE GStatusOK'
  BY <1>2 DEF G!BodyCollected, G!Respond
<1>3. ASSUME NEW r \in Request, G!ForwardAnswered(r) PROVE GStatusOK'
  BY <1>3 DEF G!ForwardAnswered
<1>4. ASSUME NEW r \in Request, G!ForwardFails(r) PROVE GStatusOK'
  BY <1>4 DEF G!ForwardFails, G!Respond
<1>5. CASE UNCHANGED gStatus
  BY <1>5
<1> QED
  BY <1>1, <1>2, <1>3, <1>4, <1>5
     DEF G!Next, G!Step, G!ForwardSends, G!RequestCompleted, G!ClientGone, G!AllOver, G!vars, gVars

\* route_request takes a request that is new, so that nothing of it was sent.
LEMMA RouteKeeps ==
    ASSUME HandlerInv, NEW r \in Request, NEW i \in G!Inputs, G!RouteRequest(r, i)
    PROVE  HandlerInv'
<1>1. PICK l \in {"collecting", "returning"} : gAt' = [gAt EXCEPT ![r] = l]
  BY DEF G!RouteRequest, G!Respond, G!Goto
<1>2. /\ gAt[r] = "new" /\ gIn' = [gIn EXCEPT ![r] = i]
      /\ UNCHANGED <<gUrl, gSent, gMetered>>
  BY DEF G!RouteRequest
<1> QED
  BY <1>1, <1>2 DEF HandlerInv, Sound

\* handle_proxy goes on with a body that is sound and with a URL.
LEMMA BodyCollectedKeeps ==
    ASSUME HandlerInv, NEW r \in Request, G!BodyCollected(r) PROVE HandlerInv'
<1>1. PICK l \in {"forwarding", "returning"} :
         /\ gAt' = [gAt EXCEPT ![r] = l]
         /\ l = "forwarding" => Sound(gIn[r]) /\ G!Select(gIn[r].path) # ""
  BY DEF G!BodyCollected, G!Respond, G!Goto, G!TooLarge, G!NoUri, Sound
<1>2. /\ gAt[r] = "collecting" /\ gUrl' = [gUrl EXCEPT ![r] = G!Select(gIn[r].path)]
      /\ UNCHANGED <<gIn, gSent, gMetered>>
  BY DEF G!BodyCollected
<1> QED
  BY <1>1, <1>2 DEF HandlerInv

\* Every step of a handler.
LEMMA HandlerStepKeeps == HandlerInv /\ [G!Next]_gVars => HandlerInv'
<1> SUFFICES ASSUME HandlerInv, [G!Next]_gVars PROVE HandlerInv'
  OBVIOUS
<1>1. ASSUME NEW r \in Request, G!ForwardSends(r) PROVE HandlerInv'
  <2> DEFINE new == [request |-> r, url |-> gUrl[r]]
  <2>1. /\ gAt[r] = "forwarding" /\ gAt' = [gAt EXCEPT ![r] = "awaiting"]
        /\ gSent' = gSent \cup {new} /\ UNCHANGED <<gIn, gUrl, gMetered>>
    BY <1>1 DEF G!ForwardSends, G!Goto
  <2>2. new.request = r /\ new.url = gUrl[r]
    OBVIOUS
  <2> HIDE DEF new
  <2>3. gUrl[r] # "" /\ Sound(gIn[r])
    BY <2>1 DEF HandlerInv
  <2> QED
    BY <2>1, <2>2, <2>3 DEF HandlerInv
<1>2. ASSUME NEW r \in Request, G!ForwardAnswered(r) PROVE HandlerInv'
  <2>1. /\ gAt[r] = "awaiting" /\ gAt' = [gAt EXCEPT ![r] = "returning"]
        /\ UNCHANGED <<gIn, gUrl, gSent, gMetered>>
    BY <1>2 DEF G!ForwardAnswered, G!Goto
  <2> QED
    BY <2>1 DEF HandlerInv
<1>3. ASSUME NEW r \in Request, G!ForwardFails(r) PROVE HandlerInv'
  <2>1. /\ gAt[r] \in {"forwarding", "awaiting"} /\ gAt' = [gAt EXCEPT ![r] = "returning"]
        /\ UNCHANGED <<gIn, gUrl, gSent, gMetered>>
    BY <1>3 DEF G!ForwardFails, G!MayFail, G!Respond, G!Goto
  <2> QED
    BY <2>1 DEF HandlerInv
<1>4. ASSUME NEW r \in Request, G!RequestCompleted(r) PROVE HandlerInv'
  BY <1>4 DEF G!RequestCompleted, G!Goto, HandlerInv
<1>5. ASSUME NEW r \in Request, G!ClientGone(r) PROVE HandlerInv'
  BY <1>5 DEF G!ClientGone, G!Goto, HandlerInv
<1>6. CASE G!AllOver \/ UNCHANGED gVars
  BY <1>6 DEF G!AllOver, G!vars, gVars, HandlerInv
<1> QED
  BY <1>1, <1>2, <1>3, <1>4, <1>5, <1>6, RouteKeeps, BodyCollectedKeeps DEF G!Next, G!Step

\* The invariant of the handlers holds throughout.
LEMMA HandlerInvariant == G!Spec => [](HandlerInv /\ GStatusOK)
BY HandlerInit, HandlerStepKeeps, HandlerAnswers, PTL DEF G!Spec, G!vars, gVars

-----------------------------------------------------------------------------
(* LLMProxy.                                                                 *)

\* The answers of the proxy.
PStatusOK == pStatus \in [Request -> {0, 200, 400, 401, 404, 413, 429, 500, 501, 502, 503}]

ProxyTyped ==
    /\ pPublicKey \in P!PublicKeys
    /\ pAt \in [Request -> {"new", "auth", "limit", "handler", "upstream", "audit",
                            "answered"}]
    /\ pIn \in [Request -> P!Inputs]
    /\ pCharged \subseteq Request
    /\ pUnchecked \subseteq Request
    /\ pForwarded \subseteq Request \X Upstream \X P!Bodies

\* What JWTValidator passed on was valid, and what the limiter passed on was counted.
Checked ==
    \A r \in Request :
        /\ pAt[r] \in {"limit", "handler", "upstream"} =>
              pIn[r].token = "valid" /\ pPublicKey = "set"
        /\ pAt[r] \in {"handler", "upstream"} => r \in pCharged \cup pUnchecked

\* What was forwarded had passed both, is one per request, and its handler waits or has
\* answered.
ForwardedOnce ==
    /\ \A f \in pForwarded :
          /\ pAt[f[1]] \in {"upstream", "audit", "answered"}
          /\ pIn[f[1]].token = "valid" /\ pPublicKey = "set"
          /\ f[1] \in pCharged \cup pUnchecked
          /\ f[3] # "large"
    /\ \A f, g \in pForwarded : f[1] = g[1] => f = g

\* A request that waits for its upstream or for its audit, or was metered, was forwarded.
\* Before the audit it is in neither record, at the audit only metered, and an answer
\* leaves it in both or in neither.
Received(r) == \E f \in pForwarded : f[1] = r

Accounted ==
    /\ pMetered \subseteq Request /\ pLogged \subseteq pMetered
    /\ \A r \in pMetered : Received(r) /\ pAt[r] \in {"audit", "answered"}
    /\ \A r \in Request :
          /\ pAt[r] \in {"upstream", "audit"} => Received(r)
          /\ pAt[r] = "audit" => r \in pMetered
          /\ pAt[r] = "answered" /\ r \in pMetered => r \in pLogged

\* In neither only if the upstream failed.
Failed ==
    \A r \in Request :
        pAt[r] = "answered" /\ Received(r) /\ r \notin pLogged => pStatus[r] = 502

ProxyInv == ProxyTyped /\ Checked /\ ForwardedOnce /\ Accounted

ProxyNumbers == PStatusOK /\ pCount \in Nat

\* At the start nothing is forwarded.
LEMMA ProxyInit == P!Init => ProxyInv /\ ProxyNumbers /\ Failed
<1> SUFFICES ASSUME P!Init PROVE ProxyInv /\ ProxyNumbers /\ Failed
  OBVIOUS
<1>1. ProxyNumbers
  BY DEF P!Init, ProxyNumbers, PStatusOK
<1>2. ProxyTyped
  BY DEF P!Init, ProxyTyped, P!NoInput, P!Inputs, P!Bodies, P!Routes, P!Tokens
<1>3. Checked /\ ForwardedOnce /\ Accounted /\ Failed
  BY DEF P!Init, Checked, ForwardedOnce, Accounted, Failed
<1> QED
  BY <1>1, <1>2, <1>3 DEF ProxyInv

\* Every step leaves the answers as they are or gives one of them.
LEMMA ProxyAnswers == ProxyNumbers /\ [P!Next]_pVars => ProxyNumbers'
<1> SUFFICES ASSUME ProxyNumbers, [P!Next]_pVars PROVE ProxyNumbers'
  OBVIOUS
<1> USE DEF ProxyNumbers, PStatusOK
<1>1. ASSUME NEW r \in Request, NEW i \in P!Inputs, P!Serve(r, i) PROVE ProxyNumbers'
  BY <1>1 DEF P!Serve, P!Answer
<1>2. ASSUME NEW r \in Request, P!Authenticate(r) PROVE ProxyNumbers'
  <2>1. P!AuthOutcome(r) \in {0, 401, 500}
    BY DEF P!AuthOutcome
  <2> QED
    BY <1>2, <2>1 DEF P!Authenticate, P!Answer
<1>3. ASSUME NEW r \in Request, P!RateLimit(r) PROVE ProxyNumbers'
  BY <1>3 DEF P!RateLimit, P!Answer
<1>4. ASSUME NEW r \in Request, P!HandleOther(r) PROVE ProxyNumbers'
  BY <1>4 DEF P!HandleOther, P!Answer
<1>5. ASSUME NEW r \in Request, P!ChatRejects(r) PROVE ProxyNumbers'
  <2>1. P!ChatRejection(r) \in {0, 413, 400, 503}
    BY DEF P!ChatRejection
  <2> QED
    BY <1>5, <2>1 DEF P!ChatRejects, P!Answer
<1>6. ASSUME NEW r \in Request, P!AuditsRequest(r) \/ P!UpstreamFails(r) PROVE ProxyNumbers'
  BY <1>6 DEF P!AuditsRequest, P!UpstreamFails, P!Answer
<1>7. ASSUME UNCHANGED pStatus, pCount' \in Nat PROVE ProxyNumbers'
  BY <1>7
<1>8. ASSUME NEW r \in Request,
             P!RateLimitFailsOpen(r) \/ P!ChatForwards(r) \/ P!UpstreamAnswers(r)
      PROVE  ProxyNumbers'
  BY <1>8 DEF P!RateLimitFailsOpen, P!ChatForwards, P!UpstreamAnswers
<1>9. CASE P!NextWindow \/ P!AllAnswered \/ UNCHANGED pVars
  BY <1>9 DEF P!NextWindow, P!AllAnswered, P!vars, pVars
<1> QED
  BY <1>1, <1>2, <1>3, <1>4, <1>5, <1>6, <1>8, <1>9 DEF P!Next, P!Step

\* The router takes a request that is new, so that nothing of it was forwarded.
LEMMA ServeKeeps ==
    ASSUME ProxyInv, NEW r \in Request, NEW i \in P!Inputs, P!Serve(r, i)
    PROVE  ProxyInv'
<1>1. PICK l \in {"auth", "answered"} : pAt' = [pAt EXCEPT ![r] = l]
  BY DEF P!Serve, P!Answer, P!Goto
<1>2. /\ pAt[r] = "new" /\ pIn' = [pIn EXCEPT ![r] = i]
      /\ UNCHANGED <<pPublicKey, pCharged, pUnchecked, pForwarded, pMetered, pLogged>>
  BY DEF P!Serve
<1>3. ProxyTyped'
  BY <1>1, <1>2 DEF ProxyInv, ProxyTyped
<1>4. Checked'
  BY <1>1, <1>2 DEF ProxyInv, ProxyTyped, Checked
<1>5. ForwardedOnce'
  BY <1>1, <1>2 DEF ProxyInv, ProxyTyped, ForwardedOnce
<1>6. Accounted'
  BY <1>1, <1>2 DEF ProxyInv, ProxyTyped, Accounted, Received
<1> QED
  BY <1>3, <1>4, <1>5, <1>6 DEF ProxyInv

\* A step of r alone that neither changes its input nor forwards it, and that leaves it
\* answered or with what its next place asks for.
LEMMA StepKeeps ==
    ASSUME ProxyInv, NEW r \in Request, NEW l \in {"limit", "handler", "answered"},
           pAt' = [pAt EXCEPT ![r] = l], pAt[r] \notin {"upstream", "audit"},
           UNCHANGED <<pPublicKey, pIn, pForwarded, pMetered, pLogged>>,
           pCharged \subseteq pCharged', pCharged' \subseteq Request,
           pUnchecked \subseteq pUnchecked', pUnchecked' \subseteq Request,
           l # "answered" => /\ pIn[r].token = "valid" /\ pPublicKey = "set"
                             /\ pAt[r] \in {"auth", "limit"},
           l = "handler" => r \in pCharged' \cup pUnchecked'
    PROVE  ProxyInv'
<1>1. ProxyTyped'
  BY DEF ProxyInv, ProxyTyped
<1>2. Checked'
  BY DEF ProxyInv, ProxyTyped, Checked
<1>3. ForwardedOnce'
  BY DEF ProxyInv, ProxyTyped, ForwardedOnce
<1>4. Accounted'
  BY DEF ProxyInv, ProxyTyped, Accounted, Received
<1> QED
  BY <1>1, <1>2, <1>3, <1>4 DEF ProxyInv

\* JWTValidator.Middleware passes on what is valid, with a key.
LEMMA AuthenticateKeeps ==
    ASSUME ProxyInv, NEW r \in Request, P!Authenticate(r) PROVE ProxyInv'
<1>1. /\ pAt[r] = "auth"
      /\ UNCHANGED <<pPublicKey, pIn, pCharged, pUnchecked, pForwarded, pMetered, pLogged>>
  BY DEF P!Authenticate
<1>2. CASE P!AuthOutcome(r) = 0
  <2>1. pIn[r].token \in P!Tokens /\ pPublicKey \in {"set", "none"}
    BY DEF ProxyInv, ProxyTyped, P!Inputs, P!PublicKeys
  <2>2. pIn[r].token = "valid" /\ pPublicKey = "set"
    BY <1>2, <2>1 DEF P!AuthOutcome, P!Tokens
  <2>3. pAt' = [pAt EXCEPT ![r] = "limit"]
    BY <1>2 DEF P!Authenticate, P!Goto
  <2> QED
    BY <1>1, <2>2, <2>3, StepKeeps DEF ProxyInv, ProxyTyped
<1>3. CASE P!AuthOutcome(r) # 0
  <2>1. pAt' = [pAt EXCEPT ![r] = "answered"]
    BY <1>3 DEF P!Authenticate, P!Answer, P!Goto
  <2> QED
    BY <1>1, <2>1, StepKeeps DEF ProxyInv, ProxyTyped
<1> QED
  BY <1>2, <1>3

\* The limiter counts what it passes on, or Redis failed.
LEMMA LimitKeeps ==
    ASSUME ProxyInv, NEW r \in Request, P!RateLimit(r) \/ P!RateLimitFailsOpen(r)
    PROVE  ProxyInv'
<1>1. /\ pAt[r] = "limit"
      /\ UNCHANGED <<pPublicKey, pIn, pForwarded, pMetered, pLogged>>
  BY DEF P!RateLimit, P!RateLimitFailsOpen
<1>2. pIn[r].token = "valid" /\ pPublicKey = "set"
  BY <1>1 DEF ProxyInv, Checked
<1>3. PICK l \in {"handler", "answered"} :
         /\ pAt' = [pAt EXCEPT ![r] = l]
         /\ pCharged' \in {pCharged, pCharged \cup {r}}
         /\ pUnchecked' \in {pUnchecked, pUnchecked \cup {r}}
         /\ l = "handler" => r \in pCharged' \cup pUnchecked'
  BY DEF P!RateLimit, P!RateLimitFailsOpen, P!Answer, P!Goto
<1> QED
  BY <1>1, <1>2, <1>3, StepKeeps DEF ProxyInv, ProxyTyped

\* A handler that answers by itself.
LEMMA HandlerAnswersKeeps ==
    ASSUME ProxyInv, NEW r \in Request, P!HandleOther(r) \/ P!ChatRejects(r)
    PROVE  ProxyInv'
<1>1. /\ pAt[r] = "handler" /\ pAt' = [pAt EXCEPT ![r] = "answered"]
      /\ UNCHANGED <<pPublicKey, pIn, pCharged, pUnchecked, pForwarded, pMetered, pLogged>>
  BY DEF P!HandleOther, P!ChatRejects, P!Answer, P!Goto
<1> QED
  BY <1>1, StepKeeps DEF ProxyInv, ProxyTyped

\* handleChatCompletions forwards what it holds, once and clamped.
LEMMA ChatForwardsKeeps ==
    ASSUME ProxyInv, NEW r \in Request, P!ChatForwards(r) PROVE ProxyInv'
<1>1. /\ pAt[r] = "handler" /\ pAt' = [pAt EXCEPT ![r] = "upstream"]
      /\ UNCHANGED <<pPublicKey, pIn, pCharged, pUnchecked, pMetered, pLogged>>
  BY DEF P!ChatForwards, P!Goto
<1>2. PICK u \in P!SelectUpstream :
         pForwarded' = pForwarded \cup {<<r, u, P!Clamp(pIn[r].body)>>}
  BY DEF P!ChatForwards
<1>3. u \in Upstream
  BY DEF P!SelectUpstream
<1> DEFINE b == P!Clamp(pIn[r].body)
           new == <<r, u, b>>
<1>4. b \in P!Bodies /\ b # "large"
  BY DEF ProxyInv, ProxyTyped, P!Inputs, P!Clamp, P!Bodies
<1> HIDE DEF b
<1>5. new[1] = r /\ new[3] = b /\ new \in Request \X Upstream \X P!Bodies
  BY <1>3, <1>4
<1> HIDE DEF new
<1>6. pForwarded' = pForwarded \cup {new}
  BY <1>2 DEF b, new
<1>7. \A f \in pForwarded : f[1] # r
  BY <1>1 DEF ProxyInv, ForwardedOnce
<1>8. /\ pIn[r].token = "valid" /\ pPublicKey = "set"
      /\ r \in pCharged \cup pUnchecked
  BY <1>1 DEF ProxyInv, Checked
<1>9. ProxyTyped'
  BY <1>1, <1>5, <1>6 DEF ProxyInv, ProxyTyped
<1>10. Checked'
  BY <1>1 DEF ProxyInv, ProxyTyped, Checked
<1>11. ForwardedOnce'
  BY <1>1, <1>4, <1>5, <1>6, <1>7, <1>8 DEF ProxyInv, ProxyTyped, ForwardedOnce
<1>12. Accounted'
  BY <1>1, <1>5, <1>6 DEF ProxyInv, ProxyTyped, Accounted, Received
<1> QED
  BY <1>9, <1>10, <1>11, <1>12 DEF ProxyInv

\* ModifyResponse meters a request that waits for its upstream, then logs it; the error
\* handler does neither.
LEMMA UpstreamKeeps ==
    ASSUME ProxyInv, NEW r \in Request,
           P!UpstreamAnswers(r) \/ P!AuditsRequest(r) \/ P!UpstreamFails(r)
    PROVE  ProxyInv'
<1>1. /\ pAt[r] \in {"upstream", "audit"}
      /\ UNCHANGED <<pPublicKey, pIn, pCharged, pUnchecked, pForwarded>>
  BY DEF P!UpstreamAnswers, P!AuditsRequest, P!UpstreamFails
<1>2. PICK l \in {"audit", "answered"} : pAt' = [pAt EXCEPT ![r] = l]
  BY DEF P!UpstreamAnswers, P!AuditsRequest, P!UpstreamFails, P!Answer, P!Goto
<1>3. ProxyTyped'
  BY <1>1, <1>2 DEF ProxyInv, ProxyTyped
<1>4. Checked'
  BY <1>1, <1>2 DEF ProxyInv, ProxyTyped, Checked
<1>5. ForwardedOnce'
  BY <1>1, <1>2 DEF ProxyInv, ProxyTyped, ForwardedOnce
<1>6. Accounted'
  <2>1. CASE P!UpstreamAnswers(r)
    <3>1. /\ pAt[r] = "upstream" /\ pAt' = [pAt EXCEPT ![r] = "audit"]
          /\ pMetered' = pMetered \cup {r} /\ UNCHANGED <<pForwarded, pLogged>>
      BY <2>1 DEF P!UpstreamAnswers, P!Goto
    <3> QED
      BY <3>1 DEF ProxyInv, ProxyTyped, Accounted, Received
  <2>2. CASE P!AuditsRequest(r)
    <3>1. /\ pAt[r] = "audit" /\ pAt' = [pAt EXCEPT ![r] = "answered"]
          /\ pLogged' = pLogged \cup {r} /\ UNCHANGED <<pForwarded, pMetered>>
      BY <2>2 DEF P!AuditsRequest, P!Answer, P!Goto
    <3> QED
      BY <3>1 DEF ProxyInv, ProxyTyped, Accounted, Received
  <2>3. CASE P!UpstreamFails(r)
    <3>1. /\ pAt[r] = "upstream" /\ pAt' = [pAt EXCEPT ![r] = "answered"]
          /\ UNCHANGED <<pForwarded, pMetered, pLogged>>
      BY <2>3 DEF P!UpstreamFails, P!AfterFailure, P!Answer, P!Goto
    <3> QED
      BY <3>1 DEF ProxyInv, ProxyTyped, Accounted, Received
  <2> QED
    BY <2>1, <2>2, <2>3
<1> QED
  BY <1>3, <1>4, <1>5, <1>6 DEF ProxyInv

\* Every step of the proxy.
LEMMA ProxyStepKeeps == ProxyInv /\ [P!Next]_pVars => ProxyInv'
<1> SUFFICES ASSUME ProxyInv, [P!Next]_pVars PROVE ProxyInv'
  OBVIOUS
<1>1. CASE P!NextWindow \/ P!AllAnswered \/ UNCHANGED pVars
  BY <1>1 DEF P!NextWindow, P!AllAnswered, P!vars, pVars, ProxyInv, ProxyTyped, Checked,
              ForwardedOnce, Accounted, Received
<1> QED
  BY <1>1, ServeKeeps, AuthenticateKeeps, LimitKeeps, HandlerAnswersKeeps,
     ChatForwardsKeeps, UpstreamKeeps DEF P!Next, P!Step

\* A step of r leaves Failed alone if r has no answer after it, was never forwarded, is
\* logged, or is answered with 502.
LEMMA FailedStays ==
    ASSUME Failed, PStatusOK, ProxyTyped, NEW r \in Request, NEW l, NEW n,
           pAt' = [pAt EXCEPT ![r] = l],
           pStatus' \in {pStatus, [pStatus EXCEPT ![r] = n]},
           pLogged \subseteq pLogged',
           \A q \in Request \ {r} : Received(q)' => Received(q),
           \/ l # "answered" \/ ~Received(r)' \/ r \in pLogged' \/ pStatus'[r] = 502
    PROVE  Failed'
<1>1. \A q \in Request \ {r} : pAt'[q] = pAt[q] /\ pStatus'[q] = pStatus[q]
  BY DEF PStatusOK, ProxyTyped
<1>2. pAt'[r] = l
  BY DEF ProxyTyped
<1>3. ASSUME NEW q \in Request \ {r}, pAt'[q] = "answered", Received(q)', q \notin pLogged'
      PROVE  pStatus'[q] = 502
  BY <1>1, <1>3 DEF Failed
<1>4. ASSUME pAt'[r] = "answered", Received(r)', r \notin pLogged' PROVE pStatus'[r] = 502
  BY <1>2, <1>4
<1> QED
  BY <1>3, <1>4 DEF Failed

\* Only the error handler answers for a request that an upstream received and that is not
\* logged.
LEMMA FailedKeeps == ProxyInv /\ ProxyNumbers /\ Failed /\ [P!Next]_pVars => Failed'
<1> SUFFICES ASSUME ProxyInv, ProxyNumbers, Failed, [P!Next]_pVars PROVE Failed'
  OBVIOUS
<1>0. /\ PStatusOK /\ ProxyTyped
      /\ \A r \in Request : pAt[r] \in {"new", "auth", "limit", "handler"} => ~Received(r)
  BY DEF ProxyInv, ProxyNumbers, ForwardedOnce, Received
<1>1. ASSUME NEW r \in Request, pAt[r] \in {"new", "auth", "limit", "handler"},
             UNCHANGED <<pForwarded, pLogged>>, NEW l, NEW n, pAt' = [pAt EXCEPT ![r] = l],
             pStatus' \in {pStatus, [pStatus EXCEPT ![r] = n]}
      PROVE  Failed'
  <2>1. \A q \in Request : Received(q)' <=> Received(q)
    BY <1>1 DEF Received
  <2> QED
    BY <1>0, <1>1, <2>1, FailedStays
<1>2. ASSUME NEW r \in Request, NEW i \in P!Inputs, P!Serve(r, i) PROVE Failed'
  <2>1. PICK l, n : /\ pAt' = [pAt EXCEPT ![r] = l]
                    /\ pStatus' \in {pStatus, [pStatus EXCEPT ![r] = n]}
    BY <1>2 DEF P!Serve, P!Answer, P!Goto
  <2>2. pAt[r] = "new" /\ UNCHANGED <<pForwarded, pLogged>>
    BY <1>2 DEF P!Serve
  <2> QED
    BY <1>1, <2>1, <2>2
<1>3. ASSUME NEW r \in Request,
             \/ P!Authenticate(r) \/ P!RateLimit(r) \/ P!RateLimitFailsOpen(r)
             \/ P!HandleOther(r) \/ P!ChatRejects(r)
      PROVE  Failed'
  <2>1. PICK l, n : /\ pAt' = [pAt EXCEPT ![r] = l]
                    /\ pStatus' \in {pStatus, [pStatus EXCEPT ![r] = n]}
    BY <1>3 DEF P!Authenticate, P!RateLimit, P!RateLimitFailsOpen, P!HandleOther,
                P!ChatRejects, P!Answer, P!Goto
  <2>2. pAt[r] \in {"auth", "limit", "handler"} /\ UNCHANGED <<pForwarded, pLogged>>
    BY <1>3 DEF P!Authenticate, P!RateLimit, P!RateLimitFailsOpen, P!HandleOther,
                P!ChatRejects
  <2> QED
    BY <1>1, <2>1, <2>2
<1>4. ASSUME NEW r \in Request, P!ChatForwards(r) PROVE Failed'
  <2>1. PICK u : pForwarded' = pForwarded \cup {<<r, u, P!Clamp(pIn[r].body)>>}
    BY <1>4 DEF P!ChatForwards
  <2>2. \A q \in Request \ {r} : Received(q)' => Received(q)
    BY <2>1 DEF Received
  <2>3. /\ pAt' = [pAt EXCEPT ![r] = "upstream"] /\ pStatus' = pStatus /\ pLogged' = pLogged
    BY <1>4 DEF P!ChatForwards, P!Goto
  <2> QED
    BY <1>0, <2>2, <2>3, FailedStays
<1>5. ASSUME NEW r \in Request,
             P!UpstreamAnswers(r) \/ P!AuditsRequest(r) \/ P!UpstreamFails(r)
      PROVE  Failed'
  <2>0. \A q \in Request : Received(q)' <=> Received(q)
    BY <1>5 DEF P!UpstreamAnswers, P!AuditsRequest, P!UpstreamFails, Received
  <2>1. CASE P!UpstreamAnswers(r)
    <3>1. pAt' = [pAt EXCEPT ![r] = "audit"] /\ pStatus' = pStatus /\ pLogged' = pLogged
      BY <2>1 DEF P!UpstreamAnswers, P!Goto
    <3> QED
      BY <1>0, <2>0, <3>1, FailedStays
  <2>2. CASE P!AuditsRequest(r)
    <3>1. /\ pAt' = [pAt EXCEPT ![r] = "answered"] /\ pStatus' = [pStatus EXCEPT ![r] = 200]
          /\ pLogged' = pLogged \cup {r}
      BY <2>2 DEF P!AuditsRequest, P!Answer, P!Goto
    <3> QED
      BY <1>0, <2>0, <3>1, FailedStays
  <2>3. CASE P!UpstreamFails(r)
    <3>1. /\ pAt' = [pAt EXCEPT ![r] = "answered"] /\ pStatus' = [pStatus EXCEPT ![r] = 502]
          /\ pLogged' = pLogged
      BY <2>3 DEF P!UpstreamFails, P!AfterFailure, P!Answer, P!Goto
    <3>2. pStatus'[r] = 502
      BY <1>0, <3>1 DEF PStatusOK
    <3> QED
      BY <1>0, <2>0, <3>1, <3>2, FailedStays
  <2> QED
    BY <1>5, <2>1, <2>2, <2>3
<1>6. CASE P!NextWindow \/ P!AllAnswered \/ UNCHANGED pVars
  <2>1. UNCHANGED <<pAt, pStatus, pForwarded, pLogged>>
    BY <1>6 DEF P!NextWindow, P!AllAnswered, P!vars, pVars
  <2> QED
    BY <2>1 DEF Failed, Received
<1> QED
  BY <1>2, <1>3, <1>4, <1>5, <1>6 DEF P!Next, P!Step

\* The invariant of the proxy holds throughout.
LEMMA ProxyInvariant == P!Spec => [](ProxyInv /\ ProxyNumbers /\ Failed)
BY ProxyInit, ProxyStepKeeps, ProxyAnswers, FailedKeeps, PTL DEF P!Spec, P!vars, pVars

\* What either data plane sends upstream has passed every check that comes before it,
\* for any number of requests, routes and upstreams and any burst.
THEOREM OnlyCheckedGoesUpstream == G!Spec /\ P!Spec => []OnlyCheckedIsSent
<1>1. HandlerInv /\ ProxyInv => OnlyCheckedIsSent
  BY DEF HandlerInv, Sound, ProxyInv, ForwardedOnce, OnlyCheckedIsSent, G!SizeLimitEnforced,
         P!ForwardedIsChecked
<1> QED
  BY <1>1, HandlerInvariant, ProxyInvariant, PTL

\* However requests interleave between metrics.RecordRequest and auditor.Log: the trail
\* holds only what was metered, the metrics only what an upstream received, and a request
\* that was answered is in both or in neither; in both when its client got the upstream's
\* answer.  For any number of requests and upstreams.
THEOREM MetricsMatchAudit == P!Spec => []AuditMatchesMetrics
<1>1. ProxyInv /\ Failed => AuditMatchesMetrics
  <2> SUFFICES ASSUME ProxyInv, Failed PROVE AuditMatchesMetrics
    OBVIOUS
  <2>1. /\ pLogged \subseteq pMetered
        /\ \A r \in pMetered : Received(r)
        /\ \A r \in Request : pAt[r] = "answered" => (r \in pMetered => r \in pLogged)
    BY DEF ProxyInv, Accounted
  <2>2. ASSUME NEW r \in Request, pAt[r] = "answered", pStatus[r] = 200, Received(r)
        PROVE  r \in pLogged
    BY <2>2 DEF Failed
  <2> QED
    BY <2>1, <2>2 DEF AuditMatchesMetrics, P!AuditMatchesMetrics, Received
<1> QED
  BY <1>1, ProxyInvariant, PTL

-----------------------------------------------------------------------------
(* Metrics.                                                                  *)

\* Threads in a call that updates f, and those of them that have done so.
Under(f) == {r \in Recorder : M!In(f, mCall[r])}
Past(f)  == {r \in Recorder : \E i \in 1 .. mNext[r] - 1 : mCall[r][i] = f}

MetricsTyped ==
    /\ mCell \in [Families -> {"empty", "busy", "set"}]
    /\ mRegistered \subseteq Families
    /\ mAt \in [Recorder -> {"idle", "get", "init", "update"}]
    /\ mCall \in [Recorder -> Recording \cup {<<>>}]
    /\ mNext \in [Recorder -> Nat]
    /\ mScraper \in {"idle", "gathering"}
    /\ mLeft \subseteq mRegistered

Counters ==
    /\ mValue \in [Families -> Nat] /\ mBegun \in [Families -> Nat]
    /\ mReturned \in [Families -> Nat]
    /\ mSeen \in [Families -> 0 .. MaxCalls] /\ mBefore \in [Families -> 0 .. MaxCalls]

\* A thread is idle, or at one of the families of its call.
Threads ==
    \A r \in Recorder :
        /\ mAt[r] = "idle" => mCall[r] = <<>> /\ mNext[r] = 1
        /\ mAt[r] # "idle" => mCall[r] \in Recording /\ mNext[r] \in 1 .. Len(mCall[r])

\* The families in the registry are those whose cell is set; one thread at most runs the
\* closure of a cell, and who updates a family has found its cell set.
Cells ==
    /\ ~mPanicked
    /\ \A f \in Families : f \in mRegistered <=> mCell[f] = "set"
    /\ \A r \in Recorder : /\ mAt[r] = "init" => mCell[M!Current(r)] = "busy"
                           /\ mAt[r] = "update" => mCell[M!Current(r)] = "set"
    /\ \A r, q \in Recorder :
          mAt[r] = "init" /\ mAt[q] = "init" /\ M!Current(r) = M!Current(q) => r = q

\* The calls that began are those that returned and those under way, and a family's value
\* counts the calls that returned and those that are past it.
Balanced(f) ==
    /\ mBegun[f] = mReturned[f] + Cardinality(Under(f))
    /\ mValue[f] = mReturned[f] + Cardinality(Past(f))
    /\ mBegun[f] <= MaxCalls
    /\ f \notin mRegistered => mValue[f] = 0

\* What the scrape has collected lies between the calls that returned before it began and
\* the updates so far.
Fresh(f) ==
    mScraper = "gathering" => /\ mBefore[f] <= mValue[f]
                              /\ f \notin mLeft => /\ mBefore[f] <= mSeen[f]
                                                   /\ mSeen[f] <= mValue[f]

Scrape == /\ mScraper = "idle" => mLeft = {}
          /\ \A f \in Families : Fresh(f)

Balance == \A f \in Families : Balanced(f)

MetricsInv == MetricsTyped /\ Counters /\ Threads /\ Cells /\ Balance /\ Scrape

\* A thread that is past a family is in a call of it, so that the value lies between the
\* calls that returned and those that began.
LEMMA ValueBetween ==
    ASSUME MetricsInv, NEW f \in Families
    PROVE  mReturned[f] <= mValue[f] /\ mValue[f] <= mBegun[f] /\ mBegun[f] <= MaxCalls
<1>1. \A r \in Recorder : mCall[r] = <<>> \/ mCall[r] \in Seq(Families)
  BY RequestPathsAssumption DEF MetricsInv, MetricsTyped
<1>2. Past(f) \subseteq Under(f)
  <2> SUFFICES ASSUME NEW r \in Recorder, NEW i \in 1 .. mNext[r] - 1, mCall[r][i] = f
               PROVE  M!In(f, mCall[r])
    BY DEF Past, Under
  <2>1. mAt[r] # "idle"
    BY DEF MetricsInv, Threads
  <2>2. mCall[r] \in Seq(Families) /\ i \in 1 .. Len(mCall[r])
    BY <2>1, RequestPathsAssumption DEF MetricsInv, Threads
  <2> QED
    BY <2>2 DEF M!In
<1>3. IsFiniteSet(Under(f)) /\ IsFiniteSet(Past(f))
  BY FS_Subset, RequestPathsAssumption DEF Under, Past
<1>4. /\ Cardinality(Past(f)) \in Nat /\ Cardinality(Under(f)) \in Nat
      /\ Cardinality(Past(f)) <= Cardinality(Under(f))
  BY <1>2, <1>3, FS_CardinalityType, FS_Subset
<1> QED
  BY <1>4 DEF MetricsInv, Counters, Balance, Balanced

\* At the start nothing is registered and nobody is in a call.
LEMMA MetricsInit == M!Init => MetricsInv
<1> SUFFICES ASSUME M!Init PROVE MetricsInv
  OBVIOUS
<1>1. MetricsTyped
  BY DEF M!Init, MetricsTyped
<1>2. Counters /\ Scrape
  BY RequestPathsAssumption DEF M!Init, M!Zero, Counters, Scrape, Fresh
<1>3. Threads /\ Cells
  BY DEF M!Init, Threads, Cells
<1>4. Balance
  <2>1. \A f \in Families : Under(f) = {} /\ Past(f) = {}
    BY DEF Under, Past, M!In, M!Init
  <2>2. \A f \in Families : mBegun[f] = 0 /\ mReturned[f] = 0 /\ mValue[f] = 0
    BY DEF M!Init, M!Zero
  <2>3. 0 = 0 + Cardinality({}) /\ 0 <= MaxCalls
    BY FS_EmptySet, RequestPathsAssumption
  <2> QED
    BY <2>1, <2>2, <2>3 DEF Balance, Balanced
<1> QED
  BY <1>1, <1>2, <1>3, <1>4 DEF MetricsInv

\* A call begins.
LEMMA RecordKeeps ==
    ASSUME MetricsInv, NEW r \in Recorder, NEW fs \in Recording, M!Record(r, fs)
    PROVE  MetricsInv'
<1> USE DEF M!Record, M!scrapeVars
<1>1. MetricsTyped' /\ Counters' /\ Scrape'
  BY DEF MetricsInv, MetricsTyped, Counters, Scrape, Fresh, M!OneMore
<1>2. Threads'
  <2>1. 1 \in 1 .. Len(fs)
    BY RequestPathsAssumption, EmptySeq, LenProperties
  <2> QED
    BY <2>1 DEF MetricsInv, MetricsTyped, Threads
<1>3. Cells'
  BY DEF MetricsInv, MetricsTyped, Cells, M!Current
<1>4. Balance'
  <2> SUFFICES ASSUME NEW f \in Families PROVE Balanced(f)'
    BY DEF Balance
  <2>1. mCall[r] = <<>> /\ mNext[r] = 1
    BY DEF MetricsInv, Threads
  <2>2. Past(f)' = Past(f)
    BY <2>1 DEF MetricsInv, MetricsTyped, Past
  <2>3. r \notin Under(f)
    BY <2>1 DEF Under, M!In
  <2>4. Under(f)' = IF M!In(f, fs) THEN Under(f) \cup {r} ELSE Under(f)
    BY <2>1, <2>3 DEF MetricsInv, MetricsTyped, Under, M!In
  <2>5. IsFiniteSet(Under(f)) /\ IsFiniteSet(Past(f))
    BY FS_Subset, RequestPathsAssumption DEF Under, Past
  <2>6. /\ Cardinality(Past(f)) \in Nat /\ Cardinality(Under(f)) \in Nat
        /\ Cardinality(Under(f) \cup {r}) = Cardinality(Under(f)) + 1
    BY <2>3, <2>5, FS_CardinalityType, FS_AddElement
  <2>7. CASE M!In(f, fs)
    <3>1. mBegun'[f] = mBegun[f] + 1 /\ mBegun[f] < MaxCalls
      BY <2>7 DEF M!OneMore
    <3>2. /\ Cardinality(Under(f)') = Cardinality(Under(f)) + 1
          /\ UNCHANGED <<mReturned, mValue, mRegistered>>
      BY <2>4, <2>6, <2>7
    <3>3. mBegun[f] \in Nat /\ mReturned[f] \in Nat /\ MaxCalls \in Nat
      BY RequestPathsAssumption DEF MetricsInv, Counters
    <3>4. Balanced(f)
      BY DEF MetricsInv, Balance
    <3> QED
      BY <2>2, <2>6, <3>1, <3>2, <3>3, <3>4 DEF Balanced
  <2>8. CASE ~M!In(f, fs)
    <3>1. mBegun'[f] = mBegun[f]
      BY <2>8 DEF M!OneMore
    <3> QED
      BY <2>2, <2>4, <2>8, <3>1 DEF MetricsInv, Balance, Balanced
  <2> QED
    BY <2>7, <2>8
<1> QED
  BY <1>1, <1>2, <1>3, <1>4 DEF MetricsInv

\* The family a thread is at belongs to the registry's families.
LEMMA CurrentIsFamily ==
    ASSUME MetricsInv, NEW r \in Recorder, mAt[r] # "idle"
    PROVE  /\ M!Current(r) \in Families
           /\ mCall[r] \in Seq(Families) /\ mNext[r] \in 1 .. Len(mCall[r])
           /\ \A i, j \in 1 .. Len(mCall[r]) : mCall[r][i] = mCall[r][j] => i = j
<1>1. mCall[r] \in Recording /\ mNext[r] \in 1 .. Len(mCall[r])
  BY DEF MetricsInv, Threads
<1>2. mCall[r] \in Seq(Families)
  BY <1>1, RequestPathsAssumption
<1>3. DOMAIN mCall[r] = 1 .. Len(mCall[r])
  BY <1>2
<1> QED
  BY <1>1, <1>2, <1>3, RequestPathsAssumption DEF M!Current

\* What stays as long as no call begins, goes on or ends.
LEMMA BalanceStays ==
    ASSUME Balance, UNCHANGED <<mCall, mNext, mBegun, mReturned, mValue>>,
           mRegistered \subseteq mRegistered'
    PROVE  Balance'
<1>1. \A f \in Families : Under(f)' = Under(f) /\ Past(f)' = Past(f)
  BY DEF Under, Past
<1> QED
  BY <1>1 DEF Balance, Balanced

\* get_or_init: the closure of an empty cell is run by one thread.
LEMMA GetOrInitKeeps ==
    ASSUME MetricsInv, NEW r \in Recorder, M!GetOrInit(r) PROVE MetricsInv'
<1> DEFINE f == M!Current(r)
<1>0. f \in Families /\ mAt[r] = "get"
  BY CurrentIsFamily DEF M!GetOrInit
<1>a. /\ UNCHANGED <<mRegistered, mValue, mCall, mNext, mPanicked, mBegun, mReturned,
                     mScraper, mLeft, mSeen, mBefore>>
      /\ \A q \in Recorder : M!Current(q)' = M!Current(q)
  BY DEF M!GetOrInit, M!scrapeVars, M!Current
<1>b. \/ /\ mCell[f] = "empty" /\ mCell' = [mCell EXCEPT ![f] = "busy"]
         /\ mAt' = [mAt EXCEPT ![r] = "init"]
      \/ /\ mCell[f] = "set" /\ mCell' = mCell
         /\ mAt' = [mAt EXCEPT ![r] = "update"]
  BY DEF M!GetOrInit, M!RunsClosure
<1> HIDE DEF f
<1>1. MetricsTyped' /\ Counters' /\ Scrape'
  BY <1>0, <1>a, <1>b DEF MetricsInv, MetricsTyped, Counters, Scrape, Fresh
<1>2. Threads'
  BY <1>0, <1>a, <1>b DEF MetricsInv, MetricsTyped, Threads
<1>3. Cells'
  <2> USE DEF MetricsInv, MetricsTyped, Cells
  <2>1. CASE mCell[f] = "set"
    BY <1>0, <1>a, <1>b, <2>1 DEF f
  <2>2. CASE mCell[f] = "empty"
    <3>1. \A q \in Recorder : mAt[q] \in {"init", "update"} => M!Current(q) # f
      BY <2>2
    <3>2. mCell' = [mCell EXCEPT ![f] = "busy"] /\ mAt' = [mAt EXCEPT ![r] = "init"]
      BY <1>b, <2>2
    <3>3. \A q \in Recorder : /\ mAt'[q] = "init" => mCell'[M!Current(q)] = "busy"
                              /\ mAt'[q] = "update" => mCell'[M!Current(q)] = "set"
      <4> TAKE q \in Recorder
      <4>1. CASE q = r
        BY <1>0, <3>2, <4>1 DEF f
      <4>2. CASE q # r
        BY <3>1, <3>2, <4>2
      <4> QED
        BY <4>1, <4>2
    <3>4. \A h \in Families : h \in mRegistered <=> mCell'[h] = "set"
      BY <2>2, <3>2
    <3>5. \A p, q \in Recorder :
             mAt'[p] = "init" /\ mAt'[q] = "init" /\ M!Current(p) = M!Current(q) => p = q
      BY <3>1, <3>2 DEF f
    <3> QED
      BY <1>a, <3>3, <3>4, <3>5
  <2> QED
    BY <1>b, <2>1, <2>2
<1>4. Balance'
  BY <1>a, BalanceStays DEF MetricsInv
<1> QED
  BY <1>1, <1>2, <1>3, <1>4 DEF MetricsInv

\* The closure registers a family that nobody else registers.
LEMMA RegisterKeeps ==
    ASSUME MetricsInv, NEW r \in Recorder, M!Register(r) PROVE MetricsInv'
<1> DEFINE f == M!Current(r)
<1>0. f \in Families /\ mAt[r] = "init" /\ mScraper = "idle"
  BY CurrentIsFamily DEF M!Register
<1>a. /\ UNCHANGED <<mValue, mCall, mNext, mBegun, mReturned, mScraper, mLeft, mSeen,
                     mBefore>>
      /\ \A q \in Recorder : M!Current(q)' = M!Current(q)
  BY DEF M!Register, M!scrapeVars, M!Current
<1>b. /\ mPanicked' = (f \in mRegistered) /\ mRegistered' = mRegistered \cup {f}
      /\ mCell' = [mCell EXCEPT ![f] = "set"] /\ mAt' = [mAt EXCEPT ![r] = "update"]
  BY DEF M!Register
<1>c. mCell[f] = "busy" /\ f \notin mRegistered
  BY <1>0 DEF MetricsInv, Cells, f
<1> HIDE DEF f
<1>1. MetricsTyped' /\ Counters' /\ Scrape'
  BY <1>0, <1>a, <1>b DEF MetricsInv, MetricsTyped, Counters, Scrape, Fresh
<1>2. Threads'
  BY <1>0, <1>a, <1>b DEF MetricsInv, MetricsTyped, Threads
<1>3. Cells'
  <2>1. \A q \in Recorder : mAt[q] = "init" /\ M!Current(q) = f => q = r
    BY <1>0 DEF MetricsInv, Cells, f
  <2>2. ~mPanicked'
    BY <1>b, <1>c
  <2> QED
    BY <1>0, <1>a, <1>b, <2>1, <2>2 DEF MetricsInv, MetricsTyped, Cells, f
<1>4. Balance'
  BY <1>a, <1>b, BalanceStays DEF MetricsInv
<1> QED
  BY <1>1, <1>2, <1>3, <1>4 DEF MetricsInv

\* An update adds one to its family, and the thread is past it or its call has returned.
LEMMA UpdateKeeps ==
    ASSUME MetricsInv, NEW r \in Recorder, M!Update(r) PROVE MetricsInv'
<1> DEFINE g == M!Current(r)
           n == mNext[r]
           c == mCall[r]
<1>0. /\ mAt[r] = "update" /\ g \in Families /\ c \in Seq(Families) /\ n \in 1 .. Len(c)
      /\ g = c[n] /\ \A i, j \in 1 .. Len(c) : c[i] = c[j] => i = j
  BY CurrentIsFamily DEF M!Update, M!Current
<1>a. /\ UNCHANGED <<mCell, mRegistered, mPanicked, mBegun, mScraper, mLeft, mSeen, mBefore>>
      /\ mValue' = [mValue EXCEPT ![g] = @ + 1]
  BY DEF M!Update, M!scrapeVars
<1>c. mRegistered \subseteq Families /\ g \in mRegistered
  BY <1>0 DEF MetricsInv, MetricsTyped, Cells
<1>d. \A f \in Families : mValue'[f] = IF f = g THEN mValue[f] + 1 ELSE mValue[f]
  BY <1>a, <1>0 DEF MetricsInv, Counters
<1>e. mValue' \in [Families -> Nat] /\ Scrape'
  <2>1. mValue' \in [Families -> Nat]
    <3>1. mValue \in [Families -> Nat]
      BY DEF MetricsInv, Counters
    <3>2. g \in Families
      BY <1>0
    <3> HIDE DEF g
    <3> QED
      BY <1>a, <3>1, <3>2
  <2>2. \A f \in Families : mValue[f] \in Nat /\ mBefore[f] \in Nat /\ mSeen[f] \in Nat
    BY DEF MetricsInv, Counters
  <2> QED
    BY <1>a, <1>d, <2>1, <2>2 DEF MetricsInv, Scrape, Fresh
<1>f. /\ IsFiniteSet(Recorder)
      /\ \A f : /\ Under(f) \subseteq Recorder /\ Past(f) \subseteq Recorder
                /\ r \in Under(f) <=> \E i \in 1 .. Len(c) : c[i] = f
                /\ r \in Past(f) <=> \E i \in 1 .. n - 1 : c[i] = f
  BY <1>0, RequestPathsAssumption DEF Under, Past, M!In
<1>g. \A f : /\ IsFiniteSet(Under(f)) /\ IsFiniteSet(Past(f))
             /\ Cardinality(Under(f)) \in Nat /\ Cardinality(Past(f)) \in Nat
  BY <1>f, FS_Subset, FS_CardinalityType
<1>h. /\ mCall \in [Recorder -> Recording \cup {<<>>}] /\ mNext \in [Recorder -> Nat]
      /\ mAt \in [Recorder -> {"idle", "get", "init", "update"}]
  BY DEF MetricsInv, MetricsTyped
<1>i. \A f \in Families : mBegun[f] \in Nat /\ mReturned[f] \in Nat /\ mValue[f] \in Nat
  BY DEF MetricsInv, Counters
<1>j. n \in Nat /\ Len(c) \in Nat
  BY <1>0
<1> HIDE DEF g, n, c
<1>b1. CASE n < Len(c)
  <2>1. /\ mAt' = [mAt EXCEPT ![r] = "get"] /\ mNext' = [mNext EXCEPT ![r] = n + 1]
        /\ UNCHANGED <<mCall, mReturned>>
    BY <1>b1 DEF M!Update, n, c
  <2>2. MetricsTyped' /\ Counters'
    BY <1>a, <1>e, <1>h, <1>j, <2>1 DEF MetricsInv, MetricsTyped, Counters
  <2>3. Threads'
    <3> SUFFICES ASSUME NEW q \in Recorder
                 PROVE  /\ mAt'[q] = "idle" => mCall[q] = <<>> /\ mNext'[q] = 1
                        /\ mAt'[q] # "idle" => /\ mCall[q] \in Recording
                                               /\ mNext'[q] \in 1 .. Len(mCall[q])
      BY <2>1 DEF Threads
    <3>1. CASE q = r
      BY <1>0, <1>b1, <1>h, <1>j, <2>1, <3>1 DEF MetricsInv, Threads, c
    <3>2. CASE q # r
      BY <1>h, <2>1, <3>2 DEF MetricsInv, Threads
    <3> QED
      BY <3>1, <3>2
  <2>4. Cells'
    <3>1. \A q \in Recorder : mAt'[q] \in {"init", "update"} =>
             q # r /\ mAt'[q] = mAt[q] /\ M!Current(q)' = M!Current(q)
      BY <1>h, <2>1 DEF M!Current
    <3> QED
      BY <1>a, <3>1 DEF MetricsInv, Cells
  <2>5. ASSUME NEW f \in Families PROVE Balanced(f)'
    <3>1. Under(f)' = Under(f)
      BY <2>1 DEF Under
    <3>2. \A q \in Recorder : q # r => (q \in Past(f)' <=> q \in Past(f))
      BY <1>h, <2>1 DEF Past
    <3>3. r \in Past(f)' <=> \E i \in 1 .. n : c[i] = f
      BY <1>h, <1>j, <2>1 DEF Past, c
    <3>4. Past(f)' \subseteq Recorder
      BY DEF Past
    <3>5. CASE f = g
      <4>1. r \in Past(f)' /\ r \notin Past(f)
        BY <1>0, <1>f, <1>j, <3>3, <3>5
      <4>2. Past(f)' = Past(f) \cup {r}
        BY <1>f, <3>2, <3>4, <4>1
      <4>3. Cardinality(Past(f)') = Cardinality(Past(f)) + 1
        BY <1>g, <4>1, <4>2, FS_AddElement
      <4> QED
        BY <1>a, <1>c, <1>d, <1>g, <1>i, <2>1, <3>1, <3>5, <4>3
           DEF MetricsInv, Balance, Balanced
    <3>6. CASE f # g
      <4>1. r \in Past(f)' <=> r \in Past(f)
        BY <1>0, <1>f, <1>j, <3>3, <3>6
      <4>2. \A q : q \in Past(f)' <=> q \in Past(f)
        BY <1>f, <3>2, <3>4, <4>1
      <4>3. Past(f)' = Past(f)
        BY <4>2
      <4> QED
        BY <1>a, <1>d, <2>1, <3>1, <3>6, <4>3 DEF MetricsInv, Balance, Balanced
    <3> QED
      BY <3>5, <3>6
  <2> QED
    BY <1>e, <2>2, <2>3, <2>4, <2>5 DEF MetricsInv, Balance
<1>b2. CASE ~(n < Len(c))
  <2>1. /\ mAt' = [mAt EXCEPT ![r] = "idle"] /\ mNext' = [mNext EXCEPT ![r] = 1]
        /\ mCall' = [mCall EXCEPT ![r] = <<>>] /\ mReturned' = M!OneMore(mReturned, c)
    BY <1>b2 DEF M!Update, n, c
  <2>a. n = Len(c)
    BY <1>0, <1>b2, <1>j
  <2>b. \A f \in Families : mReturned'[f] = IF r \in Under(f) THEN mReturned[f] + 1
                                            ELSE mReturned[f]
    BY <2>1 DEF M!OneMore, Under, c
  <2>2. MetricsTyped'
    BY <1>a, <1>h, <2>1 DEF MetricsInv, MetricsTyped
  <2>c. mReturned' \in [Families -> Nat]
    BY <1>i, <2>1 DEF M!OneMore
  <2>d. Counters'
    BY <1>a, <1>e, <2>c DEF MetricsInv, Counters
  <2>3. Threads'
    BY <1>h, <2>1 DEF MetricsInv, Threads
  <2>4. Cells'
    <3>1. \A q \in Recorder : mAt'[q] \in {"init", "update"} =>
             q # r /\ mAt'[q] = mAt[q] /\ M!Current(q)' = M!Current(q)
      BY <1>h, <2>1 DEF M!Current
    <3> QED
      BY <1>a, <3>1 DEF MetricsInv, Cells
  <2>5. ASSUME NEW f \in Families PROVE Balanced(f)'
    <3>1. Under(f)' = Under(f) \ {r}
      BY <1>h, <2>1 DEF Under, M!In
    <3>2. Past(f)' = Past(f) \ {r}
      BY <1>h, <2>1 DEF Past
    <3>3. /\ Cardinality(Under(f)') =
             IF r \in Under(f) THEN Cardinality(Under(f)) - 1 ELSE Cardinality(Under(f))
          /\ Cardinality(Past(f)') =
             IF r \in Past(f) THEN Cardinality(Past(f)) - 1 ELSE Cardinality(Past(f))
      BY <1>g, <3>1, <3>2, FS_RemoveElement
    <3>4. Balanced(f)
      BY DEF MetricsInv, Balance
    <3>5. CASE f = g
      <4>1. r \in Under(f) /\ r \notin Past(f)
        BY <1>0, <1>f, <1>j, <3>5
      <4> QED
        BY <1>a, <1>c, <1>d, <1>g, <1>i, <2>b, <3>3, <3>4, <3>5, <4>1 DEF Balanced
    <3>6. CASE f # g
      <4>1. r \in Under(f) <=> r \in Past(f)
        BY <1>0, <1>f, <1>j, <2>a, <3>6
      <4> QED
        BY <1>a, <1>d, <1>g, <1>i, <2>b, <3>3, <3>4, <3>6, <4>1 DEF Balanced
    <3> QED
      BY <3>5, <3>6
  <2> QED
    BY <1>e, <2>2, <2>d, <2>3, <2>4, <2>5 DEF MetricsInv, Balance
<1> QED
  BY <1>b1, <1>b2

\* The scrape collects values that have not gone back since it began.
LEMMA ScrapeKeeps ==
    ASSUME MetricsInv, M!Gather \/ M!Encoded \/ \E f \in Families : M!Collect(f)
    PROVE  MetricsInv'
<1>1. /\ UNCHANGED <<mCell, mRegistered, mValue, mPanicked, mAt, mCall, mNext, mBegun, mReturned>>
      /\ \A q \in Recorder : M!Current(q)' = M!Current(q)
  BY DEF M!Gather, M!Encoded, M!Collect, M!threadVars, M!Current
<1>2. Threads' /\ Cells'
  BY <1>1 DEF MetricsInv, Threads, Cells
<1>3. Balance'
  BY <1>1, BalanceStays DEF MetricsInv
<1>4. \A f \in Families : /\ mReturned[f] \in 0 .. MaxCalls /\ mValue[f] \in 0 .. MaxCalls
                          /\ mReturned[f] <= mValue[f]
                          /\ f \notin mRegistered => mValue[f] = 0
  BY ValueBetween, RequestPathsAssumption DEF MetricsInv, Counters, Balance, Balanced
<1>5. MetricsTyped' /\ Counters' /\ Scrape'
  <2>1. CASE M!Gather
    <3>1. /\ mScraper' = "gathering" /\ mLeft' = mRegistered
          /\ mSeen' = [f \in Families |-> 0] /\ mBefore' = mReturned
      BY <2>1 DEF M!Gather, M!Zero
    <3>2. MetricsTyped'
      BY <1>1, <3>1 DEF MetricsInv, MetricsTyped
    <3>3. Counters'
      BY <1>1, <1>4, <3>1, RequestPathsAssumption DEF MetricsInv, Counters
    <3>4. Scrape'
      BY <1>1, <1>4, <3>1 DEF Scrape, Fresh
    <3> QED
      BY <3>2, <3>3, <3>4
  <2>2. CASE M!Encoded
    BY <1>1, <2>2 DEF M!Encoded, MetricsInv, MetricsTyped, Counters, Scrape, Fresh
  <2>3. ASSUME NEW f \in Families, M!Collect(f) PROVE MetricsTyped' /\ Counters' /\ Scrape'
    <3>1. /\ f \in mLeft /\ mLeft' = mLeft \ {f}
          /\ mSeen' = [mSeen EXCEPT ![f] = mValue[f]] /\ UNCHANGED <<mScraper, mBefore>>
      BY <2>3 DEF M!Collect
    <3>2. MetricsTyped'
      BY <1>1, <3>1 DEF MetricsInv, MetricsTyped
    <3>3. Counters'
      BY <1>1, <1>4, <3>1 DEF MetricsInv, Counters
    <3>4. Scrape'
      BY <1>1, <1>4, <3>1 DEF MetricsInv, Counters, Scrape, Fresh
    <3> QED
      BY <3>2, <3>3, <3>4
  <2> QED
    BY <2>1, <2>2, <2>3
<1> QED
  BY <1>2, <1>3, <1>5 DEF MetricsInv

\* The invariant of the metrics holds throughout.
LEMMA MetricsInvariant == M!Spec => []MetricsInv
<1>1. ASSUME MetricsInv, [M!Next]_(M!vars) PROVE MetricsInv'
  <2>1. CASE M!Over \/ UNCHANGED M!vars
    <3>1. UNCHANGED <<mCell, mRegistered, mValue, mAt, mCall, mNext, mPanicked, mBegun,
                      mReturned, mScraper, mLeft, mSeen, mBefore>>
      BY <2>1 DEF M!Over, M!vars, M!threadVars, M!scrapeVars
    <3>2. \A q \in Recorder : M!Current(q)' = M!Current(q)
      BY <3>1 DEF M!Current
    <3>3. Balance'
      BY <1>1, <3>1, BalanceStays DEF MetricsInv
    <3> QED
      BY <1>1, <3>1, <3>2, <3>3
         DEF MetricsInv, MetricsTyped, Counters, Threads, Cells, Scrape, Fresh
  <2> QED
    BY <1>1, <2>1, RecordKeeps, GetOrInitKeeps, RegisterKeeps, UpdateKeeps, ScrapeKeeps
       DEF M!Next
<1> QED
  BY <1>1, MetricsInit, PTL DEF M!Spec

\* First uses of a family on several threads do not panic, and a scrape shows in every
\* family all calls that returned before it began and none that had not begun when it
\* ended, for any number of threads, families and record functions.
THEOREM ScrapesAreFresh == M!Spec => []ScrapeIsFresh
<1>1. MetricsInv => ScrapeIsFresh
  <2> SUFFICES ASSUME MetricsInv PROVE ScrapeIsFresh
    OBVIOUS
  <2>1. \A f \in Families : /\ mValue[f] <= mBegun[f] /\ mValue[f] \in Nat /\ mBegun[f] \in Nat
                            /\ mSeen[f] \in Nat /\ mBefore[f] \in Nat
    BY ValueBetween DEF MetricsInv, Counters
  <2> QED
    BY <2>1 DEF MetricsInv, Cells, Scrape, Fresh, ScrapeIsFresh, M!ScrapeIsFresh
<1> QED
  BY <1>1, MetricsInvariant, PTL

-----------------------------------------------------------------------------
\* Every variable of the five components has its type, evaluate never indexes past the
\* list it loaded, and no counter of the metrics exceeds the calls that began.
THEOREM AllTyped == Spec /\ G!Spec /\ P!Spec /\ M!Spec /\ E!Spec => []Types
<1>1. HandlerInv /\ GStatusOK => G!TypeOK
  BY DEF HandlerInv, GStatusOK, G!TypeOK
<1>2. ProxyInv /\ ProxyNumbers => P!TypeOK
  BY DEF ProxyInv, ProxyTyped, Accounted, ProxyNumbers, PStatusOK, P!TypeOK
<1>3. ASSUME MetricsInv PROVE M!TypeOK
  <2>1. \A f \in Families : /\ mValue[f] \in 0 .. MaxCalls /\ mBegun[f] \in 0 .. MaxCalls
                            /\ mReturned[f] \in 0 .. MaxCalls
    BY <1>3, ValueBetween, RequestPathsAssumption DEF MetricsInv, Counters
  <2>2. {mValue, mBegun, mReturned, mSeen, mBefore} \subseteq [Families -> 0 .. MaxCalls]
    BY <1>3, <2>1 DEF MetricsInv, Counters
  <2> QED
    BY <1>3, <2>2 DEF MetricsInv, MetricsTyped, M!TypeOK
<1> QED
  BY <1>1, <1>2, <1>3, TypeCorrect, HandlerInvariant, ProxyInvariant, MetricsInvariant,
     PolicyTyped, PTL DEF Types
=============================================================================
