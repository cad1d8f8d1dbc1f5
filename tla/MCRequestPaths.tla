---------------------------- MODULE MCRequestPaths ----------------------------
(***************************************************************************)
(* The paths of requests through the three data planes, for TLC: the TLS    *)
(* gateway, the Rust gateway's handlers and the LLM proxy; the policy       *)
(* engine and the checks of upstream URLs that decide on access; and the    *)
(* metrics both gateways keep on the way.  They share no state, so the      *)
(* initial state picks one and the others stand still: the states explored  *)
(* are the sum and not the product of theirs.                               *)
(***************************************************************************)
EXTENDS TlsGateway, MCPolicies, Sequences, FiniteSets

CONSTANTS Request, Upstream, Burst,
          RouteList, DefaultUrl,
          Recorder, Families, Recording, MaxCalls,
          Caller, PolicySpec, MaxList, Ask, Answers,
          Names, Addresses, Domains, Defaults

VARIABLES path,       \* the one that runs
          gAt, gIn, gUrl, gSent, gStatus, gMetered,
          pPublicKey, pAt, pIn, pStatus, pCount, pCharged, pUnchecked, pForwarded,
          pMetered, pLogged,
          mCell, mRegistered, mValue, mAt, mCall, mNext, mPanicked, mBegun, mReturned,
          mScraper, mLeft, mSeen, mBefore,
          eServed, eEdits, ePolicies, eHealthy, eTask, eAt, eAsk, eSnap, eNext, eVerdict,
          uApproved, uEnabled

\* A table with a prefix shadowed by an earlier one and an upstream that was left empty.
MCRouteList == << [prefix |-> {"/v1/chat/completions"}, upstream |-> "http://openai"],
                  [prefix |-> {"/v1/proxy", "/v1/chat/completions"}, upstream |-> ""] >>

\* record_request of rust-gateway, of gateway, and a function of one family.
MCFamilies  == {"requests", "duration", "handshake"}
MCRecording == {<<"requests", "duration">>, <<"duration", "requests">>, <<"handshake">>}

\* The approved names, names above and below them, localhost in two places; addresses of
\* every class; and as domains all of these and the end of an address.
MCNames ==
    {<<"localhost">>, <<"svc", "localhost">>, <<"com">>, <<"openai", "com">>,
     <<"api", "openai", "com">>, <<"eu", "api", "openai", "com">>}
MCAddresses ==
    {[kind |-> "v4", labels |-> <<"127", "0", "0", "1">>, class |-> "loopback"],
     [kind |-> "v4", labels |-> <<"10", "0", "113", "5">>, class |-> "private"],
     [kind |-> "v4", labels |-> <<"169", "254", "113", "5">>, class |-> "link_local"],
     [kind |-> "v4", labels |-> <<"203", "0", "113", "5">>, class |-> "public"],
     [kind |-> "v6", labels |-> <<"[::]">>, class |-> "unspecified"],
     [kind |-> "v6", labels |-> <<"[ff02::1]">>, class |-> "multicast"],
     [kind |-> "v6", labels |-> <<"[2001:db8::1]">>, class |-> "public"]}
MCDomains ==
    (MCNames \ {<<"api", "openai", "com">>}) \cup {<<"113", "5">>}
        \cup {a.labels : a \in {b \in MCAddresses : b.class # "link_local"}}
MCDefaults == {<<"api", "openai", "com">>, <<"api", "anthropic", "com">>}

G == INSTANCE GatewayRequest
       WITH Routes <- RouteList, Default <- DefaultUrl, at <- gAt, in <- gIn, url <- gUrl,
            sent <- gSent, status <- gStatus, metered <- gMetered

P == INSTANCE LLMProxy
       WITH publicKey <- pPublicKey, at <- pAt, in <- pIn, status <- pStatus,
            count <- pCount, charged <- pCharged, unchecked <- pUnchecked,
            forwarded <- pForwarded, metered <- pMetered, logged <- pLogged

M == INSTANCE Metrics
       WITH Family <- Families, Calls <- Recording, cell <- mCell,
            registered <- mRegistered, value <- mValue, at <- mAt, call <- mCall,
            next <- mNext, panicked <- mPanicked, begun <- mBegun,
            returned <- mReturned, scraper <- mScraper, left <- mLeft, seen <- mSeen,
            before <- mBefore

E == INSTANCE PolicyEngine
       WITH served <- eServed, edits <- eEdits, policies <- ePolicies,
            healthy <- eHealthy, task <- eTask, at <- eAt, ask <- eAsk, snap <- eSnap,
            next <- eNext, verdict <- eVerdict

U == INSTANCE SsrfGuards WITH approved <- uApproved, enabled <- uEnabled

ASSUME RequestPathsAssumption ==
    /\ Burst \in Nat /\ MaxCalls \in Nat
    /\ IsFiniteSet(Recorder)
    /\ \A s \in Recording :
          /\ s # <<>> /\ s \in Seq(Families)
          /\ \A i, j \in DOMAIN s : s[i] = s[j] => i = j
    /\ MaxList \in Nat
    /\ Answers \subseteq {"list", "object", "status", "error"}
    /\ Defaults # {}

gVars == <<gAt, gIn, gUrl, gSent, gStatus, gMetered>>
pVars == <<pPublicKey, pAt, pIn, pStatus, pCount, pCharged, pUnchecked, pForwarded,
           pMetered, pLogged>>
mVars == <<mCell, mRegistered, mValue, mAt, mCall, mNext, mPanicked, mBegun, mReturned,
           mScraper, mLeft, mSeen, mBefore>>
eVars == <<eServed, eEdits, ePolicies, eHealthy, eTask, eAt, eAsk, eSnap, eNext, eVerdict>>
uVars == <<uApproved, uEnabled>>
all   == <<path, vars, gVars, pVars, mVars, eVars, uVars>>

\* One initial state for a component that stands still.
AtRest(p) ==
    /\ p # "tls"    => insists = (CHOOSE b \in NeedsTimer : TRUE)
    /\ p # "proxy"  => pPublicKey = "none"
    /\ p # "policy" => eAsk = [c \in Caller |-> CHOOSE a \in Ask : TRUE]

MCInit ==
    /\ path \in {"tls", "rust", "proxy", "metrics", "policy", "urls"}
    /\ AtRest(path)
    /\ Init /\ G!Init /\ P!Init /\ M!Init /\ E!Init /\ U!Init

TlsStep ==
    path = "tls" /\ Next /\ UNCHANGED <<path, gVars, pVars, mVars, eVars, uVars>>
RustStep ==
    path = "rust" /\ G!Next /\ UNCHANGED <<path, vars, pVars, mVars, eVars, uVars>>
ProxyStep ==
    path = "proxy" /\ P!Next /\ UNCHANGED <<path, vars, gVars, mVars, eVars, uVars>>
MetricsStep ==
    path = "metrics" /\ M!Next /\ UNCHANGED <<path, vars, gVars, pVars, eVars, uVars>>
PolicyStep ==
    path = "policy" /\ E!Next /\ UNCHANGED <<path, vars, gVars, pVars, mVars, uVars>>
UrlStep ==
    path = "urls" /\ U!Next /\ UNCHANGED <<path, vars, gVars, pVars, mVars, eVars>>

MCNext == TlsStep \/ RustStep \/ ProxyStep \/ MetricsStep \/ PolicyStep \/ UrlStep

\* The fairness of TlsGateway!Fairness and of GatewayRequest!FairSpec, for the path that
\* runs.
MCFairness ==
    /\ WF_vars(path = "tls" /\ Bind)
    /\ WF_vars(path = "tls" /\ LoadTls)
    /\ WF_vars(path = "tls" /\ ServerStopped)
    /\ \A c \in Conn : WF_vars(path = "tls" /\ ForwardFails(c))
    /\ \A r \in Request :
          /\ WF_gVars(path = "rust" /\ (G!ForwardSends(r) \/ G!ForwardFails(r)))
          /\ WF_gVars(path = "rust" /\ G!RequestCompleted(r))

MCSpec == MCInit /\ [][MCNext]_all /\ MCFairness

-----------------------------------------------------------------------------
\* Every variable has its type; no counter wraps.
Types == TypeOK /\ G!TypeOK /\ P!TypeOK /\ M!TypeOK /\ E!TypeOK

\* What either path sends upstream has passed every check that comes before, whatever
\* its route and however often handlers are dropped: handle_proxy sends no request whose
\* body was too large or unreadable, and the proxy none that was not authenticated with a
\* configured key and counted by the limiter (or passed on because Redis failed), none
\* twice, and none that asks for more than 4096 tokens.
OnlyCheckedIsSent == G!SizeLimitEnforced /\ P!ForwardedIsChecked

\* However requests interleave between the proxy's two calls, its audit trail holds only
\* what was metered, its metrics only what an upstream received, and a request that was
\* answered is in both or in neither: in both when it got its upstream's answer.
AuditMatchesMetrics == P!AuditMatchesMetrics

\* A request that either gateway handed to its forward ends, whatever the upstream does:
\* never answers, breaks off its answer, or answers when the client is gone.
EveryForwardEnds == G!ForwardEnds /\ ForwardEnds

\* First uses of a family on several threads do not panic, and a scrape shows all calls
\* that returned before it began and none that had not begun when it ended.
ScrapeIsFresh == M!ScrapeIsFresh

\* While the list is swapped under it, evaluate answers for the one list it loaded.
DecisionOfOneList == E!DecisionOfOneList

\* The gateway refuses nothing the control plane's engine grants for the same list, and
\* grants more only by a policy with empty providers or models.
EnginesDifferOnlyOnEmpty == E!EnginesDifferOnlyOnEmpty

\* Whatever strings are approved, gateway's check of an upstream accepts nothing that
\* rust-gateway's refuses, no private or link-local v4 address, and only hosts that
\* somebody approved.
StricterThanRust == U!StricterThanRust
=============================================================================
