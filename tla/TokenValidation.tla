--------------------------- MODULE TokenValidation ---------------------------
(***************************************************************************)
(* Who signs tokens and who accepts them: the two issuing handlers of the   *)
(* control plane (HandleToken of auth.go, HandleDevPortalRegister of        *)
(* api.go), an identity provider of the operator's, and the validators of   *)
(* rust-gateway (jwt.rs), of gateway (jwt.rs) and of the LLM proxy          *)
(* (internal/auth/jwt.go).  Each validator loads one public key at start    *)
(* from a file the operator maintains.  The handlers of the gateways do not *)
(* call their validators yet; the proxy's chain does.                       *)
(*                                                                          *)
(* The token libraries are external: a signature verifies exactly with the  *)
(* key it was made with and an algorithm of that key's family.  Times are   *)
(* in units of the longest leeway, 60 seconds; the 30 seconds by which the   *)
(* control plane dates nbf back are none.                                   *)
(***************************************************************************)
EXTENDS Naturals, FiniteSets

CONSTANTS ProviderFamilies,  \* the families the identity provider has keys of
          Lifetime,     \* of a token: an hour, a day
          Leeway,       \* 60 seconds: the default of Validation, which rust-gateway keeps
          RustIssuer,   \* config.jwt.issuer of rust-gateway
          MaxTime,      \* bound of the clock
          MaxStarts,    \* bound on starts of the control plane
          MaxTokens     \* bound on tokens in circulation

Validators == {"rust", "tls", "proxy"}
NoKey      == [owner |-> "none", n |-> 0, family |-> "none"]

\* The identity provider's keys.
ProviderKey == {[owner |-> "provider", n |-> 1, family |-> f] : f \in ProviderFamilies}

\* An algorithm and the family of keys it works with.
FamilyOf == [EdDSA |-> "Ed", RS256 |-> "RSA", PS512 |-> "RSA", ES256 |-> "EC"]

VARIABLES clock,
          starts,    \* starts of the control plane so far; each makes new signing keys
          tokens,    \* tokens in circulation
          file,      \* the key in the PEM file, NoKey without a file
          loaded     \* per validator: the key it loaded at its start

vars == <<clock, starts, tokens, file, loaded>>

\* ed25519.GenerateKey at start, once for auth.Service and once for the portal.  Their
\* public halves are published nowhere (HandleJWKS returns no keys); the model lets the
\* operator have them all the same.
ServiceKey == [owner |-> "service", n |-> starts, family |-> "Ed"]
PortalKey  == [owner |-> "portal", n |-> starts, family |-> "Ed"]

Init ==
    /\ clock = 0
    /\ starts = 1
    /\ tokens = {}
    /\ file \in ProviderKey \cup {NoKey, ServiceKey, PortalKey}
    /\ loaded = [v \in Validators |-> NoKey]

-----------------------------------------------------------------------------
(* Issuing                                                                   *)

\* dated: whether the token has the claim exp, which a provider may leave out.
Token(key, alg, iss, aud, form, dated) ==
    [key |-> key, alg |-> alg, iss |-> iss, aud |-> aud, form |-> form, dated |-> dated,
     nbf |-> clock, exp |-> clock + Lifetime]

Issue(t) ==
    /\ Cardinality(tokens) < MaxTokens
    /\ tokens' = tokens \cup {t}
    /\ UNCHANGED <<clock, starts, file, loaded>>

\* jwt.ClaimStrings is written as an array, also when it has one element.
ServiceToken ==
    Token(ServiceKey, "EdDSA", "https://appgate.example.com", "appgate-gateway", "array",
          TRUE)

HandleToken == Issue(ServiceToken)

HandleDevPortalRegister ==
    Issue(Token(PortalKey, "EdDSA", "appgate-control-plane", "appgate-gateway", "array",
                TRUE))

\* The operator's identity provider signs whatever it is asked for.
ProviderSigns(k, alg, iss, aud, form, dated) ==
    /\ FamilyOf[alg] = k.family
    /\ Issue(Token(k, alg, iss, aud, form, dated))

\* The control plane starts again, with new keys.
RestartControlPlane ==
    /\ starts < MaxStarts
    /\ starts' = starts + 1
    /\ UNCHANGED <<clock, tokens, file, loaded>>

-----------------------------------------------------------------------------
(* The validators                                                            *)

InstallKey(k) ==
    /\ k # file
    /\ file' = k
    /\ UNCHANGED <<clock, starts, tokens, loaded>>

\* What the constructor does with the file: rust-gateway tries the three families in
\* turn and does not start without a key; gateway reads RSA keys only, and goes on
\* without one if there is no file; the proxy knows RSA and EC keys, likewise.
Families == [rust |-> {"Ed", "RSA", "EC"}, tls |-> {"RSA", "none"},
             proxy |-> {"RSA", "EC", "none"}]

\* A process that cannot make its validator of the file does not start; a running one
\* never looks at the file again.
StartValidator(v) ==
    /\ file.family \in Families[v]
    /\ loaded' = [loaded EXCEPT ![v] = file]
    /\ UNCHANGED <<clock, starts, tokens, file>>

Tick ==
    /\ clock < MaxTime
    /\ clock' = clock + 1
    /\ UNCHANGED <<starts, tokens, file, loaded>>

\* Signature and algorithm.  rust-gateway pins EdDSA whatever key it loaded; gateway
\* takes the algorithm from the token's header, and the library compares its family with
\* the key's; the proxy accepts the RSA and ECDSA methods, of which the PSS ones are none.
SignatureOk(v, t) ==
    /\ loaded[v] = t.key
    /\ CASE v = "rust"  -> t.alg = "EdDSA" /\ loaded[v].family = "Ed"
         [] v = "tls"   -> FamilyOf[t.alg] = loaded[v].family
         [] v = "proxy" -> t.alg \in {"RS256", "ES256"}

\* Issuer and audience, gateway's with their defaults; the proxy checks neither.  The
\* audience in rust-gateway's Claims is a String, which an array does not fit; gateway
\* has a deserializer for both forms.
ClaimsOk(v, t) ==
    CASE v = "rust"  -> t.iss = RustIssuer /\ t.aud = "appgate-gateway" /\ t.form = "string"
      [] v = "tls"   -> t.iss = "https://appgate.example.com" /\ t.aud = "appgate-gateway"
      [] v = "proxy" -> TRUE

\* exp with the leeway of each; the gateways require the claim and leave nbf unchecked,
\* the proxy takes a token without exp for one that never expires.
TimeOk(v, t) ==
    CASE v = "rust"  -> t.dated /\ clock <= t.exp + Leeway
      [] v = "tls"   -> t.dated /\ clock <= t.exp
      [] v = "proxy" -> (t.dated => clock < t.exp) /\ t.nbf <= clock

\* validate, Middleware.
Accepts(v, t) == SignatureOk(v, t) /\ ClaimsOk(v, t) /\ TimeOk(v, t)

-----------------------------------------------------------------------------
Next ==
    \/ HandleToken \/ HandleDevPortalRegister
    \/ \E k \in ProviderKey, alg \in DOMAIN FamilyOf, form \in {"string", "array"},
          dated \in BOOLEAN :
             \/ ProviderSigns(k, alg, "https://appgate.example.com", "appgate-gateway",
                              form, dated)
             \/ ProviderSigns(k, alg, "https://other.example.com", "other", form, dated)
    \/ RestartControlPlane
    \/ \E k \in ProviderKey \cup {NoKey, ServiceKey, PortalKey} : InstallKey(k)
    \/ \E v \in Validators : StartValidator(v)
    \/ Tick

Spec == Init /\ [][Next]_vars

-----------------------------------------------------------------------------
\* The control plane signs tokens for the gateway: the issuer and the audience HandleToken
\* writes are those of the gateways' configuration.  A gateway that runs with the key a
\* token was signed with accepts the token until it expires.  (Violated: rust-gateway,
\* the only one that can load such a key, cannot read the audience.)
SignedTokenAccepted ==
    \A v \in Validators : \A t \in tokens :
        t.key.owner = "service" /\ loaded[v] = t.key /\ clock < t.exp => Accepts(v, t)
=============================================================================
