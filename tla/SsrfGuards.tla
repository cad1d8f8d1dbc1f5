----------------------------- MODULE SsrfGuards -----------------------------
(***************************************************************************)
(* The two checks of upstream URLs: SsrfGuard::validate_url of rust-gateway *)
(* (ssrf.rs) and SSRFDefense of gateway (ssrf.rs), whose list of approved   *)
(* domains grows at run time and which can be switched off.                 *)
(*                                                                          *)
(* Parsing is external (crate url): an input is no URL, or a URL whose host *)
(* is absent, a name, or an address.  What host_str returns is split at its *)
(* dots into labels, for an address too: a v4 address has four, a v6        *)
(* address, written in brackets, one.  An address also has the class that   *)
(* std::net puts it in.                                                     *)
(***************************************************************************)
EXTENDS Naturals, Sequences, SequencesExt

CONSTANTS Names,      \* host names
          Addresses,  \* addresses: [kind : {"v4", "v6"}, labels, class : Classes]
          Domains,    \* strings that approve_domain may be called with
          Defaults    \* the domains new_with_defaults approves

Classes   == {"loopback", "unspecified", "multicast", "private", "link_local", "public"}
Hosts     == [kind : {"name"}, labels : Names] \cup Addresses
Inputs    == Hosts \cup [kind : {"invalid", "no_host"}]

VARIABLES approved, enabled
vars == <<approved, enabled>>

\* new_with_defaults.
Init == approved = Defaults /\ enabled = TRUE

\* Any string: a name, an address, or the end of one.
ApproveDomain(d) == approved' = approved \cup {d} /\ UNCHANGED enabled
SetEnabled(b)    == enabled' = b /\ UNCHANGED approved

Next == \/ \E d \in Domains : ApproveDomain(d)
        \/ \E b \in BOOLEAN : SetEnabled(b)

Spec == Init /\ [][Next]_vars

-----------------------------------------------------------------------------
\* BLOCKED_HOSTS holds addresses too, of which the loopback and unspecified classes catch
\* every one; host_str writes a v6 address in brackets, so "::1" is left to its class.
BlockedHost(u) == u.kind = "name" /\ u.labels = <<"localhost">>

IsAddress(u)    == u.kind \in {"v4", "v6"}
InternalIp(u)   == IsAddress(u) /\ u.class \in {"loopback", "unspecified", "multicast"}
\* is_private and is_link_local are asked of v4 addresses only.
PrivateRange(u) == u.kind = "v4" /\ u.class \in {"private", "link_local"}

\* host == d || host.ends_with(".d"), of names and addresses alike.
ApprovedHost(u) == \E d \in approved : IsSuffix(d, u.labels)

\* rust-gateway.
ValidateUrl(u) == u.kind # "invalid" /\ ~BlockedHost(u) /\ ~InternalIp(u)

\* gateway: an empty list approves every host, a URL without a host needs no approval
\* (mutant: an approved domain is let through before the other checks).
ValidateUpstreamApprovedFirst(u) ==
    \/ ~enabled
    \/ u \in Hosts /\ ApprovedHost(u)
    \/ ValidateUrl(u) /\ ~PrivateRange(u) /\ (approved = {} \/ u.kind = "no_host")
ValidateUpstream(u) ==
    \/ ~enabled
    \/ /\ u.kind # "invalid"
       /\ ~BlockedHost(u) /\ ~InternalIp(u) /\ ~PrivateRange(u)
       /\ approved # {} /\ u.kind # "no_host" => ApprovedHost(u)

-----------------------------------------------------------------------------
\* Whatever is approved while the gateway runs, localhost and addresses included, as long
\* as the check is on gateway accepts nothing that rust-gateway refuses and no private or
\* link-local v4 address, and a host it accepts, name or address, is one somebody
\* approved or lies under one.
StricterThanRust ==
    enabled => \A u \in Inputs :
        ValidateUpstream(u) => /\ ValidateUrl(u)
                               /\ ~PrivateRange(u)
                               /\ u.kind # "no_host" => ApprovedHost(u)
=============================================================================
