----------------------------- MODULE PolicyEngine -----------------------------
(***************************************************************************)
(* PolicyEngine of gateway/src/policy.rs: a background task fetches the     *)
(* policies from the control plane every minute and publishes the list by   *)
(* swapping a pointer; evaluate runs on other threads at the same time,     *)
(* loads the pointer once and walks the list.  Also the control plane's own *)
(* Policy.Evaluate (control-plane/internal/policy/policy.go).               *)
(***************************************************************************)
EXTENDS Naturals, Sequences

CONSTANTS Caller,
          PolicySpec,     \* the policy specs an administrator writes
          MaxList,   \* bound on the length of a list of policies
          Ask,       \* what is asked: [user, roles, provider, model]
          Answers    \* the answers to a fetch, among those the engine tells apart:
                     \* "list" (a JSON array, what it parses), "object" (what this
                     \* repository's control plane sends), "status", "error"

Lists == UNION {[1 .. n -> PolicySpec] : n \in 0 .. MaxList}

-----------------------------------------------------------------------------
(* Pure part                                                                 *)

\* matches_subject: one of the roles, or the user; groups are not looked at.
MatchesSubject(p, a) == p.roles \cap a.roles # {} \/ a.user \in p.users

\* The loop body of evaluate: an empty set of providers or models is a wildcard (mutant:
\* the models are not looked at).
MatchesAnyModel(p, a) ==
    /\ MatchesSubject(p, a)
    /\ p.providers = {} \/ a.provider \in p.providers
Matches(p, a) ==
    /\ MatchesSubject(p, a)
    /\ p.providers = {} \/ a.provider \in p.providers
    /\ p.models = {} \/ a.model \in p.models

\* Policy.Evaluate of the control plane: nothing is a wildcard.
Evaluate(p, a) ==
    /\ p.roles \cap a.roles # {} \/ a.user \in p.users
    /\ a.provider \in p.providers
    /\ a.model \in p.models

\* The answer of evaluate for a list: the first policy that matches, 0 for a denial.
Verdict(list, a) ==
    LET hits == {i \in DOMAIN list : Matches(list[i], a)}
    IN  IF hits = {} THEN 0 ELSE CHOOSE i \in hits : \A j \in hits : i <= j

-----------------------------------------------------------------------------
VARIABLES served,    \* the control plane's list of policies
          edits,     \* "open" while policies are edited and fetches fail, then "over"
          policies,  \* the list published in the ArcSwap
          healthy,
          task,      \* the refresh task: "fetch" or "sleep"
          at,        \* per caller: "idle", "loop", "decided"
          ask,       \* per caller: what is asked
          snap,      \* per caller: the list loaded
          next,      \* per caller: index of the policy to look at
          verdict    \* per caller: index of the granting policy, 0 for a denial

vars == <<served, edits, policies, healthy, task, at, ask, snap, next, verdict>>
engine == <<policies, healthy, task>>
evals  == <<at, ask, snap, next, verdict>>

Init ==
    /\ served = <<>>
    /\ edits = "open"
    /\ policies = <<>>
    /\ healthy = "yes"
    /\ task = "fetch"
    /\ at = [c \in Caller |-> "idle"]
    /\ ask \in [Caller -> Ask]
    /\ snap = [c \in Caller |-> <<>>]
    /\ next = [c \in Caller |-> 1]
    /\ verdict = [c \in Caller |-> 0]

\* The policies are changed in the control plane (external).
Edit(l) ==
    /\ edits = "open"
    /\ served' = l
    /\ UNCHANGED <<edits, engine, evals>>

EditsOver ==
    /\ edits = "open"
    /\ edits' = "over"
    /\ UNCHANGED <<served, engine, evals>>

-----------------------------------------------------------------------------
(* start_policy_refresh                                                      *)

\* A JSON array of policies: it is published.
FetchList ==
    /\ task = "fetch"
    /\ "list" \in Answers
    /\ policies' = served
    /\ healthy' = "yes"
    /\ task' = "sleep"
    /\ UNCHANGED <<served, edits, evals>>

\* A body that is no array, or a status that is no success: only logged.
FetchRejected ==
    /\ task = "fetch"
    /\ \/ "object" \in Answers
       \/ "status" \in Answers /\ edits = "open"
    /\ task' = "sleep"
    /\ UNCHANGED <<served, edits, policies, healthy, evals>>

FetchError ==
    /\ task = "fetch"
    /\ "error" \in Answers /\ edits = "open"
    /\ healthy' = "no"
    /\ task' = "sleep"
    /\ UNCHANGED <<served, edits, policies, evals>>

\* sleep(60s), and the loop.
SleepEnds ==
    /\ task = "sleep"
    /\ task' = "fetch"
    /\ UNCHANGED <<served, edits, policies, healthy, evals>>

-----------------------------------------------------------------------------
(* evaluate                                                                  *)

\* policies.load(); the early return for an empty list.
Load(c) ==
    /\ at[c] = "idle"
    /\ snap' = [snap EXCEPT ![c] = policies]
    /\ at' = [at EXCEPT ![c] = IF policies = <<>> THEN "decided" ELSE "loop"]
    /\ UNCHANGED <<served, edits, engine, ask, next, verdict>>

\* The list the loop walks (mutant: loaded again for every policy).
WalkedReloaded(c) == policies
Walked(c)         == snap[c]

LookAtNext(c) ==
    /\ at[c] = "loop"
    /\ next[c] <= Len(Walked(c))
    /\ IF Matches(Walked(c)[next[c]], ask[c])
       THEN /\ verdict' = [verdict EXCEPT ![c] = next[c]]
            /\ at' = [at EXCEPT ![c] = "decided"]
            /\ UNCHANGED next
       ELSE /\ next' = [next EXCEPT ![c] = @ + 1]
            /\ UNCHANGED <<verdict, at>>
    /\ UNCHANGED <<served, edits, engine, ask, snap>>

NoMatch(c) ==
    /\ at[c] = "loop"
    /\ next[c] > Len(Walked(c))
    /\ at' = [at EXCEPT ![c] = "decided"]
    /\ UNCHANGED <<served, edits, engine, ask, snap, next, verdict>>

\* The caller goes on; its next question is another one.
Return(c) ==
    /\ at[c] = "decided"
    /\ at' = [at EXCEPT ![c] = "idle"]
    /\ \E a \in Ask : ask' = [ask EXCEPT ![c] = a]
    /\ snap' = [snap EXCEPT ![c] = <<>>]
    /\ next' = [next EXCEPT ![c] = 1]
    /\ verdict' = [verdict EXCEPT ![c] = 0]
    /\ UNCHANGED <<served, edits, engine>>

Refresh == FetchList \/ FetchRejected \/ FetchError \/ SleepEnds

Next ==
    \/ \E l \in Lists : Edit(l)
    \/ EditsOver
    \/ Refresh
    \/ \E c \in Caller : Load(c) \/ LookAtNext(c) \/ NoMatch(c) \/ Return(c)

Spec == Init /\ [][Next]_vars

\* The refresh task is a loop on the runtime, its requests have a timeout.
FairSpec == Spec /\ WF_vars(Refresh)

-----------------------------------------------------------------------------
\* Every variable has its type; the walk never leaves the list that was loaded.
TypeOK ==
    /\ served \in Lists
    /\ edits \in {"open", "over"}
    /\ policies \in Lists
    /\ healthy \in {"yes", "no"}
    /\ task \in {"fetch", "sleep"}
    /\ at \in [Caller -> {"idle", "loop", "decided"}]
    /\ ask \in [Caller -> Ask]
    /\ snap \in [Caller -> Lists]
    /\ next \in [Caller -> Nat]
    /\ verdict \in [Caller -> Nat]
    /\ \A c \in Caller : next[c] \in 1 .. Len(snap[c]) + 1 /\ verdict[c] <= Len(snap[c])

\* While the list is swapped under it, evaluate decides as if it had run in one instant:
\* its answer is the answer for the list that was published when it was called, never
\* for a mixture of two lists.
DecisionOfOneList ==
    \A c \in Caller : at[c] = "decided" => verdict[c] = Verdict(snap[c], ask[c])

\* The gateway refuses nothing that the control plane's own engine grants for the list it
\* loaded, and what it grants beyond that it grants by a policy whose providers or models
\* are empty: a wildcard to the gateway, "nothing" to the control plane.  Lists with such
\* policies, and any mixture of them, are among those served.
EnginesDifferOnlyOnEmpty ==
    \A c \in Caller : at[c] = "decided" =>
        /\ (\E i \in DOMAIN snap[c] : Evaluate(snap[c][i], ask[c])) => verdict[c] # 0
        /\ verdict[c] # 0 =>
              LET p == snap[c][verdict[c]]
              IN  Evaluate(p, ask[c]) \/ p.providers = {} \/ p.models = {}

\* Once edits are over, the gateway enforces what the control plane serves.
PoliciesArrive == (edits = "over") ~> (policies = served)
=============================================================================
