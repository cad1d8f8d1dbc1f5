------------------------------- MODULE Metrics -------------------------------
(***************************************************************************)
(* metrics.rs of both gateways: families of the Prometheus registry that    *)
(* are registered by their first use, updated by handlers on several        *)
(* threads and read by gather_metrics for a scrape of /metrics.             *)
(*                                                                          *)
(* A call of record_request updates two families one after the other        *)
(* (counter first in rust-gateway, histogram first in gateway), the other   *)
(* record functions update one: a call is the sequence of its families.     *)
(* Labels are left out; a family's value is the number of its updates.      *)
(* Cells (OnceLock, Lazy) and the registry with its lock are external: the  *)
(* closure of a cell runs once while others wait; a name that is registered *)
(* twice is an error, which expect turns into a panic.                      *)
(***************************************************************************)
EXTENDS Naturals, Sequences

CONSTANTS Recorder,   \* threads that handle requests
          Family,
          Calls,      \* the record functions: sequences of families
          MaxCalls    \* bound on the calls of a behaviour, per family

VARIABLES cell,       \* per family: "empty", "busy" while its closure runs, "set"
          registered, \* families in the registry
          value,      \* per family: updates so far
          at,         \* per thread: "idle", "get", "init" or "update"
          call,       \* per thread: the families of its call
          next,       \* per thread: which of them is next
          panicked,
          begun,      \* history, per family: calls that began, calls that returned
          returned,
          scraper,    \* "idle" or "gathering"
          left,       \* families the scrape has still to collect
          seen,       \* per family: what the scrape collected, 0 if it has none
          before      \* history: returned, when the scrape began

threadVars == <<at, call, next, begun, returned>>
scrapeVars == <<scraper, left, seen, before>>
vars == <<cell, registered, value, panicked, threadVars, scrapeVars>>

Zero == [f \in Family |-> 0]
In(f, s) == \E i \in DOMAIN s : s[i] = f
OneMore(count, fs) == [f \in Family |-> IF In(f, fs) THEN count[f] + 1 ELSE count[f]]
Current(r) == call[r][next[r]]

Init ==
    /\ cell = [f \in Family |-> "empty"]
    /\ registered = {}
    /\ value = Zero
    /\ at = [r \in Recorder |-> "idle"]
    /\ call = [r \in Recorder |-> <<>>]
    /\ next = [r \in Recorder |-> 1]
    /\ panicked = FALSE
    /\ begun = Zero /\ returned = Zero
    /\ scraper = "idle"
    /\ left = {}
    /\ seen = Zero
    /\ before = Zero

-----------------------------------------------------------------------------
(* record_request and the other record functions                             *)

Record(r, fs) ==
    /\ ~panicked
    /\ at[r] = "idle"
    /\ \A f \in Family : In(f, fs) => begun[f] < MaxCalls
    /\ at' = [at EXCEPT ![r] = "get"]
    /\ call' = [call EXCEPT ![r] = fs]
    /\ next' = [next EXCEPT ![r] = 1]
    /\ begun' = OneMore(begun, fs)
    /\ UNCHANGED <<cell, registered, value, panicked, returned, scrapeVars>>

\* When get_or_init runs the closure (mutant: a plain test for an unset cell).
RunsClosureUnlessSet(f) == cell[f] # "set"
RunsClosure(f)          == cell[f] = "empty"

\* get_or_init of the next family: it is there, or this thread runs the closure; while
\* another one does, it waits.
GetOrInit(r) ==
    /\ ~panicked
    /\ at[r] = "get"
    /\ LET f == Current(r) IN
         \/ /\ RunsClosure(f)
            /\ cell' = [cell EXCEPT ![f] = "busy"]
            /\ at' = [at EXCEPT ![r] = "init"]
         \/ /\ cell[f] = "set"
            /\ at' = [at EXCEPT ![r] = "update"]
            /\ UNCHANGED cell
    /\ UNCHANGED <<registered, value, call, next, panicked, begun, returned, scrapeVars>>

\* The closure: register_counter_vec!(...).expect(...); the registry is locked while a
\* scrape gathers.
Register(r) ==
    /\ ~panicked
    /\ at[r] = "init"
    /\ scraper = "idle"
    /\ LET f == Current(r) IN
         /\ panicked' = (f \in registered)
         /\ registered' = registered \cup {f}
         /\ cell' = [cell EXCEPT ![f] = "set"]
    /\ at' = [at EXCEPT ![r] = "update"]
    /\ UNCHANGED <<value, call, next, begun, returned, scrapeVars>>

\* inc or observe, then the next family or the end of the call.
Update(r) ==
    /\ ~panicked
    /\ at[r] = "update"
    /\ value' = [value EXCEPT ![Current(r)] = @ + 1]
    /\ IF next[r] < Len(call[r])
       THEN /\ at' = [at EXCEPT ![r] = "get"]
            /\ next' = [next EXCEPT ![r] = @ + 1]
            /\ UNCHANGED <<call, returned>>
       ELSE /\ at' = [at EXCEPT ![r] = "idle"]
            /\ next' = [next EXCEPT ![r] = 1]
            /\ call' = [call EXCEPT ![r] = <<>>]
            /\ returned' = OneMore(returned, call[r])
    /\ UNCHANGED <<cell, registered, panicked, begun, scrapeVars>>

-----------------------------------------------------------------------------
(* gather_metrics                                                            *)

\* The lock is taken: the families that are registered now are collected, in any order.
Gather ==
    /\ ~panicked
    /\ scraper = "idle"
    /\ scraper' = "gathering"
    /\ left' = registered
    /\ seen' = Zero
    /\ before' = returned
    /\ UNCHANGED <<cell, registered, value, panicked, threadVars>>

Collect(f) ==
    /\ ~panicked
    /\ f \in left
    /\ left' = left \ {f}
    /\ seen' = [seen EXCEPT ![f] = value[f]]
    /\ UNCHANGED <<cell, registered, value, panicked, threadVars, scraper, before>>

\* The lock is released and the text is encoded.
Encoded ==
    /\ ~panicked
    /\ scraper = "gathering"
    /\ left = {}
    /\ scraper' = "idle"
    /\ UNCHANGED <<cell, registered, value, panicked, threadVars, left, seen, before>>
Over ==
    /\ \/ panicked
       \/ \A r \in Recorder : at[r] = "idle"
    /\ UNCHANGED vars

Next ==
    \/ \E r \in Recorder : \E fs \in Calls : Record(r, fs)
    \/ \E r \in Recorder : GetOrInit(r) \/ Register(r) \/ Update(r)
    \/ Gather \/ Encoded
    \/ \E f \in Family : Collect(f)
    \/ Over

Spec == Init /\ [][Next]_vars

-----------------------------------------------------------------------------
\* Every variable has its type.
TypeOK ==
    /\ cell \in [Family -> {"empty", "busy", "set"}]
    /\ registered \subseteq Family
    /\ at \in [Recorder -> {"idle", "get", "init", "update"}]
    /\ \A r \in Recorder : call[r] \in Calls \cup {<<>>}
    /\ {value, begun, returned, seen, before} \subseteq [Family -> 0 .. MaxCalls]
    /\ scraper \in {"idle", "gathering"}
    /\ left \subseteq registered

\* First uses of a family on several threads do not panic, and a scrape that lies
\* between updates of several families is as good as its moment allows: in every family
\* it shows all calls that returned before it began and none that had not begun when it
\* ended, so that two families differ by at most the calls under way meanwhile.
ScrapeIsFresh ==
    /\ ~panicked
    /\ (scraper = "gathering" /\ left = {})
          => \A f \in Family : before[f] <= seen[f] /\ seen[f] <= begun[f]
=============================================================================
