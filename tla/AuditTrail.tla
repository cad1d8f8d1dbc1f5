------------------------------ MODULE AuditTrail ------------------------------
(***************************************************************************)
(* What an asynchronous audit log with best-effort delivery promises.       *)
(* Events are taken in over time; what was taken in is dealt with in runs   *)
(* of at most MaxRun events, oldest first.  Each run as a whole is stored,  *)
(* or given up, or sent off without an answer: such a run may still be      *)
(* stored later, once.  So no event is stored twice, none that was not      *)
(* taken in is stored, and no run is stored in part.                        *)
(***************************************************************************)
EXTENDS Naturals, Sequences

CONSTANTS Event, MaxRun

VARIABLES accepted,  \* every event taken in, in order
          settled,   \* how many of them were dealt with
          limbo,     \* runs sent off without an answer
          stored     \* what the store holds, in order

trail == <<accepted, settled, limbo, stored>>

Init ==
    /\ accepted = <<>>
    /\ settled = 0
    /\ limbo = {}
    /\ stored = <<>>

\* Events are told apart by their identity.
Accept(e) ==
    /\ \A i \in DOMAIN accepted : accepted[i] # e
    /\ accepted' = Append(accepted, e)
    /\ UNCHANGED <<settled, limbo, stored>>

Run(n) == SubSeq(accepted, settled + 1, settled + n)

Settle(n) ==
    /\ settled + n <= Len(accepted)
    /\ settled' = settled + n
    /\ \/ stored' = stored \o Run(n) /\ UNCHANGED limbo
       \/ UNCHANGED <<stored, limbo>>
       \/ limbo' = limbo \cup {Run(n)} /\ UNCHANGED stored
    /\ UNCHANGED accepted

Late(run) ==
    /\ limbo' = limbo \ {run}
    /\ stored' = stored \o run
    /\ UNCHANGED <<accepted, settled>>

Next ==
    \/ \E e \in Event : Accept(e)
    \/ \E n \in 1 .. MaxRun : Settle(n)
    \/ \E run \in limbo : Late(run)

Spec == Init /\ [][Next]_trail
=============================================================================
