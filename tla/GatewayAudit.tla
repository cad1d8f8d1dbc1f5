----------------------------- MODULE GatewayAudit -----------------------------
(***************************************************************************)
(* AuditLogger of the two Rust gateways (rust-gateway/src/audit.rs and      *)
(* gateway/src/audit.rs), which ship their events to the control plane, and *)
(* the handler that takes the batches there (HandleAuditBatch of            *)
(* control-plane/internal/api/api.go).                                      *)
(*                                                                          *)
(* record puts an event into an unbounded channel; one task batches events  *)
(* and posts a batch when it is full or when the interval ticks.  The       *)
(* select of the task has no way out while the interval lives: the task     *)
(* ends only when the runtime is dropped.  The network is external: a       *)
(* request may be lost, and one the sender no longer waits for, because of  *)
(* its ten second timeout or of its end, may still arrive.                  *)
(***************************************************************************)
EXTENDS Naturals, Sequences, FiniteSets

CONSTANTS Event,
          BatchSize        \* 100 in the code

VARIABLES enabled,   \* "on", or "off" for new_disabled
          fresh,     \* events not recorded yet
          channel,   \* the unbounded channel
          batch,
          task,      \* "select", "sending" (awaiting the POST), "dropped"
          posted,    \* whether the POST under way has reached the control plane
          limbo,     \* batches posted that may still arrive
          accepted,  \* history: events that entered the channel, in order
          received   \* events HandleAuditBatch answered as ingested, in order

vars == <<enabled, fresh, channel, batch, task, posted, limbo, accepted, received>>

Init ==
    /\ enabled \in {"on", "off"}
    /\ fresh = Event
    /\ channel = <<>>
    /\ batch = <<>>
    /\ task = IF enabled = "on" THEN "select" ELSE "dropped"
    /\ posted = "no"
    /\ limbo = {}
    /\ accepted = <<>>
    /\ received = <<>>

-----------------------------------------------------------------------------
\* record: nothing when disabled, an error that is only logged once the receiver is gone.
Record(e) ==
    /\ e \in fresh
    /\ fresh' = fresh \ {e}
    /\ IF enabled = "on" /\ task # "dropped"
       THEN /\ channel' = Append(channel, e)
            /\ accepted' = Append(accepted, e)
       ELSE UNCHANGED <<channel, accepted>>
    /\ UNCHANGED <<enabled, batch, task, posted, limbo, received>>

\* Some(event) = receiver.recv()
Recv ==
    /\ task = "select"
    /\ channel # <<>>
    /\ channel' = Tail(channel)
    /\ batch' = Append(batch, Head(channel))
    /\ task' = IF Len(batch) + 1 >= BatchSize THEN "sending" ELSE "select"
    /\ UNCHANGED <<enabled, fresh, posted, limbo, accepted, received>>

\* _ = interval.tick() with a batch that is not empty (mutant: only full batches go).
TickSendsFull == Len(batch) >= BatchSize
TickSends     == batch # <<>>

IntervalTick ==
    /\ task = "select"
    /\ TickSends
    /\ task' = "sending"
    /\ UNCHANGED <<enabled, fresh, channel, batch, posted, limbo, accepted, received>>

\* The request arrives: HandleAuditBatch decodes the events, keeps none of them
\* (_ = events) and answers 200 with their number as "ingested".
HandleAuditBatch ==
    /\ task = "sending"
    /\ posted = "no"
    /\ posted' = "yes"
    /\ received' = received \o batch
    /\ UNCHANGED <<enabled, fresh, channel, batch, task, limbo, accepted>>

\* batch.clear() (mutant: forgotten).
ClearBatchForgotten == UNCHANGED batch
ClearBatch          == batch' = <<>>

\* A request given up by its sender may have got lost or may still be on its way.
GiveUp == limbo' \in (IF posted = "yes" THEN {limbo} ELSE {limbo, limbo \cup {batch}})

\* send_batch returns: an answer of any status, an error or the timeout.  The outcome is
\* only logged.
SendBatchReturns ==
    /\ task = "sending"
    /\ GiveUp
    /\ ClearBatch
    /\ task' = "select"
    /\ posted' = "no"
    /\ UNCHANGED <<enabled, fresh, channel, accepted, received>>

\* main returns: the runtime drops the task at its await point.
RuntimeDropped ==
    /\ task \in {"select", "sending"}
    /\ task' = "dropped"
    /\ IF task = "sending"
       THEN GiveUp /\ ClearBatch /\ posted' = "no"
       ELSE UNCHANGED <<limbo, batch, posted>>
    /\ UNCHANGED <<enabled, fresh, channel, accepted, received>>

\* HandleAuditBatch gets a request whose sender has gone on.
LateArrival(b) ==
    /\ limbo' = limbo \ {b}
    /\ received' = received \o b
    /\ UNCHANGED <<enabled, fresh, channel, batch, task, posted, accepted>>

Finished ==
    /\ fresh = {}
    /\ task = "dropped"
    /\ UNCHANGED vars

Next ==
    \/ \E e \in Event : Record(e)
    \/ Recv
    \/ IntervalTick
    \/ HandleAuditBatch
    \/ SendBatchReturns
    \/ RuntimeDropped
    \/ \E b \in limbo : LateArrival(b)
    \/ Finished

Spec == Init /\ [][Next]_vars

\* The task is polled, its interval ticks and requests end after at most ten seconds.
FairSpec == Spec /\ WF_vars(Recv \/ IntervalTick \/ SendBatchReturns)

-----------------------------------------------------------------------------
\* How many accepted events left the gateway; a batch that arrived has left.
Settled ==
    Len(accepted) - Len(channel) - (IF posted = "yes" THEN 0 ELSE Len(batch))

\* Every variable has its type: a batch never exceeds its size.
TypeOK ==
    /\ fresh \subseteq Event
    /\ channel \in Seq(Event)
    /\ batch \in Seq(Event) /\ Len(batch) <= BatchSize
    /\ task \in {"select", "sending", "dropped"}
    /\ posted \in {"no", "yes"}
    /\ limbo \subseteq Seq(Event)
    /\ accepted \in Seq(Event)
    /\ received \in Seq(Event)

\* With requests and answers lost or late and the process stopped at any moment, what
\* the control plane receives is an audit trail of what was recorded: whole batches, in
\* order but for late ones, and no event twice.
Trail == INSTANCE AuditTrail WITH settled <- Settled, MaxRun <- BatchSize, stored <- received
ImplementsAuditTrail == Trail!Spec

\* An event that entered the channel is sent or given up without further traffic,
\* unless the process stops first.
EveryEventLeaves ==
    \A n \in 1 .. Cardinality(Event) :
        (Len(accepted) >= n) ~> (Settled >= n \/ task = "dropped")
=============================================================================
