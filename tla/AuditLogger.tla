----------------------------- MODULE AuditLogger -----------------------------
(***************************************************************************)
(* Logger of internal/audit/logger.go: request handlers call Log, which     *)
(* never blocks; one worker (run) batches events from the channel and       *)
(* writes each batch in a transaction; Close closes the channel and waits   *)
(* for the worker for a limited time before it closes the pool.             *)
(*                                                                          *)
(* Postgres and the pool are external: any call may fail; a commit that     *)
(* ended in an error or timed out may still take effect, even later;        *)
(* pool.Close rejects new Begins at once and returns when no transaction    *)
(* holds a connection.  A batch that failed is not written again.           *)
(***************************************************************************)
EXTENDS Naturals, Sequences, FiniteSets

CONSTANTS Event,
          QueueCapacity,   \* 10000 in the code
          BatchSize        \* 100 in the code

ASSUME AuditLoggerAssumption ==
    /\ QueueCapacity \in Nat \ {0}
    /\ BatchSize \in Nat \ {0}

VARIABLES fresh,     \* events no handler has logged yet
          events,    \* the channel's buffer
          channel,   \* "open", or "closed" by Close
          batch,     \* the worker's batch
          worker,    \* where run is
          after,     \* where flush returns to: "select", or "returned" after the close
          pool,      \* "none" without a DSN
          closer,    \* where Close is
          accepted,  \* history: events that entered the channel, in order
          limbo,     \* batches whose commit failed and may still take effect
          stored     \* rows of audit_events (lines on stdout without a pool), in order

vars == <<fresh, events, channel, batch, worker, after, pool, closer, accepted, limbo,
          stored>>

WorkerPCs == {"select", "flush", "copy", "commit", "returned"}
CloserPCs == {"idle", "waiting", "closing", "closing_late", "closed", "closed_late"}

\* New: with a DSN the pool answered a ping, without one it is nil.
Init ==
    /\ fresh = Event
    /\ events = <<>>
    /\ channel = "open"
    /\ batch = <<>>
    /\ worker = "select"
    /\ after = "select"
    /\ pool \in {"none", "open"}
    /\ closer = "idle"
    /\ accepted = <<>>
    /\ limbo = {}
    /\ stored = <<>>

-----------------------------------------------------------------------------
(* Log                                                                       *)

Log(e) ==
    /\ e \in fresh
    /\ channel = "open"
    /\ Len(events) < QueueCapacity
    /\ fresh' = fresh \ {e}
    /\ events' = Append(events, e)
    /\ accepted' = Append(accepted, e)
    /\ UNCHANGED <<channel, batch, worker, after, pool, closer, limbo, stored>>

\* The default branch: the queue is full, the event is dropped.
LogDrops(e) ==
    /\ e \in fresh
    /\ channel = "open"
    /\ Len(events) >= QueueCapacity
    /\ fresh' = fresh \ {e}
    /\ UNCHANGED <<events, channel, batch, worker, after, pool, closer, accepted, limbo, stored>>

\* A send on a closed channel panics, in a select with a default branch too; the HTTP
\* server recovers the handler's panic and the event is gone.
LogPanics(e) ==
    /\ e \in fresh
    /\ channel = "closed"
    /\ fresh' = fresh \ {e}
    /\ UNCHANGED <<events, channel, batch, worker, after, pool, closer, accepted, limbo, stored>>

-----------------------------------------------------------------------------
(* run                                                                       *)

\* case e, ok := <-l.events, ok.
Receive ==
    /\ worker = "select"
    /\ events # <<>>
    /\ events' = Tail(events)
    /\ batch' = Append(batch, Head(events))
    /\ worker' = IF Len(batch) + 1 >= BatchSize THEN "flush" ELSE "select"
    /\ after' = "select"
    /\ UNCHANGED <<fresh, channel, pool, closer, accepted, limbo, stored>>

\* case <-ticker.C with something to flush (mutant: the timer is never armed).
TickerFiresNever == FALSE
TickerFires == batch # <<>>

Tick ==
    /\ worker = "select"
    /\ TickerFires
    /\ worker' = "flush"
    /\ after' = "select"
    /\ UNCHANGED <<fresh, events, channel, batch, pool, closer, accepted, limbo, stored>>

\* The channel is closed and drained: flush, then close(l.done) and return
\* (mutant: return at once, without the flush).
AtEndOfChannelReturn == worker' = "returned"
AtEndOfChannel       == worker' = IF batch = <<>> THEN "returned" ELSE "flush"

ChannelEnds ==
    /\ worker = "select"
    /\ channel = "closed"
    /\ events = <<>>
    /\ AtEndOfChannel
    /\ after' = "returned"
    /\ UNCHANGED <<fresh, events, channel, batch, pool, closer, accepted, limbo, stored>>

\* The end of flush: batch = batch[:0] (mutant: the batch is kept).
DiscardKept == UNCHANGED batch
Discard     == batch' = <<>>

FlushStdout ==
    /\ worker = "flush"
    /\ pool = "none"
    /\ stored' = stored \o batch
    /\ Discard
    /\ worker' = after
    /\ UNCHANGED <<fresh, events, channel, after, pool, closer, accepted, limbo>>

Begin ==
    /\ worker = "flush"
    /\ pool = "open"
    /\ worker' = "copy"
    /\ UNCHANGED <<fresh, events, channel, batch, after, pool, closer, accepted, limbo, stored>>

CopyFrom ==
    /\ worker = "copy"
    /\ worker' = "commit"
    /\ UNCHANGED <<fresh, events, channel, batch, after, pool, closer, accepted, limbo, stored>>

Commit ==
    /\ worker = "commit"
    /\ stored' = stored \o batch
    /\ Discard
    /\ worker' = after
    /\ UNCHANGED <<fresh, events, channel, after, pool, closer, accepted, limbo>>

\* Begin (always once the pool is closed) or CopyFrom fails: the transaction is rolled
\* back and flush clears the batch.
InsertFails ==
    /\ worker \in {"flush", "copy"}
    /\ pool # "none"
    /\ Discard
    /\ worker' = after
    /\ UNCHANGED <<fresh, events, channel, after, pool, closer, accepted, limbo, stored>>

\* Commit fails or times out: nobody knows what becomes of the transaction.
CommitFails ==
    /\ worker = "commit"
    /\ limbo' = limbo \cup {batch}
    /\ Discard
    /\ worker' = after
    /\ UNCHANGED <<fresh, events, channel, after, pool, closer, accepted, stored>>

\* Postgres carries out a commit whose sender no longer waits for it.
LateCommit(b) ==
    /\ limbo' = limbo \ {b}
    /\ stored' = stored \o b
    /\ UNCHANGED <<fresh, events, channel, batch, worker, after, pool, closer, accepted>>

-----------------------------------------------------------------------------
(* Close                                                                     *)

Close ==
    /\ closer = "idle"
    /\ closer' = "waiting"
    /\ channel' = "closed"
    /\ UNCHANGED <<fresh, events, batch, worker, after, pool, accepted, limbo, stored>>

\* case <-l.done, then pool.Close() begins.
WorkerIsDone ==
    /\ closer = "waiting"
    /\ worker = "returned"
    /\ closer' = "closing"
    /\ pool' = IF pool = "open" THEN "closed" ELSE pool
    /\ UNCHANGED <<fresh, events, channel, batch, worker, after, accepted, limbo, stored>>

\* case <-time.After(5s), then pool.Close() begins; the worker is still running.
CloseTimesOut ==
    /\ closer = "waiting"
    /\ closer' = "closing_late"
    /\ pool' = IF pool = "open" THEN "closed" ELSE pool
    /\ UNCHANGED <<fresh, events, channel, batch, worker, after, accepted, limbo, stored>>

\* pool.Close() waits for the connections in use (mutant: it is not called).
PoolIdleAlways == TRUE
PoolIdle       == worker \notin {"copy", "commit"}

CloseReturns ==
    /\ closer \in {"closing", "closing_late"}
    /\ PoolIdle
    /\ closer' = IF closer = "closing" THEN "closed" ELSE "closed_late"
    /\ UNCHANGED <<fresh, events, channel, batch, worker, after, pool, accepted, limbo, stored>>

-----------------------------------------------------------------------------
RunStep == Receive \/ Tick \/ ChannelEnds \/ FlushStdout \/ Begin \/ CopyFrom \/ Commit

CloseStep == WorkerIsDone \/ CloseTimesOut \/ CloseReturns

\* Everything is over.
Finished ==
    /\ fresh = {}
    /\ worker = "returned"
    /\ closer \in {"closed", "closed_late"}
    /\ UNCHANGED vars

Next ==
    \/ \E e \in Event : Log(e) \/ LogDrops(e) \/ LogPanics(e)
    \/ RunStep
    \/ InsertFails \/ CommitFails
    \/ \E b \in limbo : LateCommit(b)
    \/ Close
    \/ CloseStep
    \/ Finished

Spec == Init /\ [][Next]_vars

\* The worker runs, its timer fires, calls to Postgres end (they carry a five second
\* timeout), and a Close that has begun goes on.
FairSpec == Spec /\ WF_vars(RunStep \/ InsertFails \/ CommitFails) /\ WF_vars(CloseStep)

-----------------------------------------------------------------------------
\* How many accepted events left the logger, written or given up.
Settled == Len(accepted) - Len(batch) - Len(events)

\* Every variable has its type: neither the channel nor the batch outgrows its bound.
TypeOK ==
    /\ fresh \subseteq Event
    /\ events \in Seq(Event) /\ Len(events) <= QueueCapacity
    /\ channel \in {"open", "closed"}
    /\ batch \in Seq(Event) /\ Len(batch) <= BatchSize
    /\ worker \in WorkerPCs
    /\ after \in {"select", "returned"}
    /\ pool \in {"none", "open", "closed"}
    /\ closer \in CloserPCs
    /\ accepted \in Seq(Event)
    /\ limbo \subseteq Seq(Event)
    /\ stored \in Seq(Event)

\* When Close returned without its warning, nothing is left behind in the logger: the
\* worker emptied the channel and flushed its last, partial batch before it closed done.
CleanClose == closer \in {"closing", "closed"} => Settled = Len(accepted)

\* Once Close has returned, also after it gave up waiting for the worker, the logger
\* writes no batch any more: only a commit that was sent before may still take effect.
NoWriteAfterClose ==
    [][(pool # "none" /\ closer \in {"closed", "closed_late"})
          => (stored' = stored \/ \E b \in limbo : LateCommit(b))]_vars

\* Whatever happens to the database and however Close races with the worker, the
\* logger is an audit trail: batches are written whole, in the order of the calls of Log
\* but for commits nobody waited for, and no event is written twice.
Trail == INSTANCE AuditTrail WITH settled <- Settled, MaxRun <- BatchSize
ImplementsAuditTrail == Trail!Spec

\* Every event the logger accepted is eventually written or given up, without further
\* traffic and without Close.
EveryEventSettles ==
    \A n \in 1 .. Cardinality(Event) : (Len(accepted) >= n) ~> (Settled >= n)
=============================================================================
