------------------------ MODULE AuditPipelines_proofs ------------------------
(***************************************************************************)
(* Proofs that the two audit pipelines implement AuditTrail, for any set of *)
(* events, capacity and size of a batch, and of what Close of the proxy's   *)
(* logger promises.  The argument is the same for both: the batch and the   *)
(* channel, one after the other, are the end of what was accepted, so a     *)
(* batch that leaves is the run of accepted events that is next.            *)
(***************************************************************************)
EXTENDS MCAuditPipelines, SequenceTheorems, TLAPS

\* After its first n events, acc goes on with batch b and then channel q.
EndsWith(acc, n, b, q) ==
    /\ n \in Nat
    /\ Len(acc) = n + Len(b) + Len(q)
    /\ \A i \in 1 .. Len(b) : b[i] = acc[n + i]
    /\ \A i \in 1 .. Len(q) : q[i] = acc[n + Len(b) + i]

\* A new event joins both ends.
LEMMA EndTakesIn ==
    ASSUME NEW S, NEW acc \in Seq(S), NEW b \in Seq(S), NEW q \in Seq(S), NEW n,
           EndsWith(acc, n, b, q), NEW e \in S
    PROVE  EndsWith(Append(acc, e), n, b, Append(q, e))
<1>1. Len(acc) \in Nat /\ Len(b) \in Nat /\ Len(q) \in Nat
  BY LenProperties
<1>2. Len(Append(acc, e)) = Len(acc) + 1 /\ Len(Append(q, e)) = Len(q) + 1
  BY AppendProperties
<1>3. /\ \A i \in 1 .. Len(acc) : Append(acc, e)[i] = acc[i]
      /\ \A i \in 1 .. Len(q) : Append(q, e)[i] = q[i]
      /\ Append(acc, e)[Len(acc) + 1] = e /\ Append(q, e)[Len(q) + 1] = e
  BY AppendProperties
<1>4. n \in Nat /\ Len(acc) = n + Len(b) + Len(q)
  BY DEF EndsWith
<1>5. ASSUME NEW i \in 1 .. Len(b) PROVE b[i] = Append(acc, e)[n + i]
  <2>1. n + i \in 1 .. Len(acc) /\ b[i] = acc[n + i]
    BY <1>1, <1>4 DEF EndsWith
  <2> QED
    BY <1>3, <2>1
<1>6. ASSUME NEW i \in 1 .. Len(q) + 1 PROVE Append(q, e)[i] = Append(acc, e)[n + Len(b) + i]
  <2>0. i \in 1 .. Len(q) \/ i = Len(q) + 1
    BY <1>1
  <2>1. CASE i \in 1 .. Len(q)
    <3>1. n + Len(b) + i \in 1 .. Len(acc)
      BY <1>1, <1>4, <2>1
    <3>2. q[i] = acc[n + Len(b) + i]
      BY <2>1 DEF EndsWith
    <3> QED
      BY <1>3, <2>1, <3>1, <3>2
  <2>2. CASE i = Len(q) + 1
    <3>1. n + Len(b) + i = Len(acc) + 1
      BY <1>1, <1>4, <2>2
    <3> QED
      BY <1>3, <2>2, <3>1
  <2> QED
    BY <2>0, <2>1, <2>2
<1>7. Len(Append(acc, e)) = n + Len(b) + Len(Append(q, e))
  BY <1>1, <1>2, <1>4
<1> QED
  BY <1>2, <1>4, <1>5, <1>6, <1>7 DEF EndsWith

\* The head of the channel becomes the last of the batch.
LEMMA EndMoves ==
    ASSUME NEW S, NEW acc \in Seq(S), NEW b \in Seq(S), NEW q \in Seq(S), NEW n,
           EndsWith(acc, n, b, q), q # <<>>
    PROVE  EndsWith(acc, n, Append(b, Head(q)), Tail(q))
<1>1. Len(acc) \in Nat /\ Len(b) \in Nat /\ Len(q) \in Nat /\ Len(q) > 0
  BY LenProperties, EmptySeq
<1>2. /\ Head(q) \in S /\ Head(q) = q[1] /\ Len(Tail(q)) = Len(q) - 1
      /\ \A i \in 1 .. Len(q) - 1 : Tail(q)[i] = q[i + 1]
  BY HeadTailProperties
<1>3. /\ Len(Append(b, Head(q))) = Len(b) + 1
      /\ \A i \in 1 .. Len(b) : Append(b, Head(q))[i] = b[i]
      /\ Append(b, Head(q))[Len(b) + 1] = q[1]
  BY <1>2, AppendProperties
<1>4. n \in Nat /\ Len(acc) = n + Len(b) + Len(q) /\ q[1] = acc[n + Len(b) + 1]
  BY <1>1 DEF EndsWith
<1>5. ASSUME NEW i \in 1 .. Len(b) + 1 PROVE Append(b, Head(q))[i] = acc[n + i]
  <2>1. CASE i \in 1 .. Len(b)
    BY <1>3, <2>1 DEF EndsWith
  <2>2. CASE i = Len(b) + 1
    <3>1. n + Len(b) + 1 = n + i
      BY <1>1, <1>4, <2>2
    <3> QED
      BY <1>3, <1>4, <2>2, <3>1
  <2> QED
    BY <1>1, <2>1, <2>2
<1>6. ASSUME NEW i \in 1 .. Len(q) - 1 PROVE Tail(q)[i] = acc[n + (Len(b) + 1) + i]
  <2>1. i + 1 \in 1 .. Len(q) /\ n + Len(b) + (i + 1) = n + (Len(b) + 1) + i
    BY <1>1, <1>4
  <2>2. q[i + 1] = acc[n + Len(b) + (i + 1)]
    BY <2>1 DEF EndsWith
  <2> QED
    BY <1>2, <2>1, <2>2
<1>7. Len(acc) = n + (Len(b) + 1) + (Len(q) - 1)
  BY <1>1, <1>4
<1> QED
  BY <1>2, <1>3, <1>4, <1>5, <1>6, <1>7 DEF EndsWith

\* A batch that leaves is the next run, and the channel is still the end.
LEMMA EndLeaves ==
    ASSUME NEW S, NEW acc \in Seq(S), NEW b \in Seq(S), NEW q \in Seq(S), NEW n,
           EndsWith(acc, n, b, q)
    PROVE  /\ EndsWith(acc, n + Len(b), <<>>, q)
           /\ n + Len(b) <= Len(acc)
           /\ SubSeq(acc, n + 1, n + Len(b)) = b
<1>1. Len(acc) \in Nat /\ Len(b) \in Nat /\ Len(q) \in Nat /\ Len(<<>>) = 0
  BY LenProperties, EmptySeq
<1>2. n \in Nat /\ Len(acc) = n + Len(b) + Len(q)
  BY DEF EndsWith
<1>3. EndsWith(acc, n + Len(b), <<>>, q)
  <2>1. n + Len(b) + Len(<<>>) = n + Len(b)
    BY <1>1, <1>2
  <2> QED
    BY <1>1, <1>2, <2>1 DEF EndsWith
<1>4. \A i \in n + 1 .. n + Len(b) : acc[i] \in S
  BY <1>1, <1>2, ElementOfSeq
<1>5. n + 1 \in Int /\ n + Len(b) \in Int /\ (n + Len(b)) - (n + 1) + 1 = Len(b)
  BY <1>1, <1>2
<1>6. /\ SubSeq(acc, n + 1, n + Len(b)) \in Seq(S)
      /\ Len(SubSeq(acc, n + 1, n + Len(b))) = Len(b)
      /\ \A i \in 1 .. Len(b) : SubSeq(acc, n + 1, n + Len(b))[i] = acc[(n + 1) + i - 1]
  BY <1>1, <1>2, <1>4, <1>5, SubSeqProperties
<1>7. \A i \in 1 .. Len(b) : SubSeq(acc, n + 1, n + Len(b))[i] = b[i]
  <2> SUFFICES ASSUME NEW i \in 1 .. Len(b)
               PROVE  SubSeq(acc, n + 1, n + Len(b))[i] = b[i]
    OBVIOUS
  <2>1. (n + 1) + i - 1 = n + i
    BY <1>1, <1>2
  <2> QED
    BY <1>6, <2>1 DEF EndsWith
<1>8. SubSeq(acc, n + 1, n + Len(b)) = b
  BY <1>6, <1>7, SeqEqual
<1> QED
  BY <1>1, <1>2, <1>3, <1>8

-----------------------------------------------------------------------------
(* AuditLogger.                                                              *)

\* Batch and channel are the end of what was accepted, and what is fresh was not.
Queued ==
    /\ EndsWith(accepted, Settled, batch, events)
    /\ \A i \in DOMAIN accepted : accepted[i] \notin fresh

\* Where the worker is tells how full its batch is and whether the channel has ended.
WorkerInv ==
    /\ worker = "select" => Len(batch) < BatchSize /\ after = "select"
    /\ worker \in {"flush", "copy", "commit"} => batch # <<>>
    /\ worker = "returned" => after = "returned" /\ batch = <<>>
    /\ after = "returned" => channel = "closed" /\ events = <<>>

\* Where Close is tells about the worker and the pool.
CloserInv ==
    /\ closer \in {"closing", "closed"} => worker = "returned"
    /\ closer \in {"closing", "closing_late", "closed", "closed_late"} => pool # "open"
    /\ closer \in {"closed", "closed_late"} => worker \notin {"copy", "commit"}

LoggerInv == TypeOK /\ Queued /\ WorkerInv /\ CloserInv

\* A new logger holds nothing.
LEMMA LoggerInit == Init => LoggerInv /\ Trail!Init
<1> SUFFICES ASSUME Init PROVE LoggerInv /\ Trail!Init
  OBVIOUS
<1>1. Settled = 0 /\ Len(<<>>) = 0 /\ DOMAIN accepted = {}
  <2>1. Len(<<>>) = 0 /\ accepted = <<>> /\ batch = <<>> /\ events = <<>>
    BY EmptySeq DEF Init
  <2>2. DOMAIN accepted = {}
    BY <2>1
  <2>3. Len(accepted) = 0 /\ Len(batch) = 0 /\ Len(events) = 0
    BY <2>1
  <2>4. Settled = 0
    BY <2>3 DEF Settled
  <2> QED
    BY <2>1, <2>2, <2>4
<1>2. TypeOK
  BY <1>1, AuditLoggerAssumption, EmptySeq DEF Init, TypeOK, WorkerPCs, CloserPCs
<1>3. Queued
  BY <1>1 DEF Init, Queued, EndsWith
<1>4. WorkerInv /\ CloserInv
  BY <1>1, AuditLoggerAssumption DEF Init, WorkerInv, CloserInv
<1> QED
  BY <1>1, <1>2, <1>3, <1>4 DEF LoggerInv, Init, Trail!Init

\* The lengths of the three sequences.
LEMMA LoggerLengths ==
    ASSUME LoggerInv
    PROVE  /\ Len(accepted) \in Nat /\ Len(batch) \in Nat /\ Len(events) \in Nat
           /\ Settled \in Nat /\ DOMAIN accepted = 1 .. Len(accepted)
           /\ batch # <<>> => Len(batch) > 0
           /\ BatchSize \in Nat /\ BatchSize > 0
BY LenProperties, EmptySeq, AuditLoggerAssumption DEF LoggerInv, TypeOK, Queued, EndsWith

\* An event that enters the channel is one the trail takes in.
LEMMA LogKeeps ==
    ASSUME LoggerInv, NEW e \in Event, Log(e) PROVE LoggerInv' /\ Trail!Accept(e)
<1>1. /\ e \in Event /\ accepted' = Append(accepted, e) /\ events' = Append(events, e)
      /\ accepted \in Seq(Event) /\ events \in Seq(Event) /\ batch \in Seq(Event)
  BY DEF Log, LoggerInv, TypeOK
<1>2. /\ Len(accepted') = Len(accepted) + 1 /\ Len(events') = Len(events) + 1
      /\ accepted' \in Seq(Event) /\ events' \in Seq(Event) /\ batch' = batch
  BY <1>1, AppendProperties DEF Log
<1>3. Settled' = Settled
  BY <1>2, LoggerLengths DEF Settled
<1>4. EndsWith(accepted', Settled', batch', events')
  BY <1>1, <1>2, <1>3, EndTakesIn DEF LoggerInv, Queued
<1>5. \A i \in DOMAIN accepted' : accepted'[i] \notin fresh'
  <2> SUFFICES ASSUME NEW i \in 1 .. Len(accepted) + 1 PROVE accepted'[i] \notin fresh'
    BY <1>2, LenProperties
  <2>1. CASE i \in 1 .. Len(accepted)
    BY <1>1, <2>1, AppendProperties, LoggerLengths DEF LoggerInv, Queued, Log
  <2>2. CASE i = Len(accepted) + 1
    BY <1>1, <2>2, AppendProperties DEF Log
  <2> QED
    BY <2>1, <2>2, LoggerLengths
<1>6. TypeOK'
  BY <1>2, LoggerLengths, AuditLoggerAssumption DEF Log, LoggerInv, TypeOK
<1>7. WorkerInv' /\ CloserInv'
  BY DEF Log, LoggerInv, WorkerInv, CloserInv
<1>8. \A i \in DOMAIN accepted : accepted[i] # e
  BY DEF Log, LoggerInv, Queued
<1> QED
  BY <1>1, <1>3, <1>4, <1>5, <1>6, <1>7, <1>8 DEF LoggerInv, Queued, Log, Trail!Accept

\* Receive moves an event from the channel to the batch.
LEMMA ReceiveKeeps ==
    ASSUME LoggerInv, Receive PROVE LoggerInv' /\ UNCHANGED Trail!trail
<1>1. /\ events # <<>> /\ batch' = Append(batch, Head(events)) /\ events' = Tail(events)
      /\ accepted \in Seq(Event) /\ events \in Seq(Event) /\ batch \in Seq(Event)
      /\ accepted' = accepted
  BY DEF Receive, LoggerInv, TypeOK
<1>2. /\ Len(batch') = Len(batch) + 1 /\ Len(events') = Len(events) - 1
      /\ batch' \in Seq(Event) /\ events' \in Seq(Event) /\ batch' # <<>>
  BY <1>1, AppendProperties, HeadTailProperties
<1>3. Settled' = Settled
  BY <1>1, <1>2, LoggerLengths DEF Settled
<1>4. EndsWith(accepted', Settled', batch', events')
  BY <1>1, <1>3, EndMoves DEF LoggerInv, Queued
<1>5. TypeOK'
  BY <1>1, <1>2, LoggerLengths, AuditLoggerAssumption
     DEF Receive, LoggerInv, TypeOK, WorkerInv, WorkerPCs
<1>6. WorkerInv'
  BY <1>2, LoggerLengths DEF Receive, LoggerInv, TypeOK, WorkerInv
<1>7. CloserInv'
  BY DEF Receive, LoggerInv, CloserInv
<1> QED
  BY <1>1, <1>3, <1>4, <1>5, <1>6, <1>7 DEF LoggerInv, Queued, Receive, Trail!trail

\* The batch leaves the worker: the trail settles it as one run.
LEMMA DiscardKeeps ==
    ASSUME LoggerInv, worker \in {"flush", "copy", "commit"}, Discard, worker' = after,
           UNCHANGED <<fresh, events, channel, after, pool, closer, accepted>>,
           limbo' \subseteq Seq(Event), stored' \in Seq(Event)
    PROVE  /\ LoggerInv'
           /\ Len(batch) \in 1 .. BatchSize
           /\ Settled + Len(batch) <= Len(accepted)
           /\ Settled' = Settled + Len(batch)
           /\ Trail!Run(Len(batch)) = batch
<1>1. accepted \in Seq(Event) /\ events \in Seq(Event) /\ batch \in Seq(Event) /\ batch' = <<>>
  BY DEF Discard, LoggerInv, TypeOK
<1>2. /\ EndsWith(accepted, Settled + Len(batch), <<>>, events)
      /\ Settled + Len(batch) <= Len(accepted)
      /\ SubSeq(accepted, Settled + 1, Settled + Len(batch)) = batch
  BY <1>1, EndLeaves DEF LoggerInv, Queued
<1>3. Len(batch) \in 1 .. BatchSize
  BY LoggerLengths DEF LoggerInv, TypeOK, WorkerInv
<1>4. Settled' = Settled + Len(batch)
  BY <1>1, LoggerLengths, EmptySeq DEF Settled
<1>5. TypeOK'
  BY <1>1, LoggerLengths, EmptySeq DEF LoggerInv, TypeOK, WorkerPCs
<1>6. WorkerInv'
  BY <1>1, LoggerLengths, EmptySeq DEF LoggerInv, TypeOK, WorkerInv
<1>7. CloserInv'
  BY DEF LoggerInv, TypeOK, CloserInv
<1>8. Queued'
  BY <1>1, <1>2, <1>4 DEF LoggerInv, Queued
<1> QED
  BY <1>2, <1>3, <1>4, <1>5, <1>6, <1>7, <1>8 DEF LoggerInv, Trail!Run

\* What leaves the batch as it is and the channel too.
LEMMA QueuedStays ==
    ASSUME Queued, fresh' \subseteq fresh, UNCHANGED <<accepted, batch, events>>
    PROVE  Queued' /\ Settled' = Settled
BY DEF Queued, Settled

\* The remaining steps of the worker, of Log and of Close leave the trail alone.
LEMMA QuietSteps ==
    ASSUME LoggerInv,
           \/ \E e \in Event : LogDrops(e) \/ LogPanics(e)
           \/ Tick \/ ChannelEnds \/ Begin \/ CopyFrom
           \/ Close \/ CloseStep \/ UNCHANGED vars
    PROVE  LoggerInv' /\ UNCHANGED Trail!trail
<1>1. ASSUME NEW e \in Event, LogDrops(e) \/ LogPanics(e)
      PROVE  LoggerInv' /\ UNCHANGED Trail!trail
  BY <1>1, QueuedStays
     DEF LogDrops, LogPanics, LoggerInv, TypeOK, WorkerInv, CloserInv, Trail!trail
<1>2. CASE Tick
  BY <1>2, QueuedStays
     DEF Tick, TickerFires, LoggerInv, TypeOK, WorkerInv, CloserInv, WorkerPCs, Trail!trail
<1>3. CASE ChannelEnds
  BY <1>3, QueuedStays
     DEF ChannelEnds, AtEndOfChannel, LoggerInv, TypeOK, WorkerInv, CloserInv, WorkerPCs,
         Trail!trail
<1>4. CASE Begin
  BY <1>4, QueuedStays
     DEF Begin, LoggerInv, TypeOK, WorkerInv, CloserInv, WorkerPCs, Trail!trail
<1>5. CASE CopyFrom
  BY <1>5, QueuedStays
     DEF CopyFrom, LoggerInv, TypeOK, WorkerInv, CloserInv, WorkerPCs, Trail!trail
<1>6. CASE Close
  BY <1>6, QueuedStays
     DEF Close, LoggerInv, TypeOK, WorkerInv, CloserInv, CloserPCs, Trail!trail
<1>7. CASE WorkerIsDone
  BY <1>7, QueuedStays
     DEF WorkerIsDone, LoggerInv, TypeOK, WorkerInv, CloserInv, CloserPCs, Trail!trail
<1>8. CASE CloseTimesOut
  BY <1>8, QueuedStays
     DEF CloseTimesOut, LoggerInv, TypeOK, WorkerInv, CloserInv, CloserPCs, Trail!trail
<1>9. CASE CloseReturns
  BY <1>9, QueuedStays
     DEF CloseReturns, PoolIdle, LoggerInv, TypeOK, WorkerInv, CloserInv, CloserPCs,
         Trail!trail
<1>10. CASE UNCHANGED vars
  BY <1>10, QueuedStays DEF vars, LoggerInv, TypeOK, WorkerInv, CloserInv, Trail!trail
<1> QED
  BY <1>1, <1>2, <1>3, <1>4, <1>5, <1>6, <1>7, <1>8, <1>9, <1>10 DEF CloseStep

\* Each step keeps the invariant and is a step of the trail, or none.
LEMMA LoggerStepKeeps ==
    LoggerInv /\ [Next]_vars => LoggerInv' /\ [Trail!Next]_(Trail!trail)
<1> SUFFICES ASSUME LoggerInv, [Next]_vars PROVE LoggerInv' /\ [Trail!Next]_(Trail!trail)
  OBVIOUS
<1>0. batch \in Seq(Event) /\ stored \in Seq(Event) /\ limbo \subseteq Seq(Event)
  BY DEF LoggerInv, TypeOK
<1>1. ASSUME NEW e \in Event, Log(e) PROVE LoggerInv' /\ Trail!Next
  BY <1>1, LogKeeps DEF Trail!Next
<1>2. CASE Receive
  BY <1>2, ReceiveKeeps
<1>3. CASE FlushStdout \/ Commit
  <2>1. stored \o batch \in Seq(Event)
    BY <1>0, ConcatProperties
  <2>2. /\ worker \in {"flush", "copy", "commit"} /\ Discard /\ worker' = after
        /\ UNCHANGED <<fresh, events, channel, after, pool, closer, accepted>>
        /\ limbo' = limbo /\ stored' = stored \o batch
    BY <1>3 DEF FlushStdout, Commit
  <2>3. LoggerInv' /\ Trail!Settle(Len(batch)) /\ Len(batch) \in 1 .. BatchSize
    BY <1>0, <2>1, <2>2, DiscardKeeps DEF Trail!Settle
  <2> QED
    BY <2>3 DEF Trail!Next
<1>4. CASE InsertFails
  <2>1. /\ worker \in {"flush", "copy", "commit"} /\ Discard /\ worker' = after
        /\ UNCHANGED <<fresh, events, channel, after, pool, closer, accepted, limbo, stored>>
    BY <1>4 DEF InsertFails
  <2>2. LoggerInv' /\ Trail!Settle(Len(batch)) /\ Len(batch) \in 1 .. BatchSize
    BY <1>0, <2>1, DiscardKeeps DEF Trail!Settle
  <2> QED
    BY <2>2 DEF Trail!Next
<1>5. CASE CommitFails
  <2>1. /\ worker \in {"flush", "copy", "commit"} /\ Discard /\ worker' = after
        /\ UNCHANGED <<fresh, events, channel, after, pool, closer, accepted, stored>>
        /\ limbo' = limbo \cup {batch}
    BY <1>5 DEF CommitFails
  <2>2. LoggerInv' /\ Trail!Settle(Len(batch)) /\ Len(batch) \in 1 .. BatchSize
    BY <1>0, <2>1, DiscardKeeps DEF Trail!Settle
  <2> QED
    BY <2>2 DEF Trail!Next
<1>6. ASSUME NEW b \in limbo, LateCommit(b) PROVE LoggerInv' /\ Trail!Next
  <2>1. stored' \in Seq(Event) /\ limbo' \subseteq Seq(Event)
    BY <1>0, <1>6, ConcatProperties DEF LateCommit
  <2>2. LoggerInv' /\ Settled' = Settled
    BY <1>6, <2>1, QueuedStays DEF LateCommit, LoggerInv, TypeOK, WorkerInv, CloserInv
  <2> QED
    BY <1>6, <2>2 DEF LateCommit, Trail!Next, Trail!Late
<1>7. CASE Finished
  BY <1>7, QuietSteps DEF Finished
<1> QED
  BY <1>1, <1>2, <1>3, <1>4, <1>5, <1>6, <1>7, QuietSteps DEF Next, RunStep

\* The invariant holds throughout.
LEMMA LoggerInvariant == Spec => []LoggerInv
BY LoggerInit, LoggerStepKeeps, PTL DEF Spec

\* The logger's channel and batch keep within their bounds, for all bounds.
THEOREM LoggerTypes == Spec => []TypeOK
<1>1. LoggerInv => TypeOK
  BY DEF LoggerInv
<1> QED
  BY <1>1, LoggerInvariant, PTL

\* However the handlers, the worker, the database and Close interleave, when Close heard
\* of the worker's end nothing it accepted is left in the logger.
THEOREM CloseIsClean == Spec => []CleanClose
<1>1. LoggerInv => CleanClose
  <2> SUFFICES ASSUME LoggerInv, closer \in {"closing", "closed"} PROVE Settled = Len(accepted)
    BY DEF CleanClose
  <2>1. batch = <<>> /\ events = <<>>
    BY DEF LoggerInv, CloserInv, WorkerInv
  <2> QED
    BY <2>1, EmptySeq, LoggerLengths DEF Settled
<1> QED
  BY <1>1, LoggerInvariant, PTL

\* After Close returned the logger itself writes nothing, also when Close had given up
\* waiting and the worker goes on.
THEOREM NothingWrittenAfterClose == Spec => NoWriteAfterClose
<1>1. LoggerInv /\ [Next]_vars =>
         [(pool # "none" /\ closer \in {"closed", "closed_late"})
             => (stored' = stored \/ \E b \in limbo : LateCommit(b))]_vars
  <2> SUFFICES ASSUME LoggerInv, Next, pool # "none", closer \in {"closed", "closed_late"}
               PROVE  stored' = stored \/ \E b \in limbo : LateCommit(b)
    BY DEF vars
  <2>1. ~FlushStdout /\ ~Commit
    BY DEF LoggerInv, CloserInv, FlushStdout, Commit
  <2> QED
    BY <2>1 DEF Next, RunStep, CloseStep, Log, LogDrops, LogPanics, Receive, Tick, ChannelEnds,
                Begin, CopyFrom, InsertFails, CommitFails, Close, WorkerIsDone, CloseTimesOut,
                CloseReturns, Finished, vars
<1> QED
  BY <1>1, LoggerInvariant, PTL DEF Spec, NoWriteAfterClose

\* The logger of the LLM proxy implements the audit trail.
THEOREM LoggerIsAuditTrail == Spec => ImplementsAuditTrail
BY LoggerInit, LoggerStepKeeps, LoggerInvariant, PTL
   DEF Spec, ImplementsAuditTrail, Trail!Spec

-----------------------------------------------------------------------------
(* GatewayAudit.  A batch that has arrived has left already, though the task *)
(* holds it until the answer comes.                                          *)

\* How many accepted events are neither in the batch nor in the channel.
Shipped == Len(gAccepted) - Len(gBatch) - Len(gChannel)

ShipInv ==
    /\ G!TypeOK
    /\ EndsWith(gAccepted, Shipped, gBatch, gChannel)
    /\ \A i \in DOMAIN gAccepted : gAccepted[i] \notin gFresh
    /\ gTask = "select" => Len(gBatch) < BatchSize
    /\ gTask = "sending" => gBatch # <<>>
    /\ gPosted = "yes" => gTask = "sending"

\* At the start nothing was recorded.
LEMMA ShipInit == G!Init => ShipInv /\ G!Trail!Init
<1> SUFFICES ASSUME G!Init PROVE ShipInv /\ G!Trail!Init
  OBVIOUS
<1>1. Len(<<>>) = 0 /\ gAccepted = <<>> /\ gBatch = <<>> /\ gChannel = <<>> /\ gPosted = "no"
  BY EmptySeq DEF G!Init
<1>2. DOMAIN gAccepted = {}
  BY <1>1
<1>3. Len(gAccepted) = 0 /\ Len(gBatch) = 0 /\ Len(gChannel) = 0
  BY <1>1
<1>4. Shipped = 0 /\ G!Settled = 0
  BY <1>3 DEF Shipped, G!Settled
<1>5. G!TypeOK
  BY <1>1, AuditLoggerAssumption, EmptySeq DEF G!Init, G!TypeOK
<1>6. EndsWith(gAccepted, Shipped, gBatch, gChannel)
  BY <1>3, <1>4 DEF EndsWith
<1>7. ShipInv
  BY <1>1, <1>2, <1>3, <1>5, <1>6, AuditLoggerAssumption DEF ShipInv, G!Init
<1> QED
  BY <1>4, <1>7 DEF G!Init, G!Trail!Init

\* What has left, before and after a step.
LEMMA SettledCases ==
    /\ gPosted # "yes" => G!Settled = Len(gAccepted) - Len(gChannel) - Len(gBatch)
    /\ gPosted = "yes" => G!Settled = Len(gAccepted) - Len(gChannel) - 0
    /\ gPosted' # "yes" => G!Settled' = Len(gAccepted') - Len(gChannel') - Len(gBatch')
    /\ gPosted' = "yes" => G!Settled' = Len(gAccepted') - Len(gChannel') - 0
BY DEF G!Settled

\* The lengths of the three sequences, and what left.
LEMMA ShipLengths ==
    ASSUME ShipInv
    PROVE  /\ Len(gAccepted) \in Nat /\ Len(gBatch) \in Nat /\ Len(gChannel) \in Nat
           /\ Shipped \in Nat /\ DOMAIN gAccepted = 1 .. Len(gAccepted)
           /\ gBatch # <<>> => Len(gBatch) > 0
           /\ BatchSize \in Nat /\ BatchSize > 0
           /\ gPosted # "yes" => G!Settled = Shipped
           /\ gPosted = "yes" => G!Settled = Shipped + Len(gBatch)
<1>1. Len(gAccepted) \in Nat /\ Len(gBatch) \in Nat /\ Len(gChannel) \in Nat
  BY LenProperties DEF ShipInv, G!TypeOK
<1>2. /\ Shipped \in Nat /\ DOMAIN gAccepted = 1 .. Len(gAccepted)
      /\ gBatch # <<>> => Len(gBatch) > 0
      /\ BatchSize \in Nat /\ BatchSize > 0
  BY LenProperties, EmptySeq, AuditLoggerAssumption DEF ShipInv, G!TypeOK, EndsWith
<1> QED
  BY <1>1, <1>2, SettledCases DEF Shipped

\* The next run of the trail is the batch.
LEMMA ShipNextRun ==
    ASSUME ShipInv, gTask = "sending"
    PROVE  /\ Len(gBatch) \in 1 .. BatchSize
           /\ Shipped + Len(gBatch) <= Len(gAccepted)
           /\ SubSeq(gAccepted, Shipped + 1, Shipped + Len(gBatch)) = gBatch
           /\ EndsWith(gAccepted, Shipped + Len(gBatch), <<>>, gChannel)
<1>1. gAccepted \in Seq(Event) /\ gBatch \in Seq(Event) /\ gChannel \in Seq(Event)
  BY DEF ShipInv, G!TypeOK
<1>2. Len(gBatch) \in 1 .. BatchSize
  BY ShipLengths DEF ShipInv, G!TypeOK
<1> QED
  BY <1>1, <1>2, EndLeaves DEF ShipInv

\* What is recorded while the task lives the trail takes in; the rest is nothing to it.
LEMMA RecordKeeps ==
    ASSUME ShipInv, NEW e \in Event, G!Record(e)
    PROVE  ShipInv' /\ [G!Trail!Next]_(G!Trail!trail)
<1>1. CASE gEnabled = "on" /\ gTask # "dropped"
  <2>1. /\ gAccepted' = Append(gAccepted, e) /\ gChannel' = Append(gChannel, e)
        /\ gAccepted \in Seq(Event) /\ gChannel \in Seq(Event) /\ gBatch \in Seq(Event)
        /\ gBatch' = gBatch /\ gPosted' = gPosted
    BY <1>1 DEF G!Record, ShipInv, G!TypeOK
  <2>2. /\ Len(gAccepted') = Len(gAccepted) + 1 /\ Len(gChannel') = Len(gChannel) + 1
        /\ gAccepted' \in Seq(Event) /\ gChannel' \in Seq(Event)
    BY <2>1, AppendProperties
  <2>3. Shipped' = Shipped /\ G!Settled' = G!Settled
    BY <2>1, <2>2, ShipLengths, SettledCases DEF Shipped
  <2>4. EndsWith(gAccepted', Shipped', gBatch', gChannel')
    BY <2>1, <2>3, EndTakesIn DEF ShipInv
  <2>5. \A i \in DOMAIN gAccepted' : gAccepted'[i] \notin gFresh'
    <3> SUFFICES ASSUME NEW i \in 1 .. Len(gAccepted) + 1 PROVE gAccepted'[i] \notin gFresh'
      BY <2>2, LenProperties
    <3>1. CASE i \in 1 .. Len(gAccepted)
      BY <2>1, <3>1, AppendProperties, ShipLengths DEF ShipInv, G!Record
    <3>2. CASE i = Len(gAccepted) + 1
      BY <2>1, <3>2, AppendProperties DEF G!Record
    <3> QED
      BY <3>1, <3>2, ShipLengths
  <2>6. ShipInv'
    BY <2>1, <2>2, <2>4, <2>5 DEF ShipInv, G!TypeOK, G!Record
  <2>7. \A i \in DOMAIN gAccepted : gAccepted[i] # e
    BY DEF G!Record, ShipInv
  <2>8. G!Trail!Accept(e)
    BY <2>1, <2>3, <2>7 DEF G!Record, G!Trail!Accept
  <2> QED
    BY <2>6, <2>8 DEF G!Trail!Next
<1>2. CASE ~(gEnabled = "on" /\ gTask # "dropped")
  BY <1>2 DEF G!Record, ShipInv, G!TypeOK, Shipped, G!Settled, G!Trail!trail
<1> QED
  BY <1>1, <1>2

\* Recv moves an event from the channel to the batch.
LEMMA RecvKeeps == ASSUME ShipInv, G!Recv PROVE ShipInv' /\ UNCHANGED G!Trail!trail
<1>1. /\ gChannel # <<>> /\ gBatch' = Append(gBatch, Head(gChannel)) /\ gChannel' = Tail(gChannel)
      /\ gAccepted \in Seq(Event) /\ gChannel \in Seq(Event) /\ gBatch \in Seq(Event)
      /\ gAccepted' = gAccepted /\ gPosted' = gPosted /\ gPosted # "yes"
  BY DEF G!Recv, ShipInv, G!TypeOK
<1>2. /\ Len(gBatch') = Len(gBatch) + 1 /\ Len(gChannel') = Len(gChannel) - 1
      /\ gBatch' \in Seq(Event) /\ gChannel' \in Seq(Event) /\ gBatch' # <<>>
  BY <1>1, AppendProperties, HeadTailProperties
<1>3. Shipped' = Shipped /\ G!Settled' = G!Settled
  <2>1. Len(gAccepted') = Len(gAccepted) /\ gPosted' # "yes"
    BY <1>1
  <2>2. /\ Len(gAccepted) \in Nat /\ Len(gBatch) \in Nat /\ Len(gChannel) \in Nat
    BY ShipLengths
  <2>3. /\ Shipped = Len(gAccepted) - Len(gBatch) - Len(gChannel)
        /\ Shipped' = Len(gAccepted') - Len(gBatch') - Len(gChannel')
    BY DEF Shipped
  <2> QED
    BY <1>1, <1>2, <2>1, <2>2, <2>3, SettledCases
<1>4. EndsWith(gAccepted', Shipped', gBatch', gChannel')
  BY <1>1, <1>3, EndMoves DEF ShipInv
<1>5. G!TypeOK'
  BY <1>1, <1>2, ShipLengths DEF G!Recv, ShipInv, G!TypeOK
<1>6. /\ (gTask = "select" => Len(gBatch) < BatchSize)'
      /\ (gPosted = "yes" => gTask = "sending")'
  BY <1>1, <1>2, ShipLengths DEF G!Recv, ShipInv
<1> QED
  BY <1>1, <1>2, <1>3, <1>4, <1>5, <1>6 DEF ShipInv, G!Recv, G!Trail!trail

\* The batch arrives: the trail stores it as one run.
LEMMA ArrivalKeeps ==
    ASSUME ShipInv, G!HandleAuditBatch PROVE ShipInv' /\ G!Trail!Next
<1>1. /\ gTask = "sending" /\ gPosted # "yes" /\ gPosted' = "yes"
      /\ gReceived' = gReceived \o gBatch
      /\ UNCHANGED <<gEnabled, gFresh, gChannel, gBatch, gTask, gLimbo, gAccepted>>
  BY DEF G!HandleAuditBatch
<1>2. gReceived' \in Seq(Event)
  BY <1>1, ConcatProperties DEF ShipInv, G!TypeOK
<1>3. ShipInv'
  BY <1>1, <1>2 DEF ShipInv, G!TypeOK, Shipped
<1>4. Shipped' = Shipped /\ G!Settled = Shipped /\ G!Settled' = Shipped + Len(gBatch)
  <2>1. Shipped' = Shipped /\ Len(gBatch') = Len(gBatch) /\ Len(gAccepted') = Len(gAccepted)
        /\ Len(gChannel') = Len(gChannel)
    BY <1>1 DEF Shipped
  <2>2. G!Settled' = Len(gAccepted) - Len(gChannel) - 0 /\ G!Settled = Shipped
    BY <1>1, <2>1, ShipLengths, SettledCases
  <2>3. Shipped = Len(gAccepted) - Len(gBatch) - Len(gChannel)
    BY DEF Shipped
  <2> QED
    BY <2>1, <2>2, <2>3, ShipLengths
<1>5. Len(gBatch) \in 1 .. BatchSize /\ G!Trail!Settle(Len(gBatch))
  BY <1>1, <1>4, ShipNextRun DEF G!Trail!Settle, G!Trail!Run
<1> QED
  BY <1>3, <1>5 DEF G!Trail!Next

\* The sender goes on or ends: a batch that has not arrived is given up or in limbo.
LEMMA GiveUpKeeps ==
    ASSUME ShipInv, gTask = "sending", G!GiveUp, G!ClearBatch, gPosted' = "no",
           gTask' \in {"select", "dropped"},
           UNCHANGED <<gEnabled, gFresh, gChannel, gAccepted, gReceived>>
    PROVE  ShipInv' /\ [G!Trail!Next]_(G!Trail!trail)
<1>1. gBatch' = <<>> /\ Len(gBatch') = 0 /\ gBatch \in Seq(Event)
  BY EmptySeq DEF G!ClearBatch, ShipInv, G!TypeOK
<1>2. Shipped' = Shipped + Len(gBatch) /\ G!Settled' = Shipped + Len(gBatch)
  BY <1>1, ShipLengths, SettledCases DEF Shipped
<1>3. gLimbo' \in {gLimbo, gLimbo \cup {gBatch}} /\ (gPosted = "yes" => gLimbo' = gLimbo)
  BY DEF G!GiveUp
<1>4. G!TypeOK'
  BY <1>1, <1>3, EmptySeq, ShipLengths DEF ShipInv, G!TypeOK
<1>5. EndsWith(gAccepted', Shipped', gBatch', gChannel')
  BY <1>1, <1>2, ShipNextRun
<1>6. ShipInv'
  BY <1>1, <1>4, <1>5, ShipLengths DEF ShipInv
<1>7. CASE gPosted = "yes"
  BY <1>2, <1>3, <1>6, <1>7, ShipLengths DEF G!Trail!trail
<1>8. CASE gPosted # "yes"
  <2>1. G!Settled = Shipped
    BY <1>8, ShipLengths
  <2>2. Len(gBatch) \in 1 .. BatchSize /\ G!Trail!Settle(Len(gBatch))
    BY <1>2, <1>3, <2>1, ShipNextRun DEF G!Trail!Settle, G!Trail!Run
  <2> QED
    BY <1>6, <2>2 DEF G!Trail!Next
<1> QED
  BY <1>7, <1>8

\* Each step keeps the invariant and is a step of the trail, or none.
LEMMA ShipStepKeeps ==
    ShipInv /\ [G!Next]_gVars => ShipInv' /\ [G!Trail!Next]_(G!Trail!trail)
<1> SUFFICES ASSUME ShipInv, [G!Next]_gVars PROVE ShipInv' /\ [G!Trail!Next]_(G!Trail!trail)
  OBVIOUS
<1>1. CASE G!IntervalTick
  BY <1>1 DEF G!IntervalTick, G!TickSends, ShipInv, G!TypeOK, Shipped, G!Settled, G!Trail!trail
<1>2. CASE G!SendBatchReturns
  BY <1>2, GiveUpKeeps DEF G!SendBatchReturns
<1>3. CASE G!RuntimeDropped
  <2>1. CASE gTask = "sending"
    BY <1>3, <2>1, GiveUpKeeps DEF G!RuntimeDropped
  <2>2. CASE gTask # "sending"
    BY <1>3, <2>2
       DEF G!RuntimeDropped, ShipInv, G!TypeOK, Shipped, G!Settled, G!Trail!trail
  <2> QED
    BY <2>1, <2>2
<1>4. ASSUME NEW b \in gLimbo, G!LateArrival(b) PROVE ShipInv' /\ G!Trail!Next
  <2>1. gReceived' \in Seq(Event) /\ gLimbo' \subseteq Seq(Event)
    BY <1>4, ConcatProperties DEF G!LateArrival, ShipInv, G!TypeOK
  <2>2. ShipInv' /\ G!Settled' = G!Settled
    BY <1>4, <2>1 DEF G!LateArrival, ShipInv, G!TypeOK, Shipped, G!Settled
  <2> QED
    BY <1>4, <2>2 DEF G!LateArrival, G!Trail!Next, G!Trail!Late
<1>5. CASE UNCHANGED gVars
  BY <1>5 DEF gVars, ShipInv, G!TypeOK, Shipped, G!Settled, G!Trail!trail
<1>6. CASE G!Finished
  BY <1>5, <1>6 DEF G!Finished, G!vars, gVars
<1> QED
  BY <1>1, <1>2, <1>3, <1>4, <1>5, <1>6, RecordKeeps, RecvKeeps, ArrivalKeeps DEF G!Next

\* The shipping of the Rust gateways implements the audit trail.
THEOREM ShippingIsAuditTrail == G!Spec => GatewayImplementsAuditTrail
BY ShipInit, ShipStepKeeps, PTL
   DEF G!Spec, G!vars, gVars, GatewayImplementsAuditTrail, G!ImplementsAuditTrail, G!Trail!Spec

-----------------------------------------------------------------------------
(* What a trail promises: no event is stored twice, and none that was not    *)
(* taken in.  Stated of the values of AuditTrail's variables, so that it     *)
(* serves both implementations.                                              *)

\* The events of a sequence, and that it holds each of them once.
Events(s) == {s[i] : i \in 1 .. Len(s)}
NoTwice(s) == \A i, j \in 1 .. Len(s) : s[i] = s[j] => i = j

\* The first n events of acc are settled: what is stored and what is in limbo comes from
\* them, each at most once and in one place.
Once(acc, n, limbos, st) ==
    /\ acc \in Seq(Event) /\ st \in Seq(Event) /\ limbos \subseteq Seq(Event)
    /\ n \in 0 .. Len(acc)
    /\ NoTwice(acc) /\ NoTwice(st)
    /\ \A e \in Events(st) : \E k \in 1 .. n : acc[k] = e
    /\ \A run \in limbos :
          /\ NoTwice(run)
          /\ \A e \in Events(run) : (\E k \in 1 .. n : acc[k] = e) /\ e \notin Events(st)
    /\ \A r1, r2 \in limbos : r1 # r2 => Events(r1) \cap Events(r2) = {}

\* Two sequences without repetition and without a common event, one after the other.
LEMMA JoinedNoTwice ==
    ASSUME NEW s \in Seq(Event), NEW t \in Seq(Event), NoTwice(s), NoTwice(t),
           Events(s) \cap Events(t) = {}
    PROVE  /\ s \o t \in Seq(Event) /\ NoTwice(s \o t)
           /\ Events(s \o t) = Events(s) \cup Events(t)
<1> DEFINE u == s \o t
<1>1. /\ u \in Seq(Event) /\ Len(u) = Len(s) + Len(t)
      /\ \A i \in 1 .. Len(s) + Len(t) : u[i] = IF i <= Len(s) THEN s[i] ELSE t[i - Len(s)]
  BY ConcatProperties
<1>2. Len(s) \in Nat /\ Len(t) \in Nat
  BY LenProperties
<1> HIDE DEF u
<1>3. NoTwice(u)
  <2> SUFFICES ASSUME NEW i \in 1 .. Len(s) + Len(t), NEW j \in 1 .. Len(s) + Len(t),
                      u[i] = u[j]
               PROVE  i = j
    BY <1>1 DEF NoTwice
  <2>1. CASE i <= Len(s) /\ j <= Len(s)
    BY <1>1, <1>2, <2>1 DEF NoTwice
  <2>2. CASE i > Len(s) /\ j > Len(s)
    <3>1. i - Len(s) \in 1 .. Len(t) /\ j - Len(s) \in 1 .. Len(t)
      BY <1>2, <2>2
    <3>2. t[i - Len(s)] = t[j - Len(s)]
      BY <1>1, <1>2, <2>2
    <3>3. i - Len(s) = j - Len(s)
      BY <3>1, <3>2 DEF NoTwice
    <3> QED
      BY <1>2, <3>3
  <2>3. CASE i <= Len(s) /\ j > Len(s)
    <3>1. u[i] \in Events(s)
      BY <1>1, <1>2, <2>3 DEF Events
    <3>2. j - Len(s) \in 1 .. Len(t) /\ u[j] = t[j - Len(s)]
      BY <1>1, <1>2, <2>3
    <3> QED
      BY <3>1, <3>2 DEF Events
  <2>4. CASE i > Len(s) /\ j <= Len(s)
    <3>1. u[j] \in Events(s)
      BY <1>1, <1>2, <2>4 DEF Events
    <3>2. i - Len(s) \in 1 .. Len(t) /\ u[i] = t[i - Len(s)]
      BY <1>1, <1>2, <2>4
    <3> QED
      BY <3>1, <3>2 DEF Events
  <2> QED
    BY <1>2, <2>1, <2>2, <2>3, <2>4
<1>4. Events(u) \subseteq Events(s) \cup Events(t)
  <2> SUFFICES ASSUME NEW i \in 1 .. Len(s) + Len(t) PROVE u[i] \in Events(s) \cup Events(t)
    BY <1>1 DEF Events
  <2>1. CASE i <= Len(s)
    BY <1>1, <1>2, <2>1 DEF Events
  <2>2. CASE i > Len(s)
    <3>1. i - Len(s) \in 1 .. Len(t) /\ u[i] = t[i - Len(s)]
      BY <1>1, <1>2, <2>2
    <3> QED
      BY <3>1 DEF Events
  <2> QED
    BY <1>2, <2>1, <2>2
<1>5. Events(s) \subseteq Events(u)
  BY <1>1, <1>2 DEF Events
<1>6. Events(t) \subseteq Events(u)
  <2> SUFFICES ASSUME NEW i \in 1 .. Len(t) PROVE t[i] \in Events(u)
    BY DEF Events
  <2>1. /\ i + Len(s) \in 1 .. Len(s) + Len(t) /\ ~(i + Len(s) <= Len(s))
        /\ (i + Len(s)) - Len(s) = i
    BY <1>2
  <2>2. u[i + Len(s)] = t[i]
    BY <1>1, <2>1
  <2> QED
    BY <1>1, <2>1, <2>2 DEF Events
<1> QED
  BY <1>1, <1>3, <1>4, <1>5, <1>6 DEF u

\* The run of the m events after the first n holds these and each of them once.
LEMMA RunOnce ==
    ASSUME NEW acc \in Seq(Event), NoTwice(acc), NEW n \in Nat, NEW m \in Nat,
           n + m <= Len(acc)
    PROVE  /\ SubSeq(acc, n + 1, n + m) \in Seq(Event)
           /\ NoTwice(SubSeq(acc, n + 1, n + m))
           /\ \A e \in Events(SubSeq(acc, n + 1, n + m)) :
                 \E k \in n + 1 .. n + m : acc[k] = e
<1> DEFINE u == SubSeq(acc, n + 1, n + m)
<1>0. Len(acc) \in Nat
  BY LenProperties
<1>1. \A i \in n + 1 .. n + m : i \in 1 .. Len(acc)
  BY <1>0
<1>2. /\ u \in Seq(Event) /\ Len(u) = m
      /\ \A i \in 1 .. m : u[i] = acc[n + i]
  <2>1. /\ u \in Seq(Event)
        /\ Len(u) = IF n + 1 <= n + m THEN (n + m) - (n + 1) + 1 ELSE 0
        /\ \A i \in 1 .. (n + m) - (n + 1) + 1 : u[i] = acc[n + 1 + i - 1]
    BY <1>0, <1>1, SubSeqProperties
  <2>2. (IF n + 1 <= n + m THEN (n + m) - (n + 1) + 1 ELSE 0) = m
    OBVIOUS
  <2>3. (n + m) - (n + 1) + 1 = m /\ \A i \in 1 .. m : n + 1 + i - 1 = n + i
    OBVIOUS
  <2> HIDE DEF u
  <2> QED
    BY <2>1, <2>2, <2>3
<1> HIDE DEF u
<1>3. NoTwice(u)
  <2> SUFFICES ASSUME NEW i \in 1 .. m, NEW j \in 1 .. m, acc[n + i] = acc[n + j]
               PROVE  i = j
    BY <1>2 DEF NoTwice
  <2>1. n + i \in 1 .. Len(acc) /\ n + j \in 1 .. Len(acc)
    BY <1>0
  <2>2. n + i = n + j
    BY <2>1 DEF NoTwice
  <2> QED
    BY <2>2
<1>4. ASSUME NEW e \in Events(u) PROVE \E k \in n + 1 .. n + m : acc[k] = e
  <2>1. PICK i \in 1 .. m : e = u[i]
    BY <1>2 DEF Events
  <2>2. n + i \in n + 1 .. n + m /\ acc[n + i] = e
    BY <1>2, <2>1
  <2> QED
    BY <2>2
<1> QED
  BY <1>2, <1>3, <1>4 DEF u

\* An event is taken in.
LEMMA AcceptOnce ==
    ASSUME NEW acc, NEW n, NEW limbos, NEW st, Once(acc, n, limbos, st),
           NEW e \in Event, \A i \in DOMAIN acc : acc[i] # e
    PROVE  Once(Append(acc, e), n, limbos, st)
<1> DEFINE a == Append(acc, e)
<1>1. acc \in Seq(Event) /\ Len(acc) \in Nat /\ DOMAIN acc = 1 .. Len(acc) /\ n \in 0 .. Len(acc)
  BY LenProperties DEF Once
<1>2. /\ a \in Seq(Event) /\ Len(a) = Len(acc) + 1
      /\ \A i \in 1 .. Len(acc) : a[i] = acc[i]
      /\ a[Len(acc) + 1] = e
  BY <1>1, AppendProperties
<1> HIDE DEF a
<1>3. NoTwice(a)
  <2> SUFFICES ASSUME NEW i \in 1 .. Len(acc) + 1, NEW j \in 1 .. Len(acc) + 1, a[i] = a[j]
               PROVE  i = j
    BY <1>2 DEF NoTwice
  <2>0. /\ i \in 1 .. Len(acc) \/ i = Len(acc) + 1
        /\ j \in 1 .. Len(acc) \/ j = Len(acc) + 1
    BY <1>1
  <2>1. \A k \in 1 .. Len(acc) : a[k] # e
    BY <1>1, <1>2
  <2>2. CASE i \in 1 .. Len(acc) /\ j \in 1 .. Len(acc)
    BY <1>2, <2>2 DEF NoTwice, Once
  <2>3. CASE i = Len(acc) + 1 \/ j = Len(acc) + 1
    BY <1>2, <2>0, <2>1, <2>3
  <2> QED
    BY <2>0, <2>2, <2>3
<1>4. n \in 0 .. Len(a) /\ \A k \in 1 .. n : a[k] = acc[k]
  BY <1>1, <1>2
<1>5. Once(a, n, limbos, st)
  BY <1>2, <1>3, <1>4 DEF Once
<1> QED
  BY <1>5 DEF a

\* A run is settled: stored, given up, or sent off.
LEMMA SettleOnce ==
    ASSUME NEW acc, NEW n, NEW limbos, NEW st, Once(acc, n, limbos, st),
           NEW m \in Nat, n + m <= Len(acc)
    PROVE  LET run == SubSeq(acc, n + 1, n + m) IN
           /\ Once(acc, n + m, limbos, st \o run)
           /\ Once(acc, n + m, limbos, st)
           /\ Once(acc, n + m, limbos \cup {run}, st)
<1> DEFINE run == SubSeq(acc, n + 1, n + m)
<1>1. /\ acc \in Seq(Event) /\ st \in Seq(Event) /\ limbos \subseteq Seq(Event)
      /\ n \in Nat /\ NoTwice(acc) /\ NoTwice(st) /\ Len(acc) \in Nat
  BY LenProperties DEF Once
<1>2. /\ run \in Seq(Event) /\ NoTwice(run)
      /\ \A e \in Events(run) : \E k \in n + 1 .. n + m : acc[k] = e
  BY <1>1, RunOnce
<1> HIDE DEF run
<1>3. /\ n + m \in 0 .. Len(acc)
      /\ \A k \in 1 .. n : k \in 1 .. n + m
      /\ \A k \in n + 1 .. n + m : k \in 1 .. n + m
  BY <1>1
<1>4. \A k \in 1 .. n : \A l \in n + 1 .. n + m : acc[k] # acc[l]
  <2> SUFFICES ASSUME NEW k \in 1 .. n, NEW l \in n + 1 .. n + m, acc[k] = acc[l]
               PROVE  FALSE
    OBVIOUS
  <2>1. k \in 1 .. Len(acc) /\ l \in 1 .. Len(acc) /\ k # l
    BY <1>1
  <2> QED
    BY <1>1, <2>1 DEF NoTwice
<1>5. \A e \in Events(run) : /\ e \notin Events(st)
                             /\ \A r \in limbos : e \notin Events(r)
  <2> SUFFICES ASSUME NEW e \in Events(run), NEW k \in 1 .. n, acc[k] = e PROVE FALSE
    BY DEF Once
  <2> QED
    BY <1>2, <1>4
<1>6. Once(acc, n + m, limbos, st)
  <2>1. \A e : (\E k \in 1 .. n : acc[k] = e) => \E k \in 1 .. n + m : acc[k] = e
    BY <1>3
  <2> QED
    BY <1>3, <2>1 DEF Once
<1>7. \A e \in Events(run) : \E k \in 1 .. n + m : acc[k] = e
  BY <1>2, <1>3
<1>8. Once(acc, n + m, limbos, st \o run)
  <2>1. /\ st \o run \in Seq(Event) /\ NoTwice(st \o run)
        /\ Events(st \o run) = Events(st) \cup Events(run)
    BY <1>1, <1>2, <1>5, JoinedNoTwice
  <2> QED
    BY <1>5, <1>6, <1>7, <2>1 DEF Once
<1>9. Once(acc, n + m, limbos \cup {run}, st)
  BY <1>2, <1>5, <1>6, <1>7 DEF Once
<1> QED
  BY <1>6, <1>8, <1>9 DEF run

\* A run that was sent off is stored after all.
LEMMA LateOnce ==
    ASSUME NEW acc, NEW n, NEW limbos, NEW st, Once(acc, n, limbos, st), NEW run \in limbos
    PROVE  Once(acc, n, limbos \ {run}, st \o run)
<1>1. Events(st) \cap Events(run) = {} /\ st \in Seq(Event) /\ run \in Seq(Event)
  BY DEF Once
<1>2. /\ st \o run \in Seq(Event) /\ NoTwice(st \o run)
      /\ Events(st \o run) = Events(st) \cup Events(run)
  BY <1>1, JoinedNoTwice DEF Once
<1> QED
  BY <1>2 DEF Once

\* An empty trail.
LEMMA NothingOnce == Once(<<>>, 0, {}, <<>>)
<1>1. <<>> \in Seq(Event) /\ Len(<<>>) = 0
  OBVIOUS
<1>2. NoTwice(<<>>) /\ Events(<<>>) = {} /\ 0 \in 0 .. Len(<<>>)
  BY <1>1 DEF NoTwice, Events
<1> QED
  BY <1>1, <1>2 DEF Once

LoggerOnce == Once(accepted, Settled, limbo, stored)
ShipOnce   == Once(gAccepted, G!Settled, gLimbo, gReceived)

\* What Postgres, or standard output, holds of the proxy's events: none twice and none
\* that Log did not take in.
StoredOnce == NoTwice(stored) /\ Events(stored) \subseteq Events(accepted)

\* What the control plane received of the gateway's events: none twice and none that was
\* not recorded.
ReceivedOnce == NoTwice(gReceived) /\ Events(gReceived) \subseteq Events(gAccepted)

\* What is stored comes from what was taken in.
LEMMA OnceIsOnce ==
    ASSUME NEW acc, NEW n, NEW limbos, NEW st, Once(acc, n, limbos, st)
    PROVE  NoTwice(st) /\ Events(st) \subseteq Events(acc)
<1>1. n \in 0 .. Len(acc) /\ Len(acc) \in Nat
  BY LenProperties DEF Once
<1>2. \A k \in 1 .. n : k \in 1 .. Len(acc)
  BY <1>1
<1> QED
  BY <1>2 DEF Once, Events

\* No event of the LLM proxy is stored twice, though a commit that failed for the logger
\* may take effect at any time later, for any capacity, batch size and set of events.
THEOREM NothingStoredTwice == Spec => []StoredOnce
<1>1. Trail!Init => LoggerOnce
  BY NothingOnce DEF Trail!Init, LoggerOnce
<1>2. LoggerOnce /\ [Trail!Next]_(Trail!trail) => LoggerOnce'
  <2> SUFFICES ASSUME LoggerOnce, [Trail!Next]_(Trail!trail) PROVE LoggerOnce'
    OBVIOUS
  <2>1. ASSUME NEW e \in Event, Trail!Accept(e) PROVE LoggerOnce'
    BY <2>1, AcceptOnce DEF Trail!Accept, LoggerOnce
  <2>2. ASSUME NEW m \in 1 .. BatchSize, Trail!Settle(m) PROVE LoggerOnce'
    <3>1. m \in Nat
      BY AuditLoggerAssumption
    <3>2. /\ Once(accepted, Settled, limbo, stored) /\ Settled + m <= Len(accepted)
          /\ Settled' = Settled + m /\ accepted' = accepted
      BY <2>2 DEF Trail!Settle, LoggerOnce
    <3> DEFINE run == SubSeq(accepted, Settled + 1, Settled + m)
    <3>3. /\ Once(accepted, Settled + m, limbo, stored \o run)
          /\ Once(accepted, Settled + m, limbo, stored)
          /\ Once(accepted, Settled + m, limbo \cup {run}, stored)
      BY <3>1, <3>2, SettleOnce
    <3>4. \/ stored' = stored \o run /\ limbo' = limbo
          \/ stored' = stored /\ limbo' = limbo
          \/ limbo' = limbo \cup {run} /\ stored' = stored
      BY <2>2 DEF Trail!Settle, Trail!Run
    <3> HIDE DEF run
    <3> QED
      BY <3>2, <3>3, <3>4 DEF LoggerOnce
  <2>3. ASSUME NEW run \in limbo, Trail!Late(run) PROVE LoggerOnce'
    BY <2>3, LateOnce DEF Trail!Late, LoggerOnce
  <2>4. CASE UNCHANGED Trail!trail
    BY <2>4 DEF Trail!trail, LoggerOnce
  <2> QED
    BY <2>1, <2>2, <2>3, <2>4 DEF Trail!Next
<1>3. LoggerOnce => StoredOnce
  BY OnceIsOnce DEF LoggerOnce, StoredOnce
<1> QED
  BY <1>1, <1>2, <1>3, LoggerIsAuditTrail, PTL DEF ImplementsAuditTrail, Trail!Spec

\* No event of a gateway reaches the control plane's store twice, though a POST without an
\* answer may arrive at any time later, for any batch size and set of events.
THEOREM NothingReceivedTwice == G!Spec => []ReceivedOnce
<1>1. G!Trail!Init => ShipOnce
  BY NothingOnce DEF G!Trail!Init, ShipOnce
<1>2. ShipOnce /\ [G!Trail!Next]_(G!Trail!trail) => ShipOnce'
  <2> SUFFICES ASSUME ShipOnce, [G!Trail!Next]_(G!Trail!trail) PROVE ShipOnce'
    OBVIOUS
  <2>1. ASSUME NEW e \in Event, G!Trail!Accept(e) PROVE ShipOnce'
    BY <2>1, AcceptOnce DEF G!Trail!Accept, ShipOnce
  <2>2. ASSUME NEW m \in 1 .. BatchSize, G!Trail!Settle(m) PROVE ShipOnce'
    <3>1. m \in Nat
      BY AuditLoggerAssumption
    <3>2. /\ Once(gAccepted, G!Settled, gLimbo, gReceived) /\ G!Settled + m <= Len(gAccepted)
          /\ G!Settled' = G!Settled + m /\ gAccepted' = gAccepted
      BY <2>2 DEF G!Trail!Settle, ShipOnce
    <3> DEFINE run == SubSeq(gAccepted, G!Settled + 1, G!Settled + m)
    <3>3. /\ Once(gAccepted, G!Settled + m, gLimbo, gReceived \o run)
          /\ Once(gAccepted, G!Settled + m, gLimbo, gReceived)
          /\ Once(gAccepted, G!Settled + m, gLimbo \cup {run}, gReceived)
      BY <3>1, <3>2, SettleOnce
    <3>4. \/ gReceived' = gReceived \o run /\ gLimbo' = gLimbo
          \/ gReceived' = gReceived /\ gLimbo' = gLimbo
          \/ gLimbo' = gLimbo \cup {run} /\ gReceived' = gReceived
      BY <2>2 DEF G!Trail!Settle, G!Trail!Run
    <3> HIDE DEF run
    <3> QED
      BY <3>2, <3>3, <3>4 DEF ShipOnce
  <2>3. ASSUME NEW run \in gLimbo, G!Trail!Late(run) PROVE ShipOnce'
    BY <2>3, LateOnce DEF G!Trail!Late, ShipOnce
  <2>4. CASE UNCHANGED G!Trail!trail
    BY <2>4 DEF G!Trail!trail, ShipOnce
  <2> QED
    BY <2>1, <2>2, <2>3, <2>4 DEF G!Trail!Next
<1>3. ShipOnce => ReceivedOnce
  BY OnceIsOnce DEF ShipOnce, ReceivedOnce
<1> QED
  BY <1>1, <1>2, <1>3, ShippingIsAuditTrail, PTL
     DEF GatewayImplementsAuditTrail, G!ImplementsAuditTrail, G!Trail!Spec
=============================================================================
