------------------------ MODULE LeaderElection_proofs ------------------------
(***************************************************************************)
(* Proofs about LeaderElection for any set of replicas and any bounds.      *)
(* OneLiveLeader is inductive only together with three facts: revisions     *)
(* of sessions are distinct, a replica that won and whose key still exists  *)
(* owns the smallest key, and (in TypeOK) a replica that is not past a      *)
(* victory has its flag cleared.                                            *)
(***************************************************************************)
EXTENDS LeaderElection, TLAPS

\* Two replicas never share a session's key.
DistinctKeys ==
    \A r, s \in Replica : r # s => my[r] # my[s] \/ my[r] = 0

\* While its key exists, a victor's key is the smallest.
VictorFirst ==
    \A r \in Replica :
        (r \in leaders \/ pc[r] = "won") /\ my[r] \in keys => \A k \in keys : k >= my[r]

IInv == TypeOK /\ DistinctKeys /\ VictorFirst

\* Initially nobody leads and no key exists.
LEMMA InitIInv == Init => IInv
BY DEF Init, IInv, TypeOK, PCs, DistinctKeys, VictorFirst

\* main's steps: a process that ends forgets its session and its flag; its key is left.
LEMMA ProcessStep ==
    ASSUME IInv, NEW r \in Replica,
           Start(r) \/ StartStandalone(r) \/ Shutdown(r) \/ ProcessEnds(r)
    PROVE  IInv'
<1> USE DEF IInv, TypeOK, PCs, DistinctKeys, VictorFirst, Goto
<1>1. CASE Start(r)
  BY <1>1 DEF Start
<1>2. CASE StartStandalone(r)
  BY <1>2 DEF StartStandalone
<1>3. CASE Shutdown(r)
  BY <1>3 DEF Shutdown, Up
<1>4. CASE ProcessEnds(r)
  BY <1>4 DEF ProcessEnds, Up
<1>5. QED
  BY <1>1, <1>2, <1>3, <1>4

\* A new key has the largest revision, so no victor stops being first.
LEMMA PutKeyStep == ASSUME IInv, NEW r \in Replica, PutKey(r) PROVE IInv'
<1> USE DEF IInv, PutKey, Goto
<1>1. TypeOK'
  BY DEF TypeOK, PCs
<1>2. DistinctKeys'
  BY DEF TypeOK, DistinctKeys
<1>3. r \notin leaders /\ pc'[r] = "wait"
  BY DEF TypeOK
<1>4. VictorFirst'
  <2> SUFFICES ASSUME NEW s \in Replica, (s \in leaders' \/ pc'[s] = "won"),
                      my'[s] \in keys', NEW k \in keys'
               PROVE  k >= my'[s]
    BY DEF VictorFirst
  <2>1. s # r
    BY <1>3
  <2>2. my'[s] = my[s] /\ (s \in leaders \/ pc[s] = "won")
    BY <2>1 DEF TypeOK
  <2>3. my[s] \in keys
    BY <2>2 DEF TypeOK
  <2>4. CASE k \in keys
    BY <2>2, <2>3, <2>4 DEF VictorFirst
  <2>5. CASE k = rev + 1
    BY <2>2, <2>5 DEF TypeOK
  <2>6. QED
    BY <2>4, <2>5
<1>5. QED
  BY <1>1, <1>2, <1>4

\* The other steps of Run: only WaitDeletes makes a victor, and it has looked.
LEMMA RunStepIInv == ASSUME IInv, NEW r \in Replica, RunStep(r) PROVE IInv'
<1> USE DEF IInv, TypeOK, PCs, DistinctKeys, VictorFirst, Goto
<1>1. CASE LoopExit(r)
  BY <1>1 DEF LoopExit
<1>2. CASE CreateSession(r)
  BY <1>2 DEF CreateSession
<1>3. CASE BackoffEnds(r)
  BY <1>3 DEF BackoffEnds
<1>4. CASE PutKey(r)
  BY <1>4, PutKeyStep
<1>5. CASE WaitDeletes(r)
  BY <1>5 DEF WaitDeletes
<1>6. CASE BecomeLeader(r)
  BY <1>6 DEF BecomeLeader
<1>7. CASE SessionDone(r)
  BY <1>7 DEF SessionDone
<1>8. CASE StepDown(r)
  BY <1>8 DEF StepDown, ClearLeader
<1>9. CASE ResignKey(r)
  BY <1>9 DEF ResignKey
<1>10. CASE ResignFlag(r)
  BY <1>10 DEF ResignFlag
<1>11. QED
  BY <1>1, <1>2, <1>3, <1>4, <1>5, <1>6, <1>7, <1>8, <1>9, <1>10 DEF RunStep

\* Failed calls only remove keys.
LEMMA FailureStep == ASSUME IInv, NEW r \in Replica, Failure(r) PROVE IInv'
<1> USE DEF IInv, TypeOK, PCs, DistinctKeys, VictorFirst, Goto
<1>1. CASE CreateSessionFails(r)
  BY <1>1 DEF CreateSessionFails
<1>2. CASE CampaignFails(r)
  BY <1>2 DEF CampaignFails
<1>3. CASE ResignFails(r)
  BY <1>3 DEF ResignFails
<1>4. QED
  BY <1>1, <1>2, <1>3 DEF Failure

\* The inductive invariant holds in every reachable state.
THEOREM InductiveInvariant == Spec => []IInv
<1>1. IInv /\ [Next]_vars => IInv'
  <2> SUFFICES ASSUME IInv, [Next]_vars PROVE IInv'
    OBVIOUS
  <2>1. CASE \E r \in Replica : Start(r) \/ StartStandalone(r) \/ Shutdown(r) \/ ProcessEnds(r)
    BY <2>1, ProcessStep
  <2>2. CASE \E r \in Replica : RunStep(r)
    BY <2>2, RunStepIInv
  <2>3. CASE \E r \in Replica : Failure(r)
    BY <2>3, FailureStep
  <2>4. CASE SomeLeaseExpires \/ Stabilise \/ UNCHANGED vars
    BY <2>4 DEF SomeLeaseExpires, Expire, Stabilise, vars,
                IInv, TypeOK, PCs, DistinctKeys, VictorFirst
  <2>5. QED
    BY <2>1, <2>2, <2>3, <2>4 DEF Next
<1>2. QED
  BY InitIInv, <1>1, PTL DEF Spec

\* Every variable keeps its type.
THEOREM TypeCorrect == Spec => []TypeOK
<1>1. IInv => TypeOK
  BY DEF IInv
<1>2. QED
  BY <1>1, InductiveInvariant, PTL

\* However leases expire and processes die, at most one replica with isLeader set has
\* its key in etcd: both would own the smallest key, and keys are distinct.
THEOREM AtMostOneLiveLeader == Spec => []OneLiveLeader
<1>1. IInv => OneLiveLeader
  <2> SUFFICES ASSUME IInv, NEW r \in leaders, NEW s \in leaders,
                      my[r] \in keys, my[s] \in keys
               PROVE  r = s
    BY DEF OneLiveLeader
  <2>1. r \in Replica /\ s \in Replica /\ my[r] \in Nat /\ my[s] \in Nat /\ my[r] # 0
    BY DEF IInv, TypeOK
  <2>2. my[r] >= my[s] /\ my[s] >= my[r]
    BY <2>1 DEF IInv, VictorFirst
  <2>3. QED
    BY <2>1, <2>2 DEF IInv, DistinctKeys
<1>2. QED
  BY <1>1, InductiveInvariant, PTL
=============================================================================
