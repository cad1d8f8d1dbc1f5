---------------------------- MODULE Access_proofs ----------------------------
(***************************************************************************)
(* Proofs about what decides on access: the policy engine, for any          *)
(* policies, questions, callers and lengths of lists; the two checks of     *)
(* upstream URLs, for any names, addresses and approved strings.            *)
(***************************************************************************)
EXTENDS MCRequestPaths, SequenceTheorems, TLAPS

-----------------------------------------------------------------------------
(* PolicyEngine.  The invariant says how far a walk has come: no policy      *)
(* before next matches.                                                      *)

\* Policy i of the list c loaded is not the one that grants.
Passed(c, i) == ~E!Matches(eSnap[c][i], eAsk[c])

\* What is known of a caller at each of its steps.
Walk(c) ==
    /\ eAt[c] = "idle" => eNext[c] = 1 /\ eVerdict[c] = 0
    /\ eAt[c] = "loop" => eVerdict[c] = 0 /\ \A i \in 1 .. eNext[c] - 1 : Passed(c, i)
    /\ eAt[c] = "decided" =>
          \/ eVerdict[c] = 0 /\ \A i \in DOMAIN eSnap[c] : Passed(c, i)
          \/ /\ eVerdict[c] \in DOMAIN eSnap[c]
             /\ ~Passed(c, eVerdict[c])
             /\ \A i \in 1 .. eVerdict[c] - 1 : Passed(c, i)

PolicyInv == E!TypeOK /\ \A c \in Caller : Walk(c)

\* A list of policies is a sequence.
LEMMA ListsAreSeqs ==
    ASSUME NEW l \in E!Lists
    PROVE  l \in Seq(PolicySpec) /\ Len(l) \in Nat /\ DOMAIN l = 1 .. Len(l)
<1>1. PICK n \in 0 .. MaxList : l \in [1 .. n -> PolicySpec]
  BY DEF E!Lists
<1>2. n \in Nat
  BY <1>1, RequestPathsAssumption
<1>3. l \in Seq(PolicySpec)
  BY <1>1, <1>2, SeqDef
<1>4. QED
  BY <1>3, LenProperties

\* The empty list is one of them.
LEMMA EmptyIsList == <<>> \in E!Lists
<1>1. <<>> \in [1 .. 0 -> PolicySpec]
  OBVIOUS
<1>2. 0 \in 0 .. MaxList
  BY RequestPathsAssumption
<1>3. QED
  BY <1>1, <1>2 DEF E!Lists

\* The first match decides.
LEMMA VerdictFirst ==
    ASSUME NEW l \in E!Lists, NEW a, NEW n \in DOMAIN l, E!Matches(l[n], a),
           \A i \in 1 .. n - 1 : ~E!Matches(l[i], a)
    PROVE  E!Verdict(l, a) = n
<1> DEFINE hits == {i \in DOMAIN l : E!Matches(l[i], a)}
<1>1. n \in hits /\ hits \subseteq Nat /\ \A j \in hits : n <= j
  BY ListsAreSeqs
<1>2. \A i \in hits : (\A j \in hits : i <= j) => i = n
  BY <1>1
<1>3. (CHOOSE i \in hits : \A j \in hits : i <= j) = n
  BY <1>1, <1>2
<1>4. QED
  BY <1>1, <1>3 DEF E!Verdict

\* Without a match the answer is a denial.
LEMMA VerdictNone ==
    ASSUME NEW l, NEW a, \A i \in DOMAIN l : ~E!Matches(l[i], a)
    PROVE  E!Verdict(l, a) = 0
BY DEF E!Verdict

\* Initially nobody has asked.
LEMMA InitPolicyInv == E!Init => PolicyInv
<1> SUFFICES ASSUME E!Init PROVE PolicyInv
  OBVIOUS
<1>1. <<>> \in E!Lists /\ Len(<<>>) = 0
  BY EmptyIsList
<1>2. E!TypeOK
  BY <1>1 DEF E!Init, E!TypeOK
<1>3. \A c \in Caller : Walk(c)
  BY DEF E!Init, Walk
<1>4. QED
  BY <1>2, <1>3 DEF PolicyInv

\* Edits and fetches: the list is published under the callers, who do not look at it.
LEMMA OtherStep ==
    ASSUME PolicyInv,
           (\E l \in E!Lists : E!Edit(l)) \/ E!EditsOver \/ E!Refresh \/ UNCHANGED eVars
    PROVE  PolicyInv'
<1>1. UNCHANGED E!evals
  BY DEF E!Edit, E!EditsOver, E!Refresh, E!FetchList, E!FetchRejected, E!FetchError,
         E!SleepEnds, eVars, E!evals
<1>2. E!TypeOK'
  BY DEF PolicyInv, E!TypeOK, E!Edit, E!EditsOver, E!Refresh, E!FetchList,
         E!FetchRejected, E!FetchError, E!SleepEnds, eVars, E!evals, E!engine
<1>3. \A c \in Caller : Walk(c)'
  BY <1>1 DEF PolicyInv, Walk, Passed, E!evals
<1>4. QED
  BY <1>2, <1>3 DEF PolicyInv

\* A caller's step leaves the other callers alone.
LEMMA OthersKeep ==
    ASSUME PolicyInv, NEW c \in Caller, E!Load(c) \/ E!LookAtNext(c) \/ E!NoMatch(c) \/ E!Return(c),
           NEW d \in Caller, d # c
    PROVE  Walk(d)'
<1>1. /\ eAt'[d] = eAt[d] /\ eAsk'[d] = eAsk[d] /\ eSnap'[d] = eSnap[d]
      /\ eNext'[d] = eNext[d] /\ eVerdict'[d] = eVerdict[d]
  BY DEF PolicyInv, E!TypeOK, E!Load, E!LookAtNext, E!NoMatch, E!Return
<1>2. Walk(d)
  BY DEF PolicyInv
<1>3. QED
  BY <1>1, <1>2 DEF Walk, Passed

\* load(): the walk starts at the first policy of what is published now.
LEMMA LoadStep == ASSUME PolicyInv, NEW c \in Caller, E!Load(c) PROVE PolicyInv'
<1>1. ePolicies \in E!Lists /\ Len(ePolicies) \in Nat /\ eNext[c] = 1 /\ eVerdict[c] = 0
  BY ListsAreSeqs DEF PolicyInv, E!TypeOK, Walk, E!Load
<1>2. eSnap' = [eSnap EXCEPT ![c] = ePolicies] /\ eSnap'[c] = ePolicies
      /\ \A d \in Caller \ {c} : eSnap'[d] = eSnap[d]
  BY DEF PolicyInv, E!TypeOK, E!Load
<1>3. \A d \in Caller : eNext[d] \in 1 .. Len(eSnap'[d]) + 1 /\ eVerdict[d] <= Len(eSnap'[d])
  BY <1>1, <1>2 DEF PolicyInv, E!TypeOK
<1>4. E!TypeOK'
  BY <1>1, <1>2, <1>3 DEF PolicyInv, E!TypeOK, E!Load, E!engine
<1>5. Walk(c)'
  <2>1. eNext'[c] = 1 /\ eVerdict'[c] = 0 /\ eAsk' = eAsk
    BY <1>1 DEF E!Load
  <2>2. CASE ePolicies = <<>>
    BY <2>1, <2>2, <1>2 DEF PolicyInv, E!TypeOK, E!Load, Walk
  <2>3. CASE ePolicies # <<>>
    BY <2>1, <2>3 DEF PolicyInv, E!TypeOK, E!Load, Walk
  <2>4. QED
    BY <2>2, <2>3
<1>6. QED
  BY <1>4, <1>5, OthersKeep DEF PolicyInv

\* The loop body: the policy at next matches, or one more has been passed.
LEMMA LookStep == ASSUME PolicyInv, NEW c \in Caller, E!LookAtNext(c) PROVE PolicyInv'
<1>1. /\ eSnap[c] \in E!Lists /\ Len(eSnap[c]) \in Nat /\ DOMAIN eSnap[c] = 1 .. Len(eSnap[c])
      /\ eNext[c] \in 1 .. Len(eSnap[c]) /\ eVerdict[c] = 0
      /\ \A i \in 1 .. eNext[c] - 1 : Passed(c, i)
  BY ListsAreSeqs DEF PolicyInv, E!TypeOK, Walk, E!LookAtNext, E!Walked
<1>2. ASSUME eNext' \in [Caller -> Nat], eVerdict' \in [Caller -> Nat],
             eAt' \in [Caller -> {"idle", "loop", "decided"}],
             eNext'[c] \in 1 .. Len(eSnap[c]) + 1, eVerdict'[c] <= Len(eSnap[c])
      PROVE  E!TypeOK'
  <2>1. \A d \in Caller \ {c} : eNext'[d] = eNext[d] /\ eVerdict'[d] = eVerdict[d]
    BY DEF PolicyInv, E!TypeOK, E!LookAtNext
  <2>2. QED
    BY <2>1, <1>2 DEF PolicyInv, E!TypeOK, E!LookAtNext, E!engine
<1>3. CASE E!Matches(eSnap[c][eNext[c]], eAsk[c])
  <2>1. eAt'[c] = "decided" /\ eVerdict'[c] = eNext[c] /\ eSnap' = eSnap /\ eAsk' = eAsk
    BY <1>3 DEF PolicyInv, E!TypeOK, E!LookAtNext, E!Walked
  <2>2. Walk(c)'
    BY <2>1, <1>1, <1>3 DEF Walk, Passed
  <2>3. E!TypeOK'
    BY <2>1, <1>1, <1>2, <1>3 DEF PolicyInv, E!TypeOK, E!LookAtNext, E!Walked
  <2>4. QED
    BY <2>2, <2>3, OthersKeep DEF PolicyInv
<1>4. CASE ~E!Matches(eSnap[c][eNext[c]], eAsk[c])
  <2>1. /\ eAt'[c] = "loop" /\ eVerdict'[c] = 0 /\ eNext'[c] = eNext[c] + 1
        /\ eSnap' = eSnap /\ eAsk' = eAsk
    BY <1>1, <1>4 DEF PolicyInv, E!TypeOK, E!LookAtNext, E!Walked
  <2>2. Walk(c)'
    BY <2>1, <1>1, <1>4 DEF Walk, Passed
  <2>a. eNext' = [eNext EXCEPT ![c] = eNext[c] + 1] /\ UNCHANGED <<eVerdict, eAt>>
    BY <1>4 DEF E!LookAtNext, E!Walked
  <2>b. /\ eNext' \in [Caller -> Nat] /\ eVerdict' \in [Caller -> Nat]
        /\ eAt' \in [Caller -> {"idle", "loop", "decided"}]
    BY <2>a DEF PolicyInv, E!TypeOK
  <2>3. E!TypeOK'
    BY <2>1, <2>b, <1>1, <1>2
  <2>4. QED
    BY <2>2, <2>3, OthersKeep DEF PolicyInv
<1>5. QED
  BY <1>3, <1>4

\* The end of the loop: every policy has been passed.
LEMMA NoMatchStep == ASSUME PolicyInv, NEW c \in Caller, E!NoMatch(c) PROVE PolicyInv'
<1>1. /\ Len(eSnap[c]) \in Nat /\ DOMAIN eSnap[c] = 1 .. Len(eSnap[c])
      /\ eNext[c] \in Nat /\ eNext[c] > Len(eSnap[c]) /\ eVerdict[c] = 0
      /\ \A i \in 1 .. eNext[c] - 1 : Passed(c, i)
  BY ListsAreSeqs DEF PolicyInv, E!TypeOK, Walk, E!NoMatch, E!Walked
<1>2. E!TypeOK'
  BY DEF PolicyInv, E!TypeOK, E!NoMatch, E!engine
<1>3. \A i \in DOMAIN eSnap[c] : Passed(c, i)
  BY <1>1
<1>4. Walk(c)'
  BY <1>1, <1>3 DEF PolicyInv, E!TypeOK, E!NoMatch, Walk, Passed
<1>5. QED
  BY <1>2, <1>4, OthersKeep DEF PolicyInv

\* The answer is used and forgotten.
LEMMA ReturnStep == ASSUME PolicyInv, NEW c \in Caller, E!Return(c) PROVE PolicyInv'
<1>1. <<>> \in E!Lists /\ Len(<<>>) = 0
  BY EmptyIsList
<1>2. E!TypeOK'
  BY <1>1 DEF PolicyInv, E!TypeOK, E!Return, E!engine
<1>3. Walk(c)'
  BY DEF PolicyInv, E!TypeOK, E!Return, Walk
<1>4. QED
  BY <1>2, <1>3, OthersKeep DEF PolicyInv

\* The inductive invariant holds in every reachable state.
THEOREM PolicyInvariant == E!Spec => []PolicyInv
<1>1. PolicyInv /\ [E!Next]_eVars => PolicyInv'
  <2> SUFFICES ASSUME PolicyInv, [E!Next]_eVars PROVE PolicyInv'
    OBVIOUS
  <2>1. CASE \E c \in Caller : E!Load(c) \/ E!LookAtNext(c) \/ E!NoMatch(c) \/ E!Return(c)
    BY <2>1, LoadStep, LookStep, NoMatchStep, ReturnStep
  <2>2. CASE (\E l \in E!Lists : E!Edit(l)) \/ E!EditsOver \/ E!Refresh \/ UNCHANGED eVars
    BY <2>2, OtherStep
  <2>3. QED
    BY <2>1, <2>2 DEF E!Next
<1>2. QED
  BY InitPolicyInv, <1>1, PTL DEF E!Spec, E!vars, eVars

\* Every variable keeps its type; evaluate never indexes past the list it loaded.
THEOREM PolicyTyped == E!Spec => []E!TypeOK
<1>1. PolicyInv => E!TypeOK
  BY DEF PolicyInv
<1>2. QED
  BY <1>1, PolicyInvariant, PTL

\* Under any interleaving of refreshes with evaluate, its answer is the first match of
\* the list it loaded.
THEOREM DecidesOnOneList == E!Spec => []DecisionOfOneList
<1>1. PolicyInv => DecisionOfOneList
  <2> SUFFICES ASSUME PolicyInv, NEW c \in Caller, eAt[c] = "decided"
               PROVE  eVerdict[c] = E!Verdict(eSnap[c], eAsk[c])
    BY DEF DecisionOfOneList, E!DecisionOfOneList
  <2>1. Walk(c) /\ eSnap[c] \in E!Lists
    BY DEF PolicyInv, E!TypeOK
  <2>2. CASE eVerdict[c] = 0 /\ \A i \in DOMAIN eSnap[c] : Passed(c, i)
    BY <2>2, VerdictNone DEF Passed
  <2>3. CASE /\ eVerdict[c] \in DOMAIN eSnap[c]
             /\ ~Passed(c, eVerdict[c])
             /\ \A i \in 1 .. eVerdict[c] - 1 : Passed(c, i)
    BY <2>1, <2>3, VerdictFirst DEF Passed
  <2>4. QED
    BY <2>1, <2>2, <2>3 DEF Walk
<1>2. QED
  BY <1>1, PolicyInvariant, PTL

\* For all policies and questions, empty sets included: the gateway's walk refuses nothing
\* that Policy.Evaluate of the control plane grants, and grants more only by a policy with
\* empty providers or models.
THEOREM EnginesDifferOnEmptyOnly == E!Spec => []EnginesDifferOnlyOnEmpty
<1>1. PolicyInv => EnginesDifferOnlyOnEmpty
  <2> SUFFICES ASSUME PolicyInv, NEW c \in Caller, eAt[c] = "decided"
               PROVE  /\ (\E i \in DOMAIN eSnap[c] : E!Evaluate(eSnap[c][i], eAsk[c]))
                            => eVerdict[c] # 0
                      /\ eVerdict[c] # 0 =>
                            \/ E!Evaluate(eSnap[c][eVerdict[c]], eAsk[c])
                            \/ eSnap[c][eVerdict[c]].providers = {}
                            \/ eSnap[c][eVerdict[c]].models = {}
    BY DEF EnginesDifferOnlyOnEmpty, E!EnginesDifferOnlyOnEmpty
  <2>1. Walk(c) /\ 0 \notin DOMAIN eSnap[c]
    BY ListsAreSeqs DEF PolicyInv, E!TypeOK
  <2>2. \A i \in DOMAIN eSnap[c] : E!Evaluate(eSnap[c][i], eAsk[c]) => ~Passed(c, i)
    BY DEF Passed, E!Matches, E!MatchesSubject, E!Evaluate
  <2>3. \A i \in DOMAIN eSnap[c] : ~Passed(c, i) =>
           \/ E!Evaluate(eSnap[c][i], eAsk[c])
           \/ eSnap[c][i].providers = {} \/ eSnap[c][i].models = {}
    BY DEF Passed, E!Matches, E!MatchesSubject, E!Evaluate
  <2>4. QED
    BY <2>1, <2>2, <2>3 DEF Walk
<1>2. QED
  BY <1>1, PolicyInvariant, PTL

-----------------------------------------------------------------------------
(* SsrfGuards.                                                               *)

\* The list of approved domains starts with some and only grows, so gateway never comes
\* to the empty list, which would approve every host.  Then, whatever strings are approved
\* (localhost and addresses among them) and however often the check is switched off and
\* on, it refuses what rust-gateway refuses, private and link-local v4 addresses, and any
\* host, name or address, that nobody approved.
THEOREM StricterAlways == U!Spec => []StricterThanRust
<1> DEFINE SomeApproved == uApproved # {}
<1>1. U!Init => SomeApproved
  BY RequestPathsAssumption DEF U!Init
<1>2. SomeApproved /\ [U!Next]_uVars => SomeApproved'
  BY DEF U!Next, U!ApproveDomain, U!SetEnabled, uVars
<1>3. SomeApproved => StricterThanRust
  <2> SUFFICES ASSUME uApproved # {}, uEnabled, NEW u \in U!Inputs, U!ValidateUpstream(u)
               PROVE  /\ U!ValidateUrl(u) /\ ~U!PrivateRange(u)
                      /\ u.kind # "no_host" => U!ApprovedHost(u)
    BY DEF StricterThanRust, U!StricterThanRust
  <2> QED
    BY DEF U!ValidateUpstream, U!ValidateUrl
<1> HIDE DEF SomeApproved
<1> QED
  BY <1>1, <1>2, <1>3, PTL DEF U!Spec, U!vars, uVars
=============================================================================
