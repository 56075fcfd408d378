------------------------ MODULE WorkerLoops_proofs ------------------------
(***************************************************************************)
(* Proofs about the two small machines that keep the background loops in   *)
(* bounds: the circuit breaker in front of the merchants, for any          *)
(* threshold, cooldown and number of overlapping calls, and the read of a  *)
(* settlement run, for any batch size and any number of bets.  They share  *)
(* no state.                                                               *)
(***************************************************************************)
EXTENDS CircuitBreaker, SettlementQueue, FiniteSetTheorems, TLAPS

(* The circuit breaker                                                     *)

IInv == TypeOK /\ ClosedBelowThreshold /\ HalfOpenHasTrial

\* The new circuit is closed with no failures counted.
LEMMA InitIInv == Init => IInv
  BY ThresholdAssumption, CooldownAssumption, MaxFailuresAssumption
  DEF Init, IInv, TypeOK, ClosedBelowThreshold, HalfOpenHasTrial

\* A call that ends in half-open finds the counter at the threshold already,
\* so its failure re-opens the circuit and its success closes it.
LEMMA NextIInv == IInv /\ [Next]_vars => IInv'
<1> SUFFICES ASSUME IInv, [Next]_vars PROVE IInv'
    OBVIOUS
<1> USE ThresholdAssumption, CooldownAssumption, MaxFailuresAssumption
    DEF IInv, TypeOK, ClosedBelowThreshold, HalfOpenHasTrial
<1>1. CASE Tick
    BY <1>1 DEF Tick
<1>2. ASSUME NEW c \in Calls, Execute(c) PROVE IInv'
    BY <1>2 DEF Execute
<1>3. ASSUME NEW c \in Calls, OnSuccess(c) PROVE IInv'
    BY <1>3 DEF OnSuccess
<1>4. ASSUME NEW c \in Calls, OnFailure(c) PROVE IInv'
  <2>1. failures' \in 0..MaxFailures /\ failures' >= failures
      BY <1>4 DEF OnFailure
  <2>2. CASE state = "half-open" \/ failures' >= Threshold
      BY <1>4, <2>1, <2>2 DEF OnFailure
  <2>3. CASE ~(state = "half-open" \/ failures' >= Threshold)
      BY <1>4, <2>1, <2>3 DEF OnFailure
  <2> QED BY <2>2, <2>3
<1>5. CASE UNCHANGED vars
    BY <1>5 DEF vars
<1> QED BY <1>1, <1>2, <1>3, <1>4, <1>5 DEF Next

\* The circuit and its counter agree, and half-open has a running call.
THEOREM Invariance == Spec => []IInv
  BY InitIInv, NextIInv, PTL DEF Spec

\* Every variable keeps its type: the counter stays in its bounds and only known
\* calls are in flight.
THEOREM BreakerTypeCorrect == Spec => []TypeOK
<1>1. IInv => TypeOK
    BY DEF IInv
<1> QED BY <1>1, Invariance, PTL

\* The circuit is closed exactly while fewer than Threshold failures have come
\* since the last success, whatever the order in which calls end.
THEOREM ClosedMeansBelowThreshold == Spec => []ClosedBelowThreshold
<1>1. IInv => ClosedBelowThreshold
    BY DEF IInv
<1> QED BY <1>1, Invariance, PTL

\* Half-open always has a call in flight that will move it on.
THEOREM TrialInFlight == Spec => []HalfOpenHasTrial
<1>1. IInv => HalfOpenHasTrial
    BY DEF IInv
<1> QED BY <1>1, Invariance, PTL

-----------------------------------------------------------------------------
(* The settlement queue                                                    *)

\* Bets are numbered, and there are finitely many of them.
LEMMA BetsFinite ==
  ASSUME NEW S \in SUBSET Bets
  PROVE  S \subseteq Int /\ IsFiniteSet(S)
<1>1. Bets \subseteq Int /\ IsFiniteSet(Bets)
    BY MaxBetsAssumption, FS_Interval DEF Bets
<1> QED BY <1>1, FS_Subset

Older(S, b) == {c \in S : c < b}
Rank(S, b) == Cardinality(Older(S, b))

\* Of two bets of a set the older one has fewer before it.
LEMMA RankGrows ==
  ASSUME NEW S \in SUBSET Bets, NEW a \in S, NEW b \in S, a < b
  PROVE  Rank(S, a) \in Nat /\ Rank(S, b) \in Nat /\ Rank(S, a) < Rank(S, b)
<1>1. S \subseteq Int
    BY BetsFinite
<1>2. Older(S, a) \in SUBSET Older(S, b) /\ Older(S, b) # Older(S, a)
    <2>1. \A c \in S : c < a => c < b
        BY <1>1
    <2>2. a \in Older(S, b) /\ a \notin Older(S, a)
        BY <1>1 DEF Older
    <2> QED BY <2>1, <2>2 DEF Older
<1>3. IsFiniteSet(Older(S, a)) /\ IsFiniteSet(Older(S, b))
    BY BetsFinite DEF Older
<1>4. Rank(S, a) \in Nat /\ Rank(S, b) \in Nat
    BY <1>3, FS_CardinalityType DEF Rank
<1>5. Rank(S, a) <= Rank(S, b) /\ Rank(S, b) # Rank(S, a)
    BY <1>2, <1>3, FS_Subset DEF Rank
<1> QED BY <1>4, <1>5

\* However many bets are waiting, a read with a limit returns no more than the limit:
\* different bets have different ranks, and only ranks below the limit are read.
LEMMA OldestBounded ==
  ASSUME NEW S \in SUBSET Bets, NEW n \in Nat
  PROVE  Cardinality(Oldest(S, n)) <= n
<1> DEFINE rank == [b \in Oldest(S, n) |-> Rank(S, b)]
<1>1. S \subseteq Int
    BY BetsFinite
<1>2. \A b \in S : Rank(S, b) \in Nat
    BY BetsFinite, FS_CardinalityType DEF Rank, Older
<1>3. \A b \in Oldest(S, n) : b \in S /\ Rank(S, b) \in 0..(n - 1)
    BY <1>2 DEF Oldest, Rank, Older
<1>4. \A a, b \in Oldest(S, n) : Rank(S, a) = Rank(S, b) => a = b
    <2> SUFFICES ASSUME NEW a \in Oldest(S, n), NEW b \in Oldest(S, n), a # b
                 PROVE  Rank(S, a) # Rank(S, b)
        OBVIOUS
    <2>1. a \in S /\ b \in S /\ a \in Int /\ b \in Int
        BY <1>1, <1>3
    <2>2. CASE a < b
        BY <2>1, <2>2, RankGrows
    <2>3. CASE b < a
        BY <2>1, <2>3, RankGrows
    <2> QED BY <2>1, <2>2, <2>3
<1>5. rank \in Injection(Oldest(S, n), 0..(n - 1))
    BY <1>3, <1>4 DEF Injection, IsInjective
<1>6. IsFiniteSet(0..(n - 1)) /\ Cardinality(0..(n - 1)) = n
    BY FS_Interval
<1> HIDE DEF rank
<1> QED BY <1>5, <1>6, FS_Injection

\* Every variable keeps its type, and a run never holds more bets than BATCH_SIZE
\* however long the backlog is; no bet without a result is ever decided.
THEOREM QueueTypeCorrect == QueueSpec => []QueueTypeOK
<1> USE BatchSizeAssumption DEF QueueTypeOK
<1>1. QueueInit => QueueTypeOK
    BY FS_EmptySet DEF QueueInit
<1>2. QueueTypeOK /\ [QueueNext]_queue => QueueTypeOK'
    <2> SUFFICES ASSUME QueueTypeOK, [QueueNext]_queue PROVE QueueTypeOK'
        OBVIOUS
    <2>1. ASSUME NEW b \in Bets,
                 \/ Place(b) \/ DebitAnswered(b) \/ LateAnswer(b) \/ ResultArrives(b)
                 \/ ResultWithdrawn(b) \/ SettledElsewhere(b) \/ StaffVoids(b)
          PROVE  QueueTypeOK'
        BY <2>1 DEF Place, DebitAnswered, LateAnswer, ResultArrives, ResultWithdrawn,
           SettledElsewhere, StaffVoids
    <2>2. CASE TakeBatch
        <3>1. Cardinality(taken') <= BatchSize /\ taken' \subseteq Bets
            BY <2>2, OldestBounded DEF TakeBatch, Accepted, Oldest
        <3>2. taken' \cup graded' = taken' /\ UNCHANGED <<status, rowed, decided, graded, hopeless>>
            BY <2>2 DEF TakeBatch
        <3> QED BY <3>1, <3>2
    <2>3. ASSUME taken' \cup graded' \subseteq taken \cup graded
          PROVE  Cardinality(taken' \cup graded') <= BatchSize
        <3>1. taken \cup graded \in SUBSET Bets /\ IsFiniteSet(taken \cup graded)
            BY BetsFinite
        <3>2. /\ IsFiniteSet(taken' \cup graded')
              /\ Cardinality(taken' \cup graded') <= Cardinality(taken \cup graded)
            BY <2>3, <3>1, FS_Subset
        <3>3. Cardinality(taken \cup graded) \in Nat /\ Cardinality(taken' \cup graded') \in Nat
            BY <3>1, <3>2, FS_CardinalityType
        <3> QED BY <3>2, <3>3
    <2>4. CASE GradeNext
        <3>1. taken' \cup graded' \subseteq taken \cup graded /\ taken' \subseteq taken
            BY <2>4 DEF GradeNext, Oldest
        <3> QED BY <2>3, <2>4, <3>1 DEF GradeNext
    <2>5. CASE PersistNext
        <3>1. UNCHANGED taken /\ graded' \subseteq graded
            BY <2>5 DEF PersistNext
        <3>2. status' \in [Bets -> {"NONE", "PENDING", "ACCEPTED", "REJECTED", "CLOSED"}]
              /\ rowed' \subseteq Bets /\ UNCHANGED <<decided, hopeless>>
            BY <2>5 DEF PersistNext, Oldest
        <3> QED BY <2>3, <3>1, <3>2
    <2>6. CASE RunFails
        BY <2>3, <2>6 DEF RunFails
    <2>7. CASE UNCHANGED queue
        BY <2>7 DEF queue
    <2> QED BY <2>1, <2>2, <2>4, <2>5, <2>6, <2>7 DEF QueueNext
<1> QED BY <1>1, <1>2, PTL DEF QueueSpec

\* A backlog that fits into one batch is read whole: no bet of it has to wait for
\* another one to be closed first.
THEOREM ShortBacklogReadWhole ==
  ASSUME TakeBatch, Cardinality(Accepted) <= BatchSize
  PROVE  taken' = Accepted
<1>1. Accepted \in SUBSET Bets /\ IsFiniteSet(Accepted)
    BY BetsFinite DEF Accepted
<1>2. ASSUME NEW b \in Accepted PROVE Rank(Accepted, b) < BatchSize
    <2>1. Older(Accepted, b) \in SUBSET Accepted /\ Accepted # Older(Accepted, b)
        BY <1>1, BetsFinite DEF Older
    <2>2. IsFiniteSet(Older(Accepted, b))
        BY <1>1, <2>1, FS_Subset
    <2>3. Rank(Accepted, b) <= Cardinality(Accepted) /\ Cardinality(Accepted) # Rank(Accepted, b)
        BY <1>1, <2>1, FS_Subset DEF Rank
    <2>4. Rank(Accepted, b) \in Nat /\ Cardinality(Accepted) \in Nat
        BY <1>1, <2>2, FS_CardinalityType DEF Rank
    <2> QED BY <2>3, <2>4, BatchSizeAssumption
<1> QED BY <1>2 DEF TakeBatch, Oldest, Rank, Older

\* A batch of older bets that cannot be graded keeps a younger one out of every run
\* while they stay ACCEPTED: the bound on such bets that the liveness run assumes is
\* needed.
THEOREM FullBatchBlocks ==
  ASSUME TakeBatch, NEW H \in SUBSET Accepted, BatchSize <= Cardinality(H),
         NEW b \in Accepted, \A h \in H : h < b
  PROVE  b \notin taken'
<1>1. Accepted \in SUBSET Bets
    BY DEF Accepted
<1>2. IsFiniteSet(Older(Accepted, b)) /\ H \in SUBSET Older(Accepted, b)
    BY <1>1, BetsFinite DEF Older
<1>3. Cardinality(H) <= Rank(Accepted, b)
    BY <1>2, FS_Subset DEF Rank
<1>4. IsFiniteSet(H)
    BY <1>2, FS_Subset
<1>5. Cardinality(H) \in Nat /\ Rank(Accepted, b) \in Nat
    BY <1>2, <1>4, FS_CardinalityType DEF Rank
<1>6. ~(Rank(Accepted, b) < BatchSize)
    BY <1>3, <1>5, BatchSizeAssumption
<1> QED BY <1>6 DEF TakeBatch, Oldest, Rank, Older

=============================================================================
