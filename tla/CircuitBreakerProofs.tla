------------------------ MODULE CircuitBreakerProofs ------------------------
(***************************************************************************)
(* What CircuitBreaker guarantees for any number of callers and any        *)
(* thresholds, from BreakerAssumption alone.                               *)
(***************************************************************************)
EXTENDS CircuitBreaker, FiniteSetTheorems, TLAPS

(* What the code's counters mean: in CLOSED the failure count is the       *)
(* number of consecutive failures and is below its threshold; in HALF_OPEN *)
(* the success count is below its threshold and every counted success came *)
(* after the last failure (it may be saturated in the history).            *)
CountsAreEvidence ==
    /\ state = "CLOSED" =>
          /\ failureCount = failStreak
          /\ failureCount = 0 \/ failureCount < FailureThreshold
    /\ state = "HALF_OPEN" =>
          /\ successCount = 0 \/ successCount < SuccessThreshold
          /\ successCount <= okStreak

(* The callers whose command is awaited.                                   *)
InFlight == {c \in Callers : call[c] # "idle"}

(* Each failure that reached an OPEN breaker took one of the other callers *)
(* out of flight, and nobody is sent out while it is OPEN.                 *)
LateLeft == state = "OPEN" => late + Cardinality(InFlight) < Cardinality(Callers)

(* The inductive invariant.                                                *)
IInv == TypeOK /\ CountsAreEvidence

LEMMA InitIInv == Init => IInv
  BY BreakerAssumption DEF Init, IInv, TypeOK, CountsAreEvidence, States, Kinds

(* Each step of the breaker keeps the types.                               *)
LEMMA NextTypeOK == TypeOK /\ [Next]_vars => TypeOK'
<1> SUFFICES ASSUME TypeOK, [Next]_vars PROVE TypeOK'
  OBVIOUS
<1> USE BreakerAssumption DEF TypeOK, States, Kinds, redisVars, historyVars
<1>1. ASSUME NEW c \in Callers, Admit(c) PROVE TypeOK'
  BY <1>1 DEF Admit
<1>2. ASSUME NEW c \in Callers, Succeed(c) PROVE TypeOK'
  BY <1>2 DEF Succeed, RecordSuccess, TransitionToClosed, Saturated, breakerVars
<1>3. ASSUME NEW c \in Callers, Fail(c) PROVE TypeOK'
  BY <1>3 DEF Fail, Raises, RecordFailure, Opens, Saturated
<1>9. ASSUME NEW c \in Callers, FallBack(c) PROVE TypeOK'
  BY <1>9 DEF FallBack, Raises, RecordFailure, Opens, Saturated
<1>4. ASSUME NEW c \in Callers, Cancel(c) PROVE TypeOK'
  BY <1>4 DEF Cancel, breakerVars
<1>5. CASE ManualReset
  BY <1>5 DEF ManualReset
<1>6. CASE Tick
  BY <1>6 DEF Tick
<1>7. CASE RedisChanges
  BY <1>7 DEF RedisChanges, breakerVars
<1>8. CASE UNCHANGED vars
  BY <1>8 DEF vars, breakerVars
<1> QED
  BY <1>1, <1>2, <1>3, <1>4, <1>5, <1>6, <1>7, <1>8, <1>9 DEF Next

(* Each step keeps the meaning of the counters; only the steps that record *)
(* a result, admit the first probe or reset the breaker can disturb it.    *)
LEMMA NextCounts == IInv /\ [Next]_vars => CountsAreEvidence'
<1> SUFFICES ASSUME IInv, [Next]_vars PROVE CountsAreEvidence'
  OBVIOUS
<1> USE BreakerAssumption DEF IInv, TypeOK, CountsAreEvidence, States, redisVars, historyVars
<1>1. ASSUME NEW c \in Callers, Admit(c) PROVE CountsAreEvidence'
  BY <1>1 DEF Admit
<1>2. ASSUME NEW c \in Callers, Succeed(c) PROVE CountsAreEvidence'
  BY <1>2 DEF Succeed, RecordSuccess, TransitionToClosed, Saturated, breakerVars
<1>3. ASSUME NEW c \in Callers, Fail(c) PROVE CountsAreEvidence'
  BY <1>3 DEF Fail, Raises, RecordFailure, Opens, Saturated
<1>9. ASSUME NEW c \in Callers, FallBack(c) PROVE CountsAreEvidence'
  BY <1>9 DEF FallBack, Raises, RecordFailure, Opens, Saturated
<1>4. ASSUME NEW c \in Callers, Cancel(c) PROVE CountsAreEvidence'
  BY <1>4 DEF Cancel, breakerVars
<1>5. CASE ManualReset
  BY <1>5 DEF ManualReset
<1>6. CASE Tick
  BY <1>6 DEF Tick
<1>7. CASE RedisChanges
  BY <1>7 DEF RedisChanges, breakerVars
<1>8. CASE UNCHANGED vars
  BY <1>8 DEF vars, breakerVars
<1> QED
  BY <1>1, <1>2, <1>3, <1>4, <1>5, <1>6, <1>7, <1>8, <1>9 DEF Next

LEMMA IInvInductive == Spec => []IInv
<1>1. IInv /\ [Next]_vars => IInv'
  BY NextTypeOK, NextCounts DEF IInv
<1> QED
  BY InitIInv, <1>1, PTL DEF Spec

(* The breaker's variables stay in their types.                            *)
THEOREM TypeCorrect == Spec => []TypeOK
<1>1. IInv => TypeOK
  BY DEF IInv
<1> QED
  BY IInvInductive, <1>1, PTL

(* No CLOSED breaker has seen FailureThreshold failures in a row.          *)
THEOREM TripsOnTimeAlways == Spec => []TripsOnTime
<1>1. IInv => TripsOnTime
  BY DEF IInv, CountsAreEvidence, TripsOnTime
<1> QED
  BY IInvInductive, <1>1, PTL

(* The breaker never trips without FailureThreshold failures in a row.     *)
THEOREM TripEarnedAlways == Spec => TripEarned
<1> DEFINE Earned ==
      state = "CLOSED" /\ state' # "CLOSED" => failStreak' >= FailureThreshold
<1>1. IInv /\ [Next]_vars => [Earned]_vars
  <2> SUFFICES ASSUME IInv, Next, state = "CLOSED", state' # "CLOSED"
               PROVE  failStreak' >= FailureThreshold
    BY DEF Earned
  <2>1. PICK c \in Callers : Fail(c) \/ FallBack(c)
    BY DEF Next, Admit, Succeed, RecordSuccess, TransitionToClosed, Cancel,
           ManualReset, Tick, RedisChanges, breakerVars
  <2>2. failureCount = failStreak /\ failStreak \in Nat /\ Opens
    BY <2>1 DEF Fail, FallBack, Opens, IInv, TypeOK, CountsAreEvidence
  <2>3. failStreak' = Saturated(failStreak + 1, MaxFailures)
    BY <2>1 DEF Fail, FallBack, RecordFailure
  <2> QED
    BY <2>2, <2>3, BreakerAssumption DEF Opens, Saturated
<1> QED
  BY IInvInductive, <1>1, PTL DEF Spec, TripEarned

(* The breaker never closes by itself without SuccessThreshold successes   *)
(* since the last failure.                                                 *)
THEOREM RecoveryEarnedAlways == Spec => RecoveryEarned
<1> DEFINE Earned == state = "HALF_OPEN" /\ state' = "CLOSED" =>
                        okStreak' >= SuccessThreshold \/ ManualReset
<1>1. IInv /\ [Next]_vars => [Earned]_vars
  <2> SUFFICES ASSUME IInv, Next, state = "HALF_OPEN", state' = "CLOSED", ~ManualReset
               PROVE  okStreak' >= SuccessThreshold
    BY DEF Earned
  <2>1. PICK c \in Callers : Succeed(c)
    BY DEF Next, Admit, Fail, FallBack, Opens, Cancel, Tick, RedisChanges, breakerVars
  <2> QED
    BY <2>1, BreakerAssumption
    DEF Succeed, RecordSuccess, TransitionToClosed, Saturated, IInv, TypeOK,
        CountsAreEvidence
<1> QED
  BY IInvInductive, <1>1, PTL DEF Spec, RecoveryEarned

(* Finitely many callers are in flight.                                    *)
LEMMA InFlightNumber ==
  /\ Cardinality(Callers) \in Nat
  /\ Cardinality(InFlight) \in Nat
  /\ IsFiniteSet(InFlight)
<1> InFlight \subseteq Callers
  BY DEF InFlight
<1> QED
  BY BreakerAssumption, FS_Subset, FS_CardinalityType

(* A caller who ends leaves one fewer in flight.                           *)
LEMMA OneFewer ==
  ASSUME TypeOK, NEW c \in Callers, call[c] # "idle",
         call' = [call EXCEPT ![c] = "idle"]
  PROVE  /\ Cardinality(InFlight') = Cardinality(InFlight) - 1
         /\ Cardinality(InFlight') \in Nat
<1>1. InFlight' = InFlight \ {c} /\ c \in InFlight
  BY DEF InFlight, TypeOK
<1>2. IsFiniteSet(InFlight') /\ Cardinality(InFlight \ {c}) = Cardinality(InFlight) - 1
  BY <1>1, InFlightNumber, FS_RemoveElement
<1> QED
  BY <1>1, <1>2, FS_CardinalityType

(* A failure that opens the breaker, or finds it OPEN, keeps LateLeft.     *)
LEMMA FailureKeepsLateLeft ==
  ASSUME TypeOK, TypeOK', LateLeft, NEW c \in Callers, call[c] # "idle",
         RecordFailure, call' = [call EXCEPT ![c] = "idle"]
  PROVE  LateLeft'
<1>1. Cardinality(InFlight') = Cardinality(InFlight) - 1 /\ Cardinality(InFlight') \in Nat
  BY OneFewer
<1>2. Cardinality(Callers) \in Nat /\ Cardinality(InFlight) \in Nat /\ late \in Nat
  BY InFlightNumber DEF TypeOK
<1>3. CASE state = "OPEN"
  <2>1. late' = late + 1 /\ late + Cardinality(InFlight) < Cardinality(Callers)
    BY <1>3 DEF RecordFailure, LateLeft
  <2> QED
    BY <2>1, <1>1, <1>2 DEF LateLeft
<1>4. CASE state # "OPEN"
  <2>1. late' = 0
    BY <1>4 DEF RecordFailure
  <2>2. call'[c] = "idle"
    BY DEF TypeOK
  <2>3. Cardinality(InFlight') < Cardinality(Callers)
    <3>1. InFlight' \subseteq Callers /\ InFlight' # Callers
      BY <2>2 DEF InFlight
    <3>2. /\ Cardinality(InFlight') <= Cardinality(Callers)
          /\ Cardinality(InFlight') # Cardinality(Callers)
      BY <3>1, BreakerAssumption, FS_Subset
    <3> QED
      BY <3>2, <1>1, <1>2
  <2> QED
    BY <2>1, <2>3, <1>1, <1>2 DEF LateLeft
<1> QED
  BY <1>3, <1>4

(* No step sends a caller out while the breaker is OPEN, or leaves a late  *)
(* failure without a caller that came back.                                *)
LEMMA NextLateLeft == TypeOK /\ TypeOK' /\ LateLeft /\ [Next]_vars => LateLeft'
<1> SUFFICES ASSUME TypeOK, TypeOK', LateLeft, [Next]_vars PROVE LateLeft'
  OBVIOUS
<1> USE DEF redisVars, historyVars
<1>1. ASSUME NEW c \in Callers, Admit(c) PROVE LateLeft'
  BY <1>1 DEF Admit, LateLeft
<1>2. ASSUME NEW c \in Callers, Succeed(c) \/ Cancel(c) PROVE LateLeft'
  <2>1. Cardinality(InFlight') = Cardinality(InFlight) - 1 /\ Cardinality(InFlight') \in Nat
    BY <1>2, OneFewer DEF Succeed, Cancel
  <2>2. late' = late /\ (state' = "OPEN" => state = "OPEN")
    BY <1>2 DEF Succeed, Cancel, RecordSuccess, TransitionToClosed, breakerVars
  <2>3. Cardinality(Callers) \in Nat /\ Cardinality(InFlight) \in Nat /\ late \in Nat
    BY InFlightNumber DEF TypeOK
  <2> QED
    BY <2>1, <2>2, <2>3 DEF LateLeft
<1>3. ASSUME NEW c \in Callers, Fail(c) PROVE LateLeft'
  BY <1>3, FailureKeepsLateLeft DEF Fail
<1>4. ASSUME NEW c \in Callers, FallBack(c) PROVE LateLeft'
  <2>1. CASE Opens /\ RecoveryTimeout > 0
    <3>1. call[c] # "idle" /\ RecordFailure /\ call' = [call EXCEPT ![c] = "idle"]
      BY <1>4, <2>1, BreakerAssumption DEF FallBack
    <3> QED
      BY <3>1, FailureKeepsLateLeft
  <2>2. CASE ~(Opens /\ RecoveryTimeout > 0)
    BY <1>4, <2>2, BreakerAssumption DEF FallBack, Opens, LateLeft
  <2> QED
    BY <2>1, <2>2
<1>5. CASE ManualReset
  BY <1>5 DEF ManualReset, LateLeft
<1>6. CASE Tick \/ RedisChanges \/ UNCHANGED vars
  BY <1>6 DEF Tick, RedisChanges, vars, breakerVars, LateLeft, InFlight
<1> QED
  BY <1>1, <1>2, <1>3, <1>4, <1>5, <1>6 DEF Next

(* However long the breaker stays OPEN, the failures of calls admitted     *)
(* before put the recovery off fewer times than there are callers.         *)
THEOREM LateFailuresBoundedAlways == Spec => []LateFailuresBounded
<1>1. Init => LateLeft
  BY DEF Init, LateLeft
<1>2. TypeOK /\ LateLeft => LateFailuresBounded
  <2> SUFFICES ASSUME TypeOK, LateLeft PROVE LateFailuresBounded
    OBVIOUS
  <2>1. Cardinality(Callers) \in Nat /\ Cardinality(InFlight) \in Nat /\ late \in Nat
    BY InFlightNumber DEF TypeOK
  <2> QED
    BY <2>1 DEF LateLeft, LateFailuresBounded
<1> QED
  BY TypeCorrect, NextLateLeft, <1>1, <1>2, PTL DEF Spec
=============================================================================
