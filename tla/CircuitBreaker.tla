--------------------------- MODULE CircuitBreaker ---------------------------
(***************************************************************************)
(* The circuit breaker every Redis command of policyd goes through         *)
(* (src/policyd_py/storage/circuit_breaker.py).                            *)
(*                                                                         *)
(* CircuitBreaker.call takes an asyncio.Lock only to decide whether the    *)
(* call is admitted; the Redis command itself is awaited outside the lock, *)
(* and its result is recorded in a second critical section.  Neither       *)
(* critical section awaits anything, so each is one atomic step: Admit,    *)
(* and Succeed, Fail or FallBack.  Between the two any number of steps of other      *)
(* callers, of the clock and of the breaker itself may happen, so a result *)
(* may arrive long after the breaker left the state that admitted the call.*)
(*                                                                         *)
(* A failure is any exception (circuit_breaker.py:75), not only that of a  *)
(* Redis that is down: a Redis that was restarted has lost the limiter's   *)
(* Lua scripts and answers EVALSHA with NOSCRIPT, and single commands may  *)
(* be answered with an error.  The limiter follows every EVALSHA that      *)
(* raised with an EVAL (limiter.py:215-251); nobody waits for the Lock in  *)
(* between, so the failure is recorded and the EVAL admitted or rejected   *)
(* in one step.                                                            *)
(*                                                                         *)
(* The only question the code asks of the clock is whether recovery_timeout*)
(* seconds have passed since the last recorded failure.  The clock is      *)
(* therefore the age of that failure, saturated at RecoveryTimeout.        *)
(***************************************************************************)
EXTENDS Integers, FiniteSets

CONSTANTS
    Callers,            \* the tasks that use the RedisClient concurrently
    FailureThreshold,   \* circuit_breaker_failure_threshold
    SuccessThreshold,   \* circuit_breaker_success_threshold
    RecoveryTimeout,    \* circuit_breaker_recovery_timeout, in seconds
    MaxFailures,        \* counts of failures are not told apart beyond this
    MaxErrors           \* bound: error replies other than NOSCRIPT

ASSUME BreakerAssumption ==
    /\ IsFiniteSet(Callers)
    /\ FailureThreshold \in Nat
    /\ SuccessThreshold \in Nat
    /\ RecoveryTimeout \in Nat
    /\ MaxFailures \in Nat
    /\ FailureThreshold <= MaxFailures
    /\ MaxErrors \in Nat

VARIABLES
    state,          \* _state
    failureCount,   \* _failure_count, saturated
    successCount,   \* _success_count
    failureAge,     \* time.time() - _last_failure_time, saturated
    call,           \* per caller: the command that is awaited, or idle
    redisUp,        \* whether Redis answers (environment)
    scripts,        \* whether Redis has the script of the limits (environment)
    errors,         \* error replies so far (environment)
    failStreak,     \* history: failures recorded since the last success
    okStreak,       \* history: successes recorded since the last failure
    late            \* history: failures recorded while OPEN, since it opened

breakerVars == <<state, failureCount, successCount, failureAge>>
redisVars == <<redisUp, scripts, errors>>
historyVars == <<failStreak, okStreak, late>>
vars == <<breakerVars, call, redisVars, historyVars>>

States == {"CLOSED", "OPEN", "HALF_OPEN"}

(* EVAL stands for SCRIPT LOAD too, command for whatever needs no script.  *)
Kinds == {"command", "evalsha", "eval"}

Saturated(n, limit) == IF n < limit THEN n ELSE limit

-----------------------------------------------------------------------------

Init ==
    /\ state = "CLOSED"
    /\ failureCount = 0
    /\ successCount = 0
    /\ failureAge = RecoveryTimeout     \* _last_failure_time is the epoch
    /\ call = [c \in Callers |-> "idle"]
    /\ redisUp = TRUE
    /\ scripts = TRUE
    /\ errors = 0
    /\ failStreak = 0
    /\ okStreak = 0
    /\ late = 0

ShouldAttemptReset == failureAge >= RecoveryTimeout

(* Slips in the admission: the breaker forgets to become HALF_OPEN, keeps  *)
(* the successes of an earlier probe, or lets a caller pass while OPEN.    *)
AdmitStayingOpen(c) ==
    /\ call[c] = "idle"
    /\ state = "OPEN" => ShouldAttemptReset
    /\ \E kind \in Kinds : call' = [call EXCEPT ![c] = kind]
    /\ UNCHANGED <<breakerVars, redisVars, historyVars>>

AdmitKeepingSuccesses(c) ==
    /\ call[c] = "idle"
    /\ state = "OPEN" => ShouldAttemptReset
    /\ state' = IF state = "OPEN" THEN "HALF_OPEN" ELSE state
    /\ \E kind \in Kinds : call' = [call EXCEPT ![c] = kind]
    /\ UNCHANGED <<failureCount, successCount, failureAge, redisVars, historyVars>>

(* The admission check of call(): an OPEN breaker rejects the call (no     *)
(* state changes) until the recovery timeout has elapsed, and then becomes *)
(* HALF_OPEN on the spot.  Nothing limits how many calls HALF_OPEN admits. *)
Admit(c) ==
    /\ call[c] = "idle"
    /\ state = "OPEN" => ShouldAttemptReset
    /\ IF state = "OPEN"
         THEN /\ state' = "HALF_OPEN"
              /\ successCount' = 0
         ELSE UNCHANGED <<state, successCount>>
    /\ \E kind \in Kinds : call' = [call EXCEPT ![c] = kind]
    /\ UNCHANGED <<failureCount, failureAge, redisVars, historyVars>>

TransitionToClosed ==
    /\ state' = "CLOSED"
    /\ failureCount' = 0
    /\ successCount' = 0

(* Slips in recording a success: one in CLOSED leaves the failures         *)
(* counted, or one that comes back in OPEN is counted as well.             *)
RecordSuccessOnlyProbing ==
    \/ /\ state = "HALF_OPEN"
       /\ IF successCount + 1 >= SuccessThreshold
            THEN TransitionToClosed
            ELSE /\ successCount' = successCount + 1
                 /\ UNCHANGED <<state, failureCount>>
       /\ UNCHANGED failureAge
    \/ /\ state # "HALF_OPEN"
       /\ UNCHANGED breakerVars

RecordSuccessAlsoOpen ==
    /\ IF state = "HALF_OPEN" /\ successCount + 1 >= SuccessThreshold
         THEN TransitionToClosed
         ELSE /\ failureCount' = IF state = "CLOSED" THEN 0 ELSE failureCount
              /\ successCount' = IF state = "CLOSED" THEN successCount
                                                     ELSE successCount + 1
              /\ UNCHANGED state
    /\ UNCHANGED failureAge

RecordSuccess ==
    \/ /\ state = "HALF_OPEN"
       /\ IF successCount + 1 >= SuccessThreshold
            THEN TransitionToClosed
            ELSE /\ successCount' = successCount + 1
                 /\ UNCHANGED <<state, failureCount>>
       /\ UNCHANGED failureAge
    \/ /\ state = "CLOSED"
       /\ failureCount' = 0
       /\ UNCHANGED <<state, successCount, failureAge>>
    \/ /\ state = "OPEN"
       /\ UNCHANGED breakerVars

(* A threshold off by one.                                                 *)
OpensLate == state # "CLOSED" \/ failureCount + 1 > FailureThreshold

(* Whether the breaker is OPEN once one more failure is recorded.          *)
Opens == state # "CLOSED" \/ failureCount + 1 >= FailureThreshold

(* A failure restarts the recovery timer whatever the state, also when the *)
(* breaker is already OPEN and the failing call was admitted before that.  *)
RecordFailure ==
    /\ failureCount' = Saturated(failureCount + 1, MaxFailures)
    /\ failureAge' = 0
    /\ failStreak' = Saturated(failStreak + 1, MaxFailures)
    /\ okStreak' = 0
    /\ late' = IF state = "OPEN" THEN late + 1 ELSE 0

Succeed(c) ==
    /\ call[c] # "idle"
    /\ redisUp
    /\ call[c] = "evalsha" => scripts
    /\ RecordSuccess
    /\ call' = [call EXCEPT ![c] = "idle"]
    /\ scripts' = (scripts \/ call[c] = "eval")
    /\ failStreak' = 0
    /\ okStreak' = Saturated(okStreak + 1, SuccessThreshold)
    /\ UNCHANGED <<redisUp, errors, late>>

(* The exceptions a command ends with: no connection or a timeout, NOSCRIPT*)
(* from a Redis that is up, or another error reply (a key of another type, *)
(* a pool with no free connection).                                        *)
Raises(c) ==
    /\ \/ /\ ~redisUp \/ (call[c] = "evalsha" /\ ~scripts)
          /\ UNCHANGED errors
       \/ /\ redisUp /\ errors < MaxErrors
          /\ errors' = errors + 1
    /\ UNCHANGED <<redisUp, scripts>>

Fail(c) ==
    /\ call[c] \in {"command", "eval"}
    /\ Raises(c)
    /\ RecordFailure
    /\ state' = IF Opens THEN "OPEN" ELSE state
    /\ call' = [call EXCEPT ![c] = "idle"]
    /\ UNCHANGED successCount

(* An EVAL that goes to Redis whatever the breaker says.                   *)
FallBackUnchecked(c) ==
    /\ call[c] = "evalsha"
    /\ Raises(c)
    /\ RecordFailure
    /\ state' = IF Opens THEN "OPEN" ELSE state
    /\ call' = [call EXCEPT ![c] = "eval"]
    /\ UNCHANGED successCount

(* An EVALSHA that raised, and the admission of the EVAL that follows: if  *)
(* the failure opened the breaker, or it was open, the EVAL is rejected,   *)
(* unless the recovery timeout is zero.                                    *)
FallBack(c) ==
    /\ call[c] = "evalsha"
    /\ Raises(c)
    /\ RecordFailure
    /\ \/ /\ Opens /\ RecoveryTimeout > 0
          /\ state' = "OPEN"
          /\ call' = [call EXCEPT ![c] = "idle"]
          /\ UNCHANGED successCount
       \/ /\ Opens /\ RecoveryTimeout = 0
          /\ state' = "HALF_OPEN"
          /\ successCount' = 0
          /\ call' = [call EXCEPT ![c] = "eval"]
       \/ /\ ~Opens
          /\ call' = [call EXCEPT ![c] = "eval"]
          /\ UNCHANGED <<state, successCount>>

(* A cancelled task: CancelledError is not an Exception, so neither        *)
(* _record_failure nor _record_success runs.                               *)
Cancel(c) ==
    /\ call[c] # "idle"
    /\ call' = [call EXCEPT ![c] = "idle"]
    /\ UNCHANGED <<breakerVars, redisVars, historyVars>>

ManualReset ==
    /\ state' = "CLOSED"
    /\ failureCount' = 0
    /\ successCount' = 0
    /\ failureAge' = RecoveryTimeout    \* _last_failure_time = 0.0
    /\ failStreak' = 0
    /\ okStreak' = 0
    /\ UNCHANGED <<call, redisVars, late>>

Tick ==
    /\ failureAge < RecoveryTimeout
    /\ failureAge' = failureAge + 1
    /\ UNCHANGED <<state, failureCount, successCount, call, redisVars, historyVars>>

(* Redis stops answering, or answers again, perhaps without its scripts.   *)
RedisChanges ==
    /\ redisUp' = ~redisUp
    /\ IF redisUp THEN UNCHANGED scripts ELSE scripts' \in {scripts, FALSE}
    /\ UNCHANGED <<breakerVars, call, errors, historyVars>>

Next ==
    \/ \E c \in Callers :
          Admit(c) \/ Succeed(c) \/ Fail(c) \/ FallBack(c) \/ Cancel(c)
    \/ ManualReset
    \/ Tick
    \/ RedisChanges

Spec == Init /\ [][Next]_vars

(* The background workers of the handler poll BRPOP for ever, so an idle   *)
(* caller keeps calling; a command Redis can answer ends, and not every    *)
(* one of a caller's commands is cancelled first; time passes.             *)
Fairness ==
    /\ WF_vars(Tick)
    /\ \A c \in Callers : WF_vars(Admit(c)) /\ SF_vars(Succeed(c))

FairSpec == Spec /\ Fairness

-----------------------------------------------------------------------------

(* Every variable stays in its type; successes are counted no further than *)
(* their threshold.                                                        *)
TypeOK ==
    /\ state \in States
    /\ failureCount \in 0 .. MaxFailures
    /\ successCount \in 0 .. SuccessThreshold
    /\ failureAge \in 0 .. RecoveryTimeout
    /\ call \in [Callers -> Kinds \cup {"idle"}]
    /\ redisUp \in BOOLEAN
    /\ scripts \in BOOLEAN
    /\ errors \in 0 .. MaxErrors
    /\ failStreak \in 0 .. MaxFailures
    /\ okStreak \in 0 .. SuccessThreshold
    /\ late \in Nat

(* The breaker is never CLOSED after FailureThreshold failures in a row:   *)
(* a failure counted while OPEN or HALF_OPEN is not left in the count of a *)
(* later CLOSED period, and no failure of a CLOSED period is missed.       *)
TripsOnTime == state = "CLOSED" => failStreak = 0 \/ failStreak < FailureThreshold

(* The breaker trips only on evidence: a step that leaves CLOSED is the    *)
(* FailureThreshold-th failure in a row, with no success between them.     *)
TripEarned ==
    [][state = "CLOSED" /\ state' # "CLOSED" => failStreak' >= FailureThreshold]_vars

(* The breaker recovers only on evidence: a step from HALF_OPEN to CLOSED  *)
(* that no operator asked for follows SuccessThreshold successes with no   *)
(* failure since, although results of older calls are counted too.         *)
RecoveryEarned ==
    [][state = "HALF_OPEN" /\ state' = "CLOSED" =>
          okStreak' >= SuccessThreshold \/ ManualReset]_vars

(* Every caller may probe at once, and each failure of theirs that comes   *)
(* back after the first has opened the breaker again restarts the recovery *)
(* timer.  But that happens less often than there are callers, however     *)
(* long it stays OPEN: no failed EVALSHA sends its EVAL past an OPEN       *)
(* breaker, to fail there and put the recovery off again.                  *)
LateFailuresBounded == state = "OPEN" => late < Cardinality(Callers)

(* Once Redis stays up and has its scripts, the breaker closes and stays   *)
(* closed: no combination of late failures, error replies, cancelled calls *)
(* and recovery timers keeps it OPEN or HALF_OPEN for ever.  Without the   *)
(* scripts it need not: each EVALSHA that is admitted as a probe raises    *)
(* NOSCRIPT (circuit_breaker.py:75), which opens the breaker again, and    *)
(* the EVAL that would load the script is rejected (limiter.py:222).       *)
Recovers == <>[](redisUp /\ scripts) => <>[](state = "CLOSED")
=============================================================================
