------------------------ MODULE LockLifecycleProofs ------------------------
(***************************************************************************)
(* The lock lifecycle for any accounts, tasks, durations and bounds: its   *)
(* types; that an account locked with nobody left to unlock it is always   *)
(* due to a named lapse; where the theorems' assumptions say what has to   *)
(* keep still, that one job at a time locks an account, that penalties     *)
(* expire, and that no unlock is due before the key of its lock is over;   *)
(* and that the lifecycle implements LockObligation.                       *)
(***************************************************************************)
EXTENDS LockLifecycle, SequenceTheorems, TLAPS

-----------------------------------------------------------------------------
(* Types.                                                                  *)

LEMMA EscalatedType ==
  ASSUME NEW n \in 0 .. Len(PenaltySteps)
  PROVE  Escalated(n) \in 1 .. Len(PenaltySteps)
  BY LifecycleAssumption DEF Escalated

LEMMA StepType == \A n \in 1 .. Len(PenaltySteps) : PenaltySteps[n] \in Positive
  BY LifecycleAssumption

LEMMA ThreadTypes ==
  /\ Listener \in Threads
  /\ Workers \subseteq Threads /\ Admins \subseteq Threads /\ Requests \subseteq Threads
  BY DEF Threads

(* The ways a step changes what a task is doing keep the jobs well-formed. *)
LEMMA GotoType ==
  ASSUME TypeOK, NEW t \in Threads, NEW step \in PCs, Goto(t, step)
  PROVE  job' \in [Threads -> Jobs]
  BY DEF TypeOK, Goto, Jobs

LEMMA StartType ==
  ASSUME TypeOK, NEW t \in Threads, NEW step \in PCs, NEW e \in Emails, Start(t, step, e)
  PROVE  job' \in [Threads -> Jobs]
  BY LifecycleAssumption DEF TypeOK, Start, Jobs, Positive

LEMMA FinishType ==
  ASSUME TypeOK, NEW t \in Threads, Finish(t)
  PROVE  job' \in [Threads -> Jobs]
<1>1. Rest(t) \in PCs
  BY DEF Rest, PCs
<1> QED
  BY <1>1, LifecycleAssumption DEF TypeOK, Finish, Finished, Jobs, Positive

LEMMA ContinueType ==
  ASSUME TypeOK, NEW t \in Threads, NEW o, NEW step \in PCs, Continue(t, o, step)
  PROVE  job' \in [Threads -> Jobs]
  BY GotoType, FinishType DEF Continue

LEMMA ChargeType ==
  ASSUME TypeOK, NEW o, Charge(o)
  PROVE  faults' \in Nat /\ restarts' \in Nat /\ manager' \in BOOLEAN
  BY DEF TypeOK, Charge

LEMMA LapseType ==
  ASSUME TypeOK, NEW e \in Emails, NEW c \in Causes, Lapse(e, c)
  PROVE  lapse' \in [Emails -> SUBSET Causes]
  BY DEF TypeOK, Lapse

LEMMA KeyType ==
  ASSUME NEW k \in [Emails -> Times], NEW e \in Emails, NEW n \in Nat
  PROVE  /\ [k EXCEPT ![e] = KeyFor(n)] \in [Emails -> Times]
         /\ [k EXCEPT ![e] = 0] \in [Emails -> Times]
  BY DEF Times, KeyFor

LEMMA AppendType ==
  ASSUME TypeOK, NEW ev \in Events
  PROVE  /\ tasks \o << >> \in Seq(Events)
         /\ tasks \o <<ev>> \in Seq(Events)
         /\ tasks \o <<ev, ev>> \in Seq(Events)
  BY DEF TypeOK

LEMMA EventType ==
  ASSUME NEW e \in Emails
  PROVE  LockEvent(e) \in Events /\ UnlockEvent(e) \in Events
  BY DEF LockEvent, UnlockEvent, Events

LEMMA InitTypeOK == Init => TypeOK
  BY LifecycleAssumption
  DEF Init, TypeOK, Times, Jobs, PCs, Positive, Causes, Events

(* Every action keeps the types.                                           *)
LEMMA LockJobTypeOK ==
  ASSUME TypeOK, NEW t \in Threads, LockJob(t)
  PROVE  TypeOK'
<1> USE DEF TypeOK
<1> DEFINE e == job[t].email
<1>0. e \in Emails /\ job[t].dur \in Nat /\ job[t].dur \in Positive
  BY LifecycleAssumption DEF Jobs, Positive
<1>1. CASE ExistsLock(t)
  <2>1. PICK o \in Outcomes :
           /\ Charge(o)
           /\ IF Raises(o) \/ lockKey[e] # 0
                THEN Finish(t) ELSE Goto(t, IF PenaltyEnabled THEN "incr" ELSE "setnx")
    BY <1>1 DEF ExistsLock
  <2>2. "incr" \in PCs /\ "setnx" \in PCs
    BY DEF PCs, LockSteps
  <2>3. job' \in [Threads -> Jobs]
    BY <2>1, <2>2, FinishType, GotoType
  <2> QED
    BY <1>1, <2>1, <2>3, ChargeType DEF ExistsLock, redisVars
<1>2. CASE IncrPenalty(t)
  <2> DEFINE n(o) == CASE o = "lost" -> penalty[e]
                       [] o = "twice" -> Escalated(Escalated(penalty[e]))
                       [] OTHER -> Escalated(penalty[e])
  <2>1. PICK o \in Outcomes :
           /\ Charge(o)
           /\ penalty' = [penalty EXCEPT ![e] = n(o)]
           /\ IF Raises(o)
                THEN Finish(t)
                ELSE job' = [job EXCEPT ![t].pc = "expire", ![t].dur = PenaltySteps[n(o)]]
    BY <1>2 DEF IncrPenalty
  <2>2. penalty[e] \in 0 .. Len(PenaltySteps)
    BY <1>0
  <2>3. Escalated(penalty[e]) \in 1 .. Len(PenaltySteps)
    BY <2>2, EscalatedType
  <2>4. Escalated(Escalated(penalty[e])) \in 1 .. Len(PenaltySteps)
    BY <2>3, EscalatedType, LifecycleAssumption
  <2>5. n(o) \in 0 .. Len(PenaltySteps) /\ (~Raises(o) => n(o) \in 1 .. Len(PenaltySteps))
    BY <2>2, <2>3, <2>4, LifecycleAssumption DEF Raises, Outcomes
  <2>6. penalty' \in [Emails -> 0 .. Len(PenaltySteps)]
    BY <2>1, <2>5, <1>0
  <2>7. job' \in [Threads -> Jobs]
    <3>1. CASE Raises(o)
      BY <2>1, <3>1, FinishType
    <3>2. CASE ~Raises(o)
      <4>1. PenaltySteps[n(o)] \in Positive
        BY <2>5, <3>2, StepType
      <4>2. job' = [job EXCEPT ![t].pc = "expire", ![t].dur = PenaltySteps[n(o)]]
        BY <2>1, <3>2
      <4> HIDE DEF n
      <4> QED
        BY <4>1, <4>2 DEF Jobs, PCs, LockSteps
    <3> QED
      BY <3>1, <3>2
  <2> QED
    BY <1>2, <2>1, <2>6, <2>7, ChargeType DEF IncrPenalty
<1>3. CASE ExpirePenalty(t)
  <2>1. PICK o \in Outcomes : /\ Charge(o) /\ Continue(t, o, "setnx")
                              /\ penaltyKey' = IF TakesEffect(o) /\ penalty[e] > 0
                                   THEN [penaltyKey EXCEPT ![e] = KeyFor(PenaltyTtl)] ELSE penaltyKey
    BY <1>3 DEF ExpirePenalty
  <2>2. job' \in [Threads -> Jobs]
    BY <2>1, ContinueType DEF PCs, LockSteps
  <2>3. penaltyKey' \in [Emails -> Times]
    BY <2>1, <1>0, KeyType, LifecycleAssumption DEF Positive
  <2> QED
    BY <1>3, <2>1, <2>2, <2>3, ChargeType DEF ExpirePenalty
<1>4. CASE Setnx(t)
  <2>1. PICK o \in Outcomes :
           /\ Charge(o)
           /\ lockKey' = IF lockKey[e] = 0 /\ TakesEffect(o)
                           THEN [lockKey EXCEPT ![e] = KeyFor(job[t].dur)] ELSE lockKey
           /\ IF lockKey[e] = 0 /\ o = "ok" THEN Goto(t, "meta") ELSE Finish(t)
    BY <1>4 DEF Setnx
  <2>2. job' \in [Threads -> Jobs]
    BY <2>1, GotoType, FinishType DEF PCs, LockSteps
  <2>3. lockKey' \in [Emails -> Times]
    BY <2>1, <1>0, KeyType
  <2> QED
    BY <1>4, <2>1, <2>2, <2>3, ChargeType DEF Setnx
<1>5. CASE StoreMeta(t)
  <2>1. PICK o \in Outcomes : /\ Charge(o) /\ (Continue(t, o, "schedule") \/ Finish(t))
                              /\ metaKey' = IF TakesEffect(o)
                                   THEN [metaKey EXCEPT ![e] = KeyFor(job[t].dur)] ELSE metaKey
    BY <1>5 DEF StoreMeta
  <2>2. job' \in [Threads -> Jobs]
    BY <2>1, ContinueType, FinishType DEF PCs, LockSteps
  <2>3. metaKey' \in [Emails -> Times]
    BY <2>1, <1>0, KeyType
  <2> QED
    BY <1>5, <2>1, <2>2, <2>3, ChargeType DEF StoreMeta
<1>6. CASE Schedule(t)
  <2>1. PICK o \in Outcomes : /\ Charge(o) /\ (Continue(t, o, "lockAccount") \/ Finish(t))
                              /\ due' = IF TakesEffect(o)
                                   THEN [due EXCEPT ![e] = KeyFor(job[t].dur)] ELSE due
    BY <1>6 DEF Schedule
  <2>2. job' \in [Threads -> Jobs]
    BY <2>1, ContinueType, FinishType DEF PCs, LockSteps
  <2>3. due' \in [Emails -> Times]
    BY <2>1, <1>0, KeyType
  <2> QED
    BY <1>6, <2>1, <2>2, <2>3, ChargeType DEF Schedule
<1>7. CASE LockAccount(t)
  <2>1. PICK o \in Outcomes :
           /\ Charge(o)
           /\ locked' = IF TakesEffect(o) THEN locked \cup {e} ELSE locked
    BY <1>7 DEF LockAccount
  <2>2. job' \in [Threads -> Jobs]
    BY <1>7, FinishType DEF LockAccount
  <2> QED
    BY <1>7, <1>0, <2>1, <2>2, ChargeType DEF LockAccount, redisVars
<1> QED
  BY <1>1, <1>2, <1>3, <1>4, <1>5, <1>6, <1>7 DEF LockJob

LEMMA UnlockJobTypeOK ==
  ASSUME TypeOK, NEW t \in Threads, UnlockJob(t)
  PROVE  TypeOK'
<1> USE DEF TypeOK
<1> DEFINE e == job[t].email
<1>0. e \in Emails /\ {"failed", "extended", "disabled"} \subseteq Causes
  BY DEF Jobs, Causes
<1>pcs. {"retry", "recheck", "unlockAccount", "extend", "extendMeta", "clearLock"} \subseteq PCs
  BY DEF PCs, UnlockSteps, AfterUnlockSteps
<1>1. CASE LoadMeta(t)
  <2>1. PICK o \in Outcomes :
           /\ Charge(o)
           /\ IF Raises(o)
                THEN Goto(t, "retry") /\ Lapse(e, "failed")
                ELSE /\ job' = [job EXCEPT ![t].meta = metaKey[e] # 0, ![t].pc =
                           IF ~Forced(t) THEN "recheck"
                           ELSE IF manager THEN "unlockAccount" ELSE "clearLock"]
                     /\ Lapse(e, "disabled") \/ UNCHANGED lapse
    BY <1>1 DEF LoadMeta
  <2>2. lapse' \in [Emails -> SUBSET Causes]
    BY <2>1, <1>0, LapseType
  <2>3. job' \in [Threads -> Jobs]
    <3>1. CASE Raises(o)
      BY <2>1, <3>1, <1>pcs, GotoType
    <3>2. CASE ~Raises(o)
      <4>1. PICK b \in BOOLEAN : b = (metaKey[e] # 0)
        OBVIOUS
      <4>2. PICK s \in PCs : s = IF ~Forced(t) THEN "recheck"
                                 ELSE IF manager THEN "unlockAccount" ELSE "clearLock"
        BY <1>pcs
      <4>3. job' = [job EXCEPT ![t].meta = b, ![t].pc = s]
        BY <2>1, <3>2, <4>1, <4>2, Zenon
      <4> QED
        BY <4>3 DEF Jobs
    <3> QED
      BY <3>1, <3>2
  <2> QED
    BY <1>1, <2>1, <2>2, <2>3, ChargeType DEF LoadMeta, redisVars
<1>2. CASE Recheck(t)
  <2>1. PICK o \in Outcomes :
           /\ Charge(o)
           /\ \/ Goto(t, "retry") /\ Lapse(e, "failed")
              \/ Goto(t, "unlockAccount") /\ UNCHANGED lapse
              \/ Finish(t) /\ Lapse(e, "disabled")
              \/ Goto(t, "extend") /\ Lapse(e, "extended")
    BY <1>2 DEF Recheck
  <2>2. job' \in [Threads -> Jobs] /\ lapse' \in [Emails -> SUBSET Causes]
    BY <2>1, <1>0, <1>pcs, GotoType, FinishType, LapseType
  <2> QED
    BY <1>2, <2>1, <2>2, ChargeType DEF Recheck, redisVars
<1>3. CASE Extend(t)
  <2>1. PICK o \in Outcomes :
           /\ Charge(o)
           /\ lockKey' = IF TakesEffect(o)
                           THEN [lockKey EXCEPT ![e] = KeyFor(LockDuration)] ELSE lockKey
           /\ Goto(t, "retry") \/ Goto(t, "extendMeta") \/ Finish(t)
    BY <1>3 DEF Extend
  <2>2. job' \in [Threads -> Jobs]
    BY <2>1, <1>pcs, GotoType, FinishType
  <2>3. lockKey' \in [Emails -> Times]
    BY <2>1, <1>0, KeyType, LifecycleAssumption DEF Positive
  <2> QED
    BY <1>3, <2>1, <2>2, <2>3, ChargeType DEF Extend
<1>4. CASE ExtendMeta(t)
  <2>1. PICK o \in Outcomes :
           /\ Charge(o)
           /\ metaKey' = IF TakesEffect(o)
                           THEN [metaKey EXCEPT ![e] = KeyFor(LockDuration)] ELSE metaKey
           /\ Goto(t, "retry") \/ Finish(t)
    BY <1>4 DEF ExtendMeta
  <2>2. job' \in [Threads -> Jobs]
    BY <2>1, <1>pcs, GotoType, FinishType
  <2>3. metaKey' \in [Emails -> Times]
    BY <2>1, <1>0, KeyType, LifecycleAssumption DEF Positive
  <2> QED
    BY <1>4, <2>1, <2>2, <2>3, ChargeType DEF ExtendMeta
<1>5. CASE UnlockAccount(t)
  <2>1. PICK o \in Outcomes :
           /\ Charge(o)
           /\ locked' = IF TakesEffect(o) THEN locked \ {e} ELSE locked
           /\ lapse' = [lapse EXCEPT ![e] =
                   IF Raises(o) THEN @ \cup {"failed"}
                   ELSE IF Overtakes(t, e) THEN {"overtaken"} ELSE {}]
           /\ Goto(t, "retry") \/ Goto(t, "clearLock") \/ Finish(t)
    BY <1>5 DEF UnlockAccount
  <2>2. job' \in [Threads -> Jobs]
    BY <2>1, <1>pcs, GotoType, FinishType
  <2>3. lapse' \in [Emails -> SUBSET Causes]
    BY <2>1, <1>0 DEF Causes
  <2> QED
    BY <1>5, <2>1, <2>2, <2>3, ChargeType DEF UnlockAccount, redisVars
<1>6. CASE MarkRetry(t)
  <2>1. PICK o \in Outcomes :
           /\ Charge(o)
           /\ lockKey' = IF TakesEffect(o)
                           THEN [lockKey EXCEPT ![e] = KeyFor(RetryTtl)] ELSE lockKey
    BY <1>6 DEF MarkRetry
  <2>2. job' \in [Threads -> Jobs]
    BY <1>6, FinishType DEF MarkRetry
  <2>3. lockKey' \in [Emails -> Times]
    BY <2>1, <1>0, KeyType, LifecycleAssumption DEF Positive
  <2> QED
    BY <1>6, <2>1, <2>2, <2>3, ChargeType DEF MarkRetry
<1> QED
  BY <1>1, <1>2, <1>3, <1>4, <1>5, <1>6 DEF UnlockJob

LEMMA EventsTypeOK ==
  ASSUME TypeOK,
         \/ \E r \in Requests, e \in Emails : RateLimited(r, e)
         \/ \E w \in Workers : Take(w)
         \/ Listen
  PROVE  TypeOK'
<1> USE DEF TypeOK
<1>pcs. /\ {"exists", "load", "idle", "remove", "pushUnlock"} \subseteq PCs
        /\ {"dropped", "disabled"} \subseteq Causes
  BY DEF PCs, LockSteps, UnlockSteps, Causes
<1>1. ASSUME NEW r \in Requests, NEW e \in Emails, RateLimited(r, e) PROVE TypeOK'
  <2>1. PICK o \in Outcomes :
           /\ Charge(o)
           /\ tasks' = tasks \o (CASE o = "lost" -> << >>
                                   [] o = "twice" -> <<LockEvent(e), LockEvent(e)>>
                                   [] OTHER -> <<LockEvent(e)>>)
           /\ IF Raises(o) THEN Start(r, "exists", e) ELSE UNCHANGED job
    BY <1>1 DEF RateLimited
  <2>2. tasks' \in Seq(Events)
    <3>1. LockEvent(e) \in Events
      BY EventType
    <3>2. \/ tasks' = tasks \o << >>
          \/ tasks' = tasks \o <<LockEvent(e), LockEvent(e)>>
          \/ tasks' = tasks \o <<LockEvent(e)>>
      BY <2>1
    <3> QED
      BY <3>1, <3>2, AppendType
  <2>3. job' \in [Threads -> Jobs]
    BY <2>1, <1>pcs, StartType, ThreadTypes
  <2> QED
    BY <1>1, <2>1, <2>2, <2>3, ChargeType DEF RateLimited
<1>2. ASSUME NEW w \in Workers, Take(w) PROVE TypeOK'
  <2> DEFINE ev == Head(tasks)
  <2>1. ev \in Events /\ tasks' \in Seq(Events)
    BY <1>2, HeadTailProperties DEF Take
  <2>2. PICK o \in Outcomes :
           /\ Charge(o)
           /\ \/ /\ Start(w, IF ev.kind = "lock" THEN "exists" ELSE "load", ev.email)
                 /\ UNCHANGED lapse
              \/ /\ UNCHANGED job
                 /\ \/ UNCHANGED lapse
                    \/ Lapse(ev.email, IF o = "ok" THEN "disabled" ELSE "dropped")
    BY <1>2 DEF Take
  <2>3. ev.email \in Emails
    BY <2>1 DEF Events
  <2>4. job' \in [Threads -> Jobs]
    <3>1. (IF ev.kind = "lock" THEN "exists" ELSE "load") \in PCs
      BY <1>pcs
    <3> QED
      BY <2>2, <2>3, <3>1, StartType, ThreadTypes
  <2>5. lapse' \in [Emails -> SUBSET Causes]
    BY <2>2, <2>3, <1>pcs, LapseType
  <2> QED
    BY <1>2, <2>1, <2>2, <2>4, <2>5, ChargeType DEF Take
<1>3. CASE Poll
  <2>1. job' \in [Threads -> Jobs]
    BY <1>3, <1>pcs, GotoType, ThreadTypes DEF Poll
  <2> QED
    BY <1>3, <2>1 DEF Poll, redisVars, budgetVars
<1>4. CASE Remove
  <2>1. PICK e \in batch, o \in Outcomes :
           /\ Charge(o)
           /\ due' = due \/ due' = [due EXCEPT ![e] = 0]
           /\ batch' = {} \/ batch' = batch \ {e}
           /\ \/ /\ job' = [job EXCEPT ![Listener].pc = "pushUnlock", ![Listener].email = e]
                 /\ UNCHANGED lapse
              \/ /\ Goto(Listener, "idle") \/ Goto(Listener, "remove")
                 /\ Lapse(e, "dropped") \/ UNCHANGED lapse
    BY <1>4 DEF Remove
  <2>2. e \in Emails
    OBVIOUS
  <2>3. job' \in [Threads -> Jobs]
    <3>1. CASE job' = [job EXCEPT ![Listener].pc = "pushUnlock", ![Listener].email = e]
      BY <3>1, <2>2, <1>pcs, ThreadTypes DEF Jobs
    <3> QED
      BY <2>1, <3>1, <1>pcs, GotoType, ThreadTypes
  <2>4. due' \in [Emails -> Times]
    <3>1. due \in [Emails -> Nat]
      BY DEF Times
    <3>2. [due EXCEPT ![e] = 0] \in [Emails -> Nat]
      BY <3>1, <2>2
    <3> QED
      BY <2>1, <3>1, <3>2 DEF Times
  <2>5. lapse' \in [Emails -> SUBSET Causes]
    BY <2>1, <2>2, <1>pcs, LapseType
  <2> QED
    BY <1>4, <2>1, <2>3, <2>4, <2>5, ChargeType DEF Remove
<1>5. CASE PushUnlock
  <2> DEFINE ev == UnlockEvent(job[Listener].email)
  <2>1. PICK o \in Outcomes :
           /\ Charge(o)
           /\ \/ tasks' = tasks \o << >>
              \/ tasks' = tasks \o <<ev, ev>>
              \/ tasks' = tasks \o <<ev>>
           /\ Goto(Listener, "load") \/ Finish(Listener)
    <3>1. PICK o \in Outcomes :
           /\ Charge(o)
           /\ tasks' = tasks \o (CASE o = "lost" -> << >>
                                   [] o = "twice" -> <<ev, ev>>
                                   [] OTHER -> <<ev>>)
           /\ IF Raises(o) THEN Goto(Listener, "load") ELSE Finish(Listener)
      BY <1>5 DEF PushUnlock
    <3>2. \/ tasks' = tasks \o << >>
          \/ tasks' = tasks \o <<ev, ev>>
          \/ tasks' = tasks \o <<ev>>
      BY <3>1
    <3> QED
      BY <3>1, <3>2
  <2>2. ev \in Events
    BY EventType, ThreadTypes DEF Jobs
  <2>3. tasks' \in Seq(Events)
    BY <2>1, <2>2, AppendType
  <2>4. job' \in [Threads -> Jobs]
    BY <2>1, <1>pcs, GotoType, FinishType, ThreadTypes
  <2> QED
    BY <1>5, <2>1, <2>3, <2>4, ChargeType DEF PushUnlock
<1> QED
  BY <1>1, <1>2, <1>3, <1>4, <1>5 DEF Listen

LEMMA OperatorTypeOK ==
  ASSUME TypeOK,
         \/ \E a \in Admins, e \in Emails :
               ManualLock(a, e) \/ ManualUnlock(a, e) \/ ResetPenalty(a, e)
         \/ \E a \in Admins : Clear(a)
  PROVE  TypeOK'
<1> USE DEF TypeOK
<1>pcs. /\ {"setnx", "load", "dropLock", "dropMeta", "clearMeta", "clearSchedule"} \subseteq PCs
        /\ "cleared" \in Causes
  BY DEF PCs, LockSteps, UnlockSteps, AfterUnlockSteps, Causes
<1>1. ASSUME NEW a \in Admins, NEW e \in Emails, ManualLock(a, e) PROVE TypeOK'
  <2>1. job' \in [Threads -> Jobs]
    BY <1>1, <1>pcs, StartType, ThreadTypes DEF ManualLock
  <2> QED
    BY <1>1, <2>1 DEF ManualLock, redisVars, budgetVars
<1>2. ASSUME NEW a \in Admins, NEW e \in Emails, ManualUnlock(a, e) PROVE TypeOK'
  <2>1. job' \in [Threads -> Jobs]
    BY <1>2, <1>pcs, StartType, ThreadTypes DEF ManualUnlock
  <2> QED
    BY <1>2, <2>1 DEF ManualUnlock, redisVars, budgetVars
<1>3. ASSUME NEW a \in Admins, NEW e \in Emails, ResetPenalty(a, e) PROVE TypeOK'
  <2>1. penalty' \in [Emails -> 0 .. Len(PenaltySteps)]
    BY <1>3, LifecycleAssumption DEF ResetPenalty
  <2>2. penaltyKey' \in [Emails -> Times]
    BY <1>3 DEF ResetPenalty, Times
  <2> QED
    BY <1>3, <2>1, <2>2 DEF ResetPenalty, budgetVars
<1>4. ASSUME NEW a \in Admins, ClearLock(a) PROVE TypeOK'
  <2>1. PICK o \in Outcomes : /\ Charge(o)
                              /\ Continue(a, o, "clearMeta") \/ Continue(a, o, "dropMeta")
                              /\ lockKey' = IF TakesEffect(o)
                                   THEN [lockKey EXCEPT ![job[a].email] = 0] ELSE lockKey
    BY <1>4 DEF ClearLock
  <2>2. job' \in [Threads -> Jobs]
    BY <2>1, <1>pcs, ContinueType, ThreadTypes
  <2>3. lockKey' \in [Emails -> Times]
    BY <2>1 DEF Times
  <2> QED
    BY <1>4, <2>1, <2>2, <2>3, ChargeType DEF ClearLock
<1>5. ASSUME NEW a \in Admins, ClearMeta(a) PROVE TypeOK'
  <2>1. PICK o \in Outcomes : /\ Charge(o) /\ (Continue(a, o, "clearSchedule") \/ Finish(a))
                              /\ metaKey' = IF TakesEffect(o)
                                   THEN [metaKey EXCEPT ![job[a].email] = 0] ELSE metaKey
    BY <1>5 DEF ClearMeta
  <2>2. job' \in [Threads -> Jobs]
    BY <2>1, <1>pcs, ContinueType, FinishType, ThreadTypes
  <2>3. metaKey' \in [Emails -> Times]
    BY <2>1 DEF Times
  <2> QED
    BY <1>5, <2>1, <2>2, <2>3, ChargeType DEF ClearMeta
<1>6. ASSUME NEW a \in Admins, ClearSchedule(a) PROVE TypeOK'
  <2> DEFINE e == job[a].email
  <2>1. PICK o \in Outcomes : /\ Charge(o)
                              /\ due' = due \/ due' = [due EXCEPT ![e] = 0]
                              /\ Lapse(e, "cleared") \/ UNCHANGED lapse
    BY <1>6 DEF ClearSchedule
  <2>2. job' \in [Threads -> Jobs]
    BY <1>6, FinishType, ThreadTypes DEF ClearSchedule
  <2>3. e \in Emails
    BY ThreadTypes DEF Jobs
  <2>4. due' \in [Emails -> Times]
    <3>1. due \in [Emails -> Nat]
      BY DEF Times
    <3>2. [due EXCEPT ![e] = 0] \in [Emails -> Nat]
      BY <3>1, <2>3
    <3> QED
      BY <2>1, <3>1, <3>2 DEF Times
  <2>5. lapse' \in [Emails -> SUBSET Causes]
    BY <2>1, <2>3, <1>pcs, LapseType
  <2> QED
    BY <1>6, <2>1, <2>2, <2>4, <2>5, ChargeType DEF ClearSchedule
<1> QED
  BY <1>1, <1>2, <1>3, <1>4, <1>5, <1>6 DEF Clear

LEMMA EnvironmentTypeOK ==
  ASSUME TypeOK, Time \/ Crash \/ RestartListener
  PROVE  TypeOK'
<1> USE DEF TypeOK, Times
<1>1. CASE Tick
  <2>1. ASSUME NEW k \in [Emails -> Nat], NEW n \in Nat
        PROVE  Elapse(k, n) \in [Emails -> Nat]
    BY DEF Elapse
  <2>2. /\ lockKey' \in [Emails -> Nat] /\ metaKey' \in [Emails -> Nat]
        /\ penaltyKey' \in [Emails -> Nat] /\ due' \in [Emails -> Nat]
    BY <1>1, <2>1 DEF Tick
  <2> QED
    BY <1>1, <2>2 DEF Tick, budgetVars
<1>2. ASSUME NEW e \in Emails, ExpireLock(e) PROVE TypeOK'
  BY <1>2 DEF ExpireLock, budgetVars
<1>3. ASSUME NEW e \in Emails, ExpireMeta(e) PROVE TypeOK'
  BY <1>3 DEF ExpireMeta, budgetVars
<1>4. ASSUME NEW e \in Emails, ForgetPenalty(e) PROVE TypeOK'
  <2>1. penalty' \in [Emails -> 0 .. Len(PenaltySteps)]
    BY <1>4, LifecycleAssumption DEF ForgetPenalty
  <2> QED
    BY <1>4, <2>1 DEF ForgetPenalty, budgetVars
<1>5. ASSUME NEW T, Stop(T) PROVE TypeOK'
  <2>1. job' \in [Threads -> Jobs]
    <3>1. ASSUME NEW t \in Threads
          PROVE  [job[t] EXCEPT !.pc = "idle", !.dur = LockDuration, !.meta = FALSE] \in Jobs
      BY LifecycleAssumption DEF Jobs, PCs, Positive
    <3>2. Stopped(T) \in [Threads -> Jobs]
      BY <3>1 DEF Stopped
    <3> QED
      BY <1>5, <3>2 DEF Stop
  <2>2. lapse' \in [Emails -> SUBSET Causes]
    <3>1. \A e \in Emails : lapse[e] \in SUBSET Causes /\ lapse[e] \cup {"killed"} \in SUBSET Causes
      BY DEF Causes
    <3> QED
      BY <1>5, <3>1 DEF Stop
  <2>3. restarts' \in Nat /\ manager' \in BOOLEAN /\ batch' \subseteq Emails
    BY <1>5 DEF Stop
  <2>4. UNCHANGED <<redisVars, locked, faults>>
    BY <1>5 DEF Stop
  <2> QED
    BY <2>1, <2>2, <2>3, <2>4 DEF redisVars
<1> QED
  BY <1>1, <1>2, <1>3, <1>4, <1>5 DEF Time, Crash, RestartListener

LEMMA NextTypeOK == TypeOK /\ [Next]_vars => TypeOK'
<1> SUFFICES ASSUME TypeOK, [Next]_vars PROVE TypeOK'
  OBVIOUS
<1>1. CASE UNCHANGED vars
  BY <1>1 DEF vars, redisVars, budgetVars, TypeOK
<1>2. CASE Next
  BY <1>2, LockJobTypeOK, UnlockJobTypeOK, EventsTypeOK, OperatorTypeOK, EnvironmentTypeOK
  DEF Next
<1> QED
  BY <1>1, <1>2

(* The variables of the lifecycle stay in their types.                     *)
THEOREM TypeCorrect == Spec => []TypeOK
  BY InitTypeOK, NextTypeOK, PTL DEF Spec

-----------------------------------------------------------------------------
(* Nobody is stranded silently.                                            *)

(* A task is one command away from locking account e; a task carries an    *)
(* unlock of e that it has neither done nor given up; the list holds one.  *)
Locker(e) == \E t \in Threads : At(t, "lockAccount") /\ job[t].email = e
Carried(e) == \E t \in Threads : Unlocking(t) /\ job[t].email = e
Queued(e) == \E i \in 1 .. Len(tasks) : tasks[i] = UnlockEvent(e)

(* StrandedOnlyByLapse is not inductive: the duty to unlock has to be there*)
(* already when a task is about to lock the account.                       *)
Accounted ==
    \A e \in Emails :
        e \in locked \/ Locker(e) => UnlockOwed(e) \/ lapse[e] # {}

IInv == TypeOK /\ Accounted

LEMMA OwedMeans ==
  \A e \in Emails : UnlockOwed(e) <=> due[e] # 0 \/ Queued(e) \/ Carried(e)
  BY DEF UnlockOwed, Queued, Carried

(* What a step has to respect to keep Accounted.                           *)
LEMMA KeepAccounted ==
  ASSUME Accounted,
         \A e \in Emails : (e \in locked \/ Locker(e))' => e \in locked \/ Locker(e),
         \A e \in Emails : UnlockOwed(e) => UnlockOwed(e)' \/ lapse'[e] # {},
         \A e \in Emails : lapse[e] # {} => lapse'[e] # {}
  PROVE  Accounted'
  BY DEF Accounted

(* Only task t does something else afterwards.                             *)
OnlyJob(t) == \A u \in Threads \ {t} : job'[u] = job[u]

LEMMA GotoChanges ==
  ASSUME TypeOK, NEW t \in Threads, NEW step, Goto(t, step)
  PROVE  OnlyJob(t) /\ job'[t].pc = step /\ job'[t].email = job[t].email
  BY DEF TypeOK, Jobs, Goto, OnlyJob

LEMMA StartChanges ==
  ASSUME TypeOK, NEW t \in Threads, NEW step, NEW e, Start(t, step, e)
  PROVE  OnlyJob(t) /\ job'[t].pc = step /\ job'[t].email = e
  BY DEF TypeOK, Jobs, Start, OnlyJob

LEMMA FinishChanges ==
  ASSUME TypeOK, NEW t \in Threads, Finish(t)
  PROVE  OnlyJob(t) /\ job'[t].pc \in {"idle", "remove"}
<1>1. Finished(t).pc = Rest(t)
  BY DEF TypeOK, Jobs, Finished
<1>2. job'[t] = Finished(t) /\ OnlyJob(t)
  BY DEF TypeOK, Finish, OnlyJob
<1> QED
  BY <1>1, <1>2 DEF Rest

LEMMA NoNewLocker ==
  ASSUME NEW t \in Threads, OnlyJob(t), job'[t].pc # "lockAccount"
  PROVE  \A e \in Emails : Locker(e)' => Locker(e)
  BY DEF Locker, At, OnlyJob

LEMMA CarriedKept ==
  ASSUME NEW t \in Threads, OnlyJob(t),
         ~Unlocking(t) \/ (job'[t].pc \in UnlockSteps \cup {"pushUnlock"}
                             /\ job'[t].email = job[t].email)
  PROVE  \A e \in Emails : Carried(e) => Carried(e)'
  BY DEF Carried, Unlocking, OnlyJob

LEMMA QueuedKept ==
  ASSUME TypeOK, NEW evs \in Seq(Events), tasks' = tasks \o evs
  PROVE  \A e \in Emails : Queued(e) => Queued(e)'
<1> SUFFICES ASSUME NEW e \in Emails, NEW i \in 1 .. Len(tasks), tasks[i] = UnlockEvent(e)
             PROVE  Queued(e)'
  BY DEF Queued
<1>1. i \in 1 .. Len(tasks') /\ tasks'[i] = tasks[i]
  BY DEF TypeOK
<1> QED
  BY <1>1 DEF Queued, UnlockEvent

(* A step of a task that carries no unlock and is not about to lock, and   *)
(* that touches neither the schedule, nor the list, nor the history.       *)
LEMMA QuietStep ==
  ASSUME IInv, NEW t \in Threads, OnlyJob(t), ~Unlocking(t),
         job'[t].pc # "lockAccount",
         UNCHANGED <<due, tasks, lapse>>,
         \A e \in locked' : e \in locked \/ Locker(e)
  PROVE  Accounted'
<1>1. \A e \in Emails : Carried(e) => Carried(e)'
  BY CarriedKept
<1>2. \A e \in Emails : UnlockOwed(e) => UnlockOwed(e)'
  BY <1>1, OwedMeans DEF UnlockOwed, Carried
<1>3. \A e \in Emails : (e \in locked \/ Locker(e))' => e \in locked \/ Locker(e)
  BY NoNewLocker
<1> QED
  BY <1>2, <1>3, KeepAccounted DEF IInv

LEMMA InitIInv == Init => IInv
<1> SUFFICES ASSUME Init PROVE IInv
  OBVIOUS
<1>1. TypeOK
  BY InitTypeOK
<1>2. \A t \in Threads : job[t].pc = "idle"
  BY DEF Init
<1>3. \A e \in Emails : ~Locker(e) /\ e \notin locked
  BY <1>2 DEF Locker, At, Init
<1> QED
  BY <1>1, <1>3 DEF IInv, Accounted

(* A lock job owes the unlock from the moment it schedules it, and carries *)
(* none: the only step before a Locker that matters is Schedule.           *)
LEMMA LockJobAccounted ==
  ASSUME IInv, NEW t \in Threads, LockJob(t)
  PROVE  Accounted'
<1> USE DEF IInv
<1>1. ASSUME NEW step, At(t, step), step \notin UnlockSteps \cup {"pushUnlock"}
      PROVE  ~Unlocking(t)
  BY <1>1 DEF At, Unlocking
<1>2. CASE ExistsLock(t)
  <2>1. OnlyJob(t) /\ job'[t].pc # "lockAccount"
    BY <1>2, GotoChanges, FinishChanges DEF ExistsLock
  <2>2. ~Unlocking(t) /\ UNCHANGED <<due, tasks, lapse, locked>>
    BY <1>2, <1>1 DEF ExistsLock, UnlockSteps, redisVars
  <2> QED
    BY <2>1, <2>2, QuietStep
<1>3. CASE IncrPenalty(t)
  <2>1. OnlyJob(t) /\ job'[t].pc # "lockAccount"
    <3>1. ASSUME NEW n, job' = [job EXCEPT ![t].pc = "expire", ![t].dur = PenaltySteps[n]]
          PROVE  OnlyJob(t) /\ job'[t].pc # "lockAccount"
      BY <3>1 DEF OnlyJob, TypeOK, Jobs
    <3> QED
      BY <1>3, <3>1, FinishChanges DEF IncrPenalty
  <2>2. ~Unlocking(t) /\ UNCHANGED <<due, tasks, lapse, locked>>
    BY <1>3, <1>1 DEF IncrPenalty, UnlockSteps
  <2> QED
    BY <2>1, <2>2, QuietStep
<1>4. CASE ExpirePenalty(t)
  <2>1. OnlyJob(t) /\ job'[t].pc # "lockAccount"
    BY <1>4, GotoChanges, FinishChanges DEF ExpirePenalty, Continue
  <2>2. ~Unlocking(t) /\ UNCHANGED <<due, tasks, lapse, locked>>
    BY <1>4, <1>1 DEF ExpirePenalty, UnlockSteps
  <2> QED
    BY <2>1, <2>2, QuietStep
<1>5. CASE Setnx(t)
  <2>1. OnlyJob(t) /\ job'[t].pc # "lockAccount"
    BY <1>5, GotoChanges, FinishChanges DEF Setnx
  <2>2. ~Unlocking(t) /\ UNCHANGED <<due, tasks, lapse, locked>>
    BY <1>5, <1>1 DEF Setnx, UnlockSteps
  <2> QED
    BY <2>1, <2>2, QuietStep
<1>6. CASE StoreMeta(t)
  <2>1. OnlyJob(t) /\ job'[t].pc # "lockAccount"
    BY <1>6, GotoChanges, FinishChanges DEF StoreMeta, Continue
  <2>2. ~Unlocking(t) /\ UNCHANGED <<due, tasks, lapse, locked>>
    BY <1>6, <1>1 DEF StoreMeta, UnlockSteps
  <2> QED
    BY <2>1, <2>2, QuietStep
<1>7. CASE Schedule(t)
  <2> DEFINE e0 == job[t].email
  <2>1. ~Unlocking(t) /\ UNCHANGED <<tasks, lapse, locked>>
    BY <1>7, <1>1 DEF Schedule, UnlockSteps
  <2>2. PICK o \in Outcomes :
          /\ due' = IF TakesEffect(o) THEN [due EXCEPT ![e0] = KeyFor(job[t].dur)] ELSE due
          /\ Continue(t, o, "lockAccount") \/ Finish(t)
    BY <1>7 DEF Schedule
  <2>3. e0 \in Emails /\ KeyFor(job[t].dur) # 0
    BY DEF TypeOK, Jobs, KeyFor, Positive
  <2>4. \A e \in Emails : due[e] # 0 => due'[e] # 0
    BY <2>2, <2>3 DEF TypeOK
  <2>5. OnlyJob(t) /\ (job'[t].pc = "lockAccount" => job'[t].email = e0 /\ ~Raises(o))
    BY <2>2, GotoChanges, FinishChanges DEF Continue
  <2>6. \A e \in Emails : UnlockOwed(e) => UnlockOwed(e)'
    <3>1. \A e \in Emails : Carried(e) => Carried(e)'
      BY <2>1, <2>5, CarriedKept
    <3> QED
      BY <2>1, <2>4, <3>1, OwedMeans DEF UnlockOwed, Carried
  <2>7. ASSUME NEW e \in Emails, (e \in locked \/ Locker(e))'
        PROVE  (UnlockOwed(e) \/ lapse[e] # {})'
    <3>1. CASE e \in locked \/ Locker(e)
      BY <2>1, <2>6, <3>1 DEF Accounted
    <3>2. CASE ~(e \in locked \/ Locker(e))
      <4>1. job'[t].pc = "lockAccount" /\ job'[t].email = e
        BY <2>1, <2>5, <2>7, <3>2 DEF Locker, At, OnlyJob
      <4>2. due'[e] # 0
        BY <2>2, <2>3, <2>5, <4>1 DEF TypeOK, Raises, TakesEffect
      <4> QED
        BY <4>2 DEF UnlockOwed
    <3> QED
      BY <3>1, <3>2
  <2> QED
    BY <2>7 DEF Accounted
<1>8. CASE LockAccount(t)
  <2>1. OnlyJob(t) /\ job'[t].pc # "lockAccount"
    BY <1>8, FinishChanges DEF LockAccount
  <2>2. ~Unlocking(t) /\ UNCHANGED <<due, tasks, lapse>>
    BY <1>8, <1>1 DEF LockAccount, UnlockSteps, redisVars
  <2>3. \A e \in locked' : e \in locked \/ Locker(e)
    BY <1>8 DEF LockAccount, Locker
  <2> QED
    BY <2>1, <2>2, <2>3, QuietStep
<1> QED
  BY <1>2, <1>3, <1>4, <1>5, <1>6, <1>7, <1>8 DEF LockJob

(* A carrier that goes on with its unlock, or gives it up with a cause.    *)
LEMMA CarrierStep ==
  ASSUME IInv, NEW t \in Threads, OnlyJob(t), job'[t].email = job[t].email,
         job'[t].pc # "lockAccount", UNCHANGED <<due, tasks, locked>>,
         \/ job'[t].pc \in UnlockSteps \cup {"pushUnlock"} /\ UNCHANGED lapse
         \/ \E cause \in Causes : Lapse(job[t].email, cause)
  PROVE  Accounted'
<1> USE DEF IInv
<1>1. \A e \in Emails : (e \in locked \/ Locker(e))' => e \in locked \/ Locker(e)
  BY NoNewLocker
<1>2. \A e \in Emails : lapse[e] # {} => lapse'[e] # {}
  BY DEF Lapse, TypeOK
<1>3. ASSUME NEW e \in Emails, UnlockOwed(e) PROVE UnlockOwed(e)' \/ lapse'[e] # {}
  <2>1. CASE due[e] # 0 \/ Queued(e)
    BY <2>1, OwedMeans DEF UnlockOwed, Queued
  <2>2. CASE Carried(e) /\ e # job[t].email
    BY <2>2 DEF Carried, OnlyJob, Unlocking, UnlockOwed
  <2>3. CASE Carried(e) /\ e = job[t].email
    <3>1. CASE job'[t].pc \in UnlockSteps \cup {"pushUnlock"}
      BY <2>3, <3>1 DEF UnlockOwed, Unlocking
    <3>2. CASE \E cause \in Causes : Lapse(job[t].email, cause)
      BY <2>3, <3>2 DEF Lapse, TypeOK
    <3> QED
      BY <3>1, <3>2
  <2> QED
    BY <1>3, <2>1, <2>2, <2>3, OwedMeans
<1> QED
  BY <1>1, <1>2, <1>3, KeepAccounted

(* An unlock job leaves the account unlocked or a cause behind.            *)
LEMMA UnlockJobAccounted ==
  ASSUME IInv, NEW t \in Threads, UnlockJob(t)
  PROVE  Accounted'
<1> USE DEF IInv
<1>1. CASE LoadMeta(t)
  <2>1. UNCHANGED <<due, tasks, locked>>
    BY <1>1 DEF LoadMeta, redisVars
  <2>2. \/ Goto(t, "retry") /\ Lapse(job[t].email, "failed")
        \/ /\ \E b : job' = [job EXCEPT ![t].meta = b, ![t].pc =
                                 IF ~Forced(t) THEN "recheck"
                                 ELSE IF manager THEN "unlockAccount" ELSE "clearLock"]
           /\ IF Forced(t) /\ ~manager THEN Lapse(job[t].email, "disabled") ELSE UNCHANGED lapse
    BY <1>1 DEF LoadMeta
  <2>3. CASE Goto(t, "retry") /\ Lapse(job[t].email, "failed")
    BY <2>1, <2>3, GotoChanges, CarrierStep DEF Causes
  <2>4. ASSUME IF Forced(t) /\ ~manager THEN Lapse(job[t].email, "disabled") ELSE UNCHANGED lapse,
               NEW b,
               job' = [job EXCEPT ![t].meta = b, ![t].pc =
                         IF ~Forced(t) THEN "recheck"
                         ELSE IF manager THEN "unlockAccount" ELSE "clearLock"]
        PROVE  Accounted'
    <3>1. /\ OnlyJob(t) /\ job'[t].email = job[t].email
          /\ job'[t].pc = IF ~Forced(t) THEN "recheck"
                          ELSE IF manager THEN "unlockAccount" ELSE "clearLock"
      BY <2>4 DEF OnlyJob, TypeOK, Jobs
    <3>2. CASE Forced(t) /\ ~manager
      <4>1. job'[t].pc = "clearLock" /\ Lapse(job[t].email, "disabled")
        BY <2>4, <3>1, <3>2
      <4>2. \E cause \in Causes : Lapse(job[t].email, cause)
        BY <4>1 DEF Causes
      <4> QED
        BY <2>1, <3>1, <4>1, <4>2, CarrierStep
    <3>3. CASE ~(Forced(t) /\ ~manager)
      <4>1. job'[t].pc \in {"unlockAccount", "recheck"} /\ UNCHANGED lapse
        BY <2>4, <3>1, <3>3
      <4> QED
        BY <2>1, <3>1, <4>1, CarrierStep DEF UnlockSteps
    <3> QED
      BY <3>2, <3>3
  <2> QED
    BY <2>2, <2>3, <2>4
<1>2. CASE Recheck(t)
  <2>1. UNCHANGED <<due, tasks, locked>>
    BY <1>2 DEF Recheck, redisVars
  <2>2. \/ Goto(t, "retry") /\ Lapse(job[t].email, "failed")
        \/ Goto(t, "unlockAccount") /\ UNCHANGED lapse
        \/ Finish(t) /\ Lapse(job[t].email, "disabled")
        \/ Goto(t, "extend") /\ Lapse(job[t].email, "extended")
    BY <1>2 DEF Recheck
  <2>3. CASE Goto(t, "retry") /\ Lapse(job[t].email, "failed")
    BY <2>1, <2>3, GotoChanges, CarrierStep DEF Causes
  <2>4. CASE Goto(t, "unlockAccount") /\ UNCHANGED lapse
    BY <2>1, <2>4, GotoChanges, CarrierStep DEF UnlockSteps
  <2>5. CASE Goto(t, "extend") /\ Lapse(job[t].email, "extended")
    BY <2>1, <2>5, GotoChanges, CarrierStep DEF Causes
  <2>6. CASE Finish(t) /\ Lapse(job[t].email, "disabled")
    <3>1. job'[t].email = job[t].email
      BY <2>6 DEF Finish, Finished, TypeOK, Jobs
    <3> QED
      BY <2>1, <2>6, <3>1, FinishChanges, CarrierStep DEF Causes
  <2> QED
    BY <2>2, <2>3, <2>4, <2>5, <2>6
<1>3. CASE Extend(t)
  <2>1. OnlyJob(t) /\ job'[t].pc # "lockAccount"
    BY <1>3, GotoChanges, FinishChanges DEF Extend
  <2>2. ~Unlocking(t) /\ UNCHANGED <<due, tasks, lapse, locked>>
    BY <1>3 DEF Extend, At, Unlocking, UnlockSteps
  <2> QED
    BY <2>1, <2>2, QuietStep
<1>4. CASE ExtendMeta(t)
  <2>1. OnlyJob(t) /\ job'[t].pc # "lockAccount"
    BY <1>4, GotoChanges, FinishChanges DEF ExtendMeta
  <2>2. ~Unlocking(t) /\ UNCHANGED <<due, tasks, lapse, locked>>
    BY <1>4 DEF ExtendMeta, At, Unlocking, UnlockSteps
  <2> QED
    BY <2>1, <2>2, QuietStep
<1>5. CASE MarkRetry(t)
  <2>1. OnlyJob(t) /\ job'[t].pc # "lockAccount"
    BY <1>5, FinishChanges DEF MarkRetry
  <2>2. ~Unlocking(t) /\ UNCHANGED <<due, tasks, lapse, locked>>
    BY <1>5 DEF MarkRetry, At, Unlocking, UnlockSteps
  <2> QED
    BY <2>1, <2>2, QuietStep
<1>6. CASE UnlockAccount(t)
  <2>0. PICK e0 \in Emails : e0 = job[t].email
    BY DEF TypeOK, Jobs
  <2>1. UNCHANGED <<due, tasks>>
    BY <1>6 DEF UnlockAccount, redisVars
  <2>2. PICK o \in Outcomes :
          /\ locked' = IF TakesEffect(o) THEN locked \ {e0} ELSE locked
          /\ lapse' = [lapse EXCEPT ![e0] =
                  IF Raises(o) THEN @ \cup {"failed"}
                  ELSE IF Overtakes(t, e0) THEN {"overtaken"} ELSE {}]
          /\ IF Raises(o) THEN Goto(t, "retry")
             ELSE IF Forced(t) THEN Goto(t, "clearLock") ELSE Finish(t)
    BY <1>6, <2>0 DEF UnlockAccount
  <2>3. OnlyJob(t) /\ job'[t].pc # "lockAccount"
    BY <2>2, GotoChanges, FinishChanges
  <2>4. \A e \in Emails : Locker(e)' => Locker(e)
    BY <2>3, NoNewLocker
  <2>5. ASSUME NEW e \in Emails \ {e0}, (e \in locked \/ Locker(e))'
        PROVE  (UnlockOwed(e) \/ lapse[e] # {})'
    <3>1. e \in locked \/ Locker(e)
      BY <2>2, <2>4, <2>5
    <3>2. lapse'[e] = lapse[e]
      BY <2>2, <2>5 DEF TypeOK
    <3>3. Carried(e) => Carried(e)'
      BY <2>0, <2>3, <2>5 DEF Carried, OnlyJob, Unlocking
    <3>4. UnlockOwed(e) => UnlockOwed(e)'
      BY <2>1, <3>3, OwedMeans DEF UnlockOwed, Carried
    <3> QED
      BY <3>1, <3>2, <3>4 DEF Accounted
  <2>6. ASSUME (e0 \in locked \/ Locker(e0))' PROVE lapse'[e0] # {}
    <3>1. CASE Raises(o)
      BY <2>1, <2>2, <3>1 DEF TypeOK
    <3>2. CASE ~Raises(o)
      <4>1. e0 \notin locked'
        BY <2>2, <3>2 DEF Raises, TakesEffect
      <4>2. PICK u \in Threads : job'[u].pc = "lockAccount" /\ job'[u].email = e0
        BY <2>6, <4>1 DEF Locker, At
      <4>3. u # t /\ job'[u] = job[u]
        BY <2>3, <4>2 DEF OnlyJob
      <4>4. Overtakes(t, e0)
        BY <4>2, <4>3, <2>3 DEF Overtakes, At
      <4> QED
        BY <2>1, <2>2, <3>2, <4>4 DEF TypeOK
    <3> QED
      BY <3>1, <3>2
  <2>7. ASSUME NEW e \in Emails, (e \in locked \/ Locker(e))'
        PROVE  (UnlockOwed(e) \/ lapse[e] # {})'
    BY <2>5, <2>6, <2>7
  <2> QED
    BY <2>7 DEF Accounted
<1> QED
  BY <1>1, <1>2, <1>3, <1>4, <1>5, <1>6 DEF UnlockJob

(* An event that changes hands is never in nobody's: from the schedule to  *)
(* the listener, to the list, to a worker.                                 *)
LEMMA EventsAccounted ==
  ASSUME IInv,
         \/ \E r \in Requests, e \in Emails : RateLimited(r, e)
         \/ \E w \in Workers : Take(w)
         \/ Listen
  PROVE  Accounted'
<1> USE DEF IInv
<1>1. ASSUME NEW r \in Requests, NEW e0 \in Emails, RateLimited(r, e0) PROVE Accounted'
  <2>1. PICK evs \in Seq(Events) : tasks' = tasks \o evs
    <3>1. /\ << >> \in Seq(Events) /\ <<LockEvent(e0)>> \in Seq(Events)
          /\ <<LockEvent(e0), LockEvent(e0)>> \in Seq(Events)
      BY DEF Events, LockEvent
    <3> QED
      BY <1>1, <3>1 DEF RateLimited
  <2>2. Start(r, "exists", e0) \/ UNCHANGED job
    BY <1>1 DEF RateLimited
  <2>3. r \in Threads /\ ~Unlocking(r)
    BY <1>1 DEF RateLimited, Threads, At, Unlocking, UnlockSteps
  <2>4. OnlyJob(r) /\ job'[r].pc # "lockAccount"
    BY <1>1, <2>2, <2>3, StartChanges DEF RateLimited, OnlyJob, At
  <2>5. UNCHANGED <<due, locked, lapse>>
    BY <1>1 DEF RateLimited
  <2>6. \A e \in Emails : UnlockOwed(e) => UnlockOwed(e)'
    <3>1. \A e \in Emails : Carried(e) => Carried(e)'
      BY <2>3, <2>4, CarriedKept
    <3>2. \A e \in Emails : Queued(e) => Queued(e)'
      BY <2>1, QueuedKept
    <3> QED
      BY <2>5, <3>1, <3>2, OwedMeans DEF UnlockOwed, Carried, Queued
  <2> QED
    BY <2>3, <2>4, <2>5, <2>6, NoNewLocker, KeepAccounted
<1>2. ASSUME NEW w \in Workers, Take(w) PROVE Accounted'
  <2>1. /\ UNCHANGED <<due, locked>> /\ tasks' = Tail(tasks) /\ tasks # << >>
        /\ w \in Threads /\ ~Unlocking(w) /\ job[w].pc = "idle"
    BY <1>2 DEF Take, Threads, At, Unlocking, UnlockSteps
  <2>2. PICK ev \in Events : ev = tasks[1]
    BY <2>1 DEF TypeOK
  <2>3. \/ /\ Start(w, IF ev.kind = "lock" THEN "exists" ELSE "load", ev.email)
           /\ UNCHANGED lapse
        \/ /\ UNCHANGED job
           /\ IF ev.kind = "unlock" THEN \E c \in Causes : Lapse(ev.email, c)
                                    ELSE UNCHANGED lapse
    <3>1. Head(tasks) = ev
      BY <2>1, <2>2 DEF TypeOK
    <3> QED
      BY <1>2, <3>1 DEF Take, Causes
  <2>4. OnlyJob(w) /\ job'[w].pc # "lockAccount"
    BY <2>1, <2>3, StartChanges DEF OnlyJob
  <2>5. \A e \in Emails : lapse[e] # {} => lapse'[e] # {}
    BY <2>3 DEF Lapse, TypeOK
  <2>6. ASSUME NEW e \in Emails, UnlockOwed(e) PROVE UnlockOwed(e)' \/ lapse'[e] # {}
    <3>1. CASE due[e] # 0
      BY <2>1, <3>1 DEF UnlockOwed
    <3>2. CASE Carried(e)
      BY <2>1, <2>4, <3>2, CarriedKept, OwedMeans DEF UnlockOwed, Carried
    <3>3. CASE Queued(e)
      <4>1. PICK i \in 1 .. Len(tasks) : tasks[i] = UnlockEvent(e)
        BY <3>3 DEF Queued
      <4>2. CASE i = 1
        <5>1. ev.kind = "unlock" /\ ev.email = e
          BY <2>2, <4>1, <4>2 DEF UnlockEvent
        <5>2. CASE Start(w, "load", e)
          BY <2>1, <5>2, StartChanges DEF UnlockOwed, Unlocking, UnlockSteps
        <5>3. CASE \E c \in Causes : Lapse(e, c)
          BY <5>3 DEF Lapse, TypeOK
        <5> QED
          BY <2>3, <5>1, <5>2, <5>3
      <4>3. CASE i # 1
        <5>1. i - 1 \in 1 .. Len(tasks') /\ tasks'[i - 1] = tasks[i]
          BY <2>1, <4>1, <4>3 DEF TypeOK
        <5> QED
          BY <4>1, <5>1 DEF UnlockOwed, UnlockEvent
      <4> QED
        BY <4>2, <4>3
    <3> QED
      BY <2>6, <3>1, <3>2, <3>3, OwedMeans
  <2>7. \A e \in Emails : (e \in locked \/ Locker(e))' => e \in locked \/ Locker(e)
    BY <2>1, <2>4, NoNewLocker
  <2> QED
    BY <2>5, <2>6, <2>7, KeepAccounted
<1>3. CASE Poll
  <2>1. OnlyJob(Listener) /\ job'[Listener].pc # "lockAccount" /\ Listener \in Threads
    BY <1>3, GotoChanges DEF Poll, Threads
  <2>2. ~Unlocking(Listener) /\ UNCHANGED <<due, tasks, lapse, locked>>
    BY <1>3 DEF Poll, At, Unlocking, UnlockSteps, redisVars
  <2> QED
    BY <2>1, <2>2, QuietStep
<1>4. CASE Remove
  <2>1. PICK e0 \in Emails, o \in Outcomes :
          LET removes == due[e0] # 0 /\ TakesEffect(o)
              rest == batch \ {e0}
          IN /\ due' = IF removes THEN [due EXCEPT ![e0] = 0] ELSE due
             /\ IF removes /\ o = "ok"
                  THEN /\ job' = [job EXCEPT ![Listener].pc = "pushUnlock",
                                             ![Listener].email = e0]
                       /\ UNCHANGED lapse
                  ELSE /\ Goto(Listener, IF Raises(o) \/ rest = {} THEN "idle" ELSE "remove")
                       /\ IF removes THEN Lapse(e0, "dropped") ELSE UNCHANGED lapse
    BY <1>4 DEF Remove, TypeOK
  <2>2. /\ UNCHANGED <<tasks, locked>> /\ Listener \in Threads /\ ~Unlocking(Listener)
    BY <1>4 DEF Remove, Threads, At, Unlocking, UnlockSteps
  <2>3. ASSUME job' = [job EXCEPT ![Listener].pc = "pushUnlock", ![Listener].email = e0]
        PROVE  /\ OnlyJob(Listener) /\ job'[Listener].pc = "pushUnlock"
               /\ job'[Listener].email = e0
    BY <2>2, <2>3 DEF OnlyJob, TypeOK, Jobs
  <2>4. OnlyJob(Listener) /\ job'[Listener].pc # "lockAccount"
    BY <2>1, <2>2, <2>3, GotoChanges
  <2>5. \A e \in Emails : lapse[e] # {} => lapse'[e] # {}
    BY <2>1 DEF Lapse, TypeOK
  <2>6. ASSUME NEW e \in Emails, due[e] # 0 PROVE UnlockOwed(e)' \/ lapse'[e] # {}
    <3>1. CASE due'[e] # 0
      BY <3>1 DEF UnlockOwed
    <3>2. CASE due'[e] = 0
      <4>1. e = e0 /\ TakesEffect(o)
        BY <2>1, <2>6, <3>2 DEF TypeOK
      <4>2. CASE o = "ok"
        BY <2>1, <2>2, <2>3, <2>6, <4>1, <4>2 DEF UnlockOwed, Unlocking
      <4>3. CASE o # "ok"
        BY <2>1, <2>6, <4>1, <4>3 DEF Lapse, TypeOK
      <4> QED
        BY <4>2, <4>3
    <3> QED
      BY <3>1, <3>2
  <2>7. ASSUME NEW e \in Emails, UnlockOwed(e) PROVE UnlockOwed(e)' \/ lapse'[e] # {}
    BY <2>2, <2>4, <2>6, <2>7, CarriedKept, OwedMeans DEF UnlockOwed, Carried, Queued
  <2>8. \A e \in Emails : (e \in locked \/ Locker(e))' => e \in locked \/ Locker(e)
    BY <2>2, <2>4, NoNewLocker
  <2> QED
    BY <2>5, <2>7, <2>8, KeepAccounted
<1>5. CASE PushUnlock
  <2>0. PICK e0 \in Emails : e0 = job[Listener].email
    BY DEF TypeOK, Jobs, Threads
  <2>1. PICK o \in Outcomes :
          /\ tasks' = tasks \o (CASE o = "lost" -> << >>
                                  [] o = "twice" -> <<UnlockEvent(e0), UnlockEvent(e0)>>
                                  [] OTHER -> <<UnlockEvent(e0)>>)
          /\ IF Raises(o) THEN Goto(Listener, "load") ELSE Finish(Listener)
    BY <1>5, <2>0 DEF PushUnlock
  <2>2. UNCHANGED <<due, locked, lapse>> /\ Listener \in Threads
    BY <1>5 DEF PushUnlock, Threads
  <2>3. PICK evs \in Seq(Events) :
          tasks' = tasks \o evs /\ (~Raises(o) => evs # << >> /\ evs[1] = UnlockEvent(e0))
    <3>1. /\ << >> \in Seq(Events) /\ <<UnlockEvent(e0)>> \in Seq(Events)
          /\ <<UnlockEvent(e0), UnlockEvent(e0)>> \in Seq(Events)
      BY DEF Events, UnlockEvent
    <3> QED
      BY <2>1, <3>1 DEF Raises
  <2>4. OnlyJob(Listener) /\ job'[Listener].pc # "lockAccount"
    BY <2>1, <2>2, GotoChanges, FinishChanges
  <2>5. \A e \in Emails : Queued(e) => Queued(e)'
    BY <2>3, QueuedKept
  <2>6. \A e \in Emails : Carried(e) /\ e # e0 => Carried(e)'
    BY <2>0, <2>4 DEF Carried, OnlyJob, Unlocking
  <2>7. UnlockOwed(e0)'
    <3>1. CASE Raises(o)
      BY <2>0, <2>1, <2>2, <3>1, GotoChanges DEF UnlockOwed, Unlocking, UnlockSteps
    <3>2. CASE ~Raises(o)
      <4>1. Len(tasks) + 1 \in 1 .. Len(tasks') /\ tasks'[Len(tasks) + 1] = UnlockEvent(e0)
        BY <2>3, <3>2 DEF TypeOK
      <4> QED
        BY <4>1 DEF UnlockOwed, UnlockEvent
    <3> QED
      BY <3>1, <3>2
  <2>8. ASSUME NEW e \in Emails, UnlockOwed(e) PROVE UnlockOwed(e)'
    <3>1. CASE e = e0
      BY <2>7, <3>1
    <3>2. CASE e # e0
      BY <2>2, <2>5, <2>6, <2>8, <3>2, OwedMeans DEF UnlockOwed, Carried, Queued
    <3> QED
      BY <3>1, <3>2
  <2> QED
    BY <2>2, <2>4, <2>8, NoNewLocker, KeepAccounted
<1> QED
  BY <1>1, <1>2, <1>3, <1>4, <1>5 DEF Listen

(* A management call removes a schedule only with the cause "cleared".     *)
LEMMA OperatorAccounted ==
  ASSUME IInv,
         \/ \E a \in Admins, e \in Emails :
               ManualLock(a, e) \/ ManualUnlock(a, e) \/ ResetPenalty(a, e)
         \/ \E a \in Admins : Clear(a)
  PROVE  Accounted'
<1> USE DEF IInv
<1>adm. Admins \subseteq Threads
  BY DEF Threads
<1>1. ASSUME NEW a \in Admins, NEW e0 \in Emails, ManualLock(a, e0) PROVE Accounted'
  <2>1. OnlyJob(a) /\ job'[a].pc # "lockAccount"
    BY <1>1, <1>adm, StartChanges DEF ManualLock
  <2>2. ~Unlocking(a) /\ UNCHANGED <<due, tasks, lapse, locked>>
    BY <1>1 DEF ManualLock, At, Unlocking, UnlockSteps, redisVars
  <2> QED
    BY <1>adm, <2>1, <2>2, QuietStep
<1>2. ASSUME NEW a \in Admins, NEW e0 \in Emails, ManualUnlock(a, e0) PROVE Accounted'
  <2>1. OnlyJob(a) /\ job'[a].pc # "lockAccount"
    BY <1>2, <1>adm, StartChanges DEF ManualUnlock
  <2>2. ~Unlocking(a) /\ UNCHANGED <<due, tasks, lapse, locked>>
    BY <1>2 DEF ManualUnlock, At, Unlocking, UnlockSteps, redisVars
  <2> QED
    BY <1>adm, <2>1, <2>2, QuietStep
<1>3. ASSUME NEW a \in Admins, NEW e0 \in Emails, ResetPenalty(a, e0) PROVE Accounted'
  <2>1. UNCHANGED <<due, tasks, lapse, locked, job>>
    BY <1>3 DEF ResetPenalty
  <2> QED
    BY <2>1 DEF Accounted, Locker, At, UnlockOwed, Unlocking
<1>4. ASSUME NEW a \in Admins, ClearLock(a) PROVE Accounted'
  <2>1. OnlyJob(a) /\ job'[a].pc # "lockAccount"
    BY <1>4, <1>adm, GotoChanges, FinishChanges DEF ClearLock, Continue
  <2>2. ~Unlocking(a) /\ UNCHANGED <<due, tasks, lapse, locked>>
    BY <1>4 DEF ClearLock, At, Unlocking, UnlockSteps
  <2> QED
    BY <1>adm, <2>1, <2>2, QuietStep
<1>5. ASSUME NEW a \in Admins, ClearMeta(a) PROVE Accounted'
  <2>1. OnlyJob(a) /\ job'[a].pc # "lockAccount"
    BY <1>5, <1>adm, GotoChanges, FinishChanges DEF ClearMeta, Continue
  <2>2. ~Unlocking(a) /\ UNCHANGED <<due, tasks, lapse, locked>>
    BY <1>5 DEF ClearMeta, At, Unlocking, UnlockSteps
  <2> QED
    BY <1>adm, <2>1, <2>2, QuietStep
<1>6. ASSUME NEW a \in Admins, ClearSchedule(a) PROVE Accounted'
  <2>0. PICK e0 \in Emails : e0 = job[a].email
    BY <1>adm DEF TypeOK, Jobs
  <2>1. /\ UNCHANGED <<tasks, locked>> /\ ~Unlocking(a)
        /\ \/ UNCHANGED <<due, lapse>>
           \/ due' = [due EXCEPT ![e0] = 0] /\ Lapse(e0, "cleared")
    BY <1>6, <2>0 DEF ClearSchedule, At, Unlocking, UnlockSteps
  <2>2. OnlyJob(a) /\ job'[a].pc # "lockAccount"
    BY <1>6, <1>adm, FinishChanges DEF ClearSchedule
  <2>3. \A e \in Emails : due[e] # 0 => due'[e] # 0 \/ lapse'[e] # {}
    BY <2>1 DEF Lapse, TypeOK
  <2>4. \A e \in Emails : lapse[e] # {} => lapse'[e] # {}
    BY <2>1 DEF Lapse, TypeOK
  <2>5. ASSUME NEW e \in Emails, UnlockOwed(e) PROVE UnlockOwed(e)' \/ lapse'[e] # {}
    BY <1>adm, <2>1, <2>2, <2>3, <2>5, CarriedKept, OwedMeans DEF UnlockOwed, Carried, Queued
  <2>6. \A e \in Emails : (e \in locked \/ Locker(e))' => e \in locked \/ Locker(e)
    BY <1>adm, <2>1, <2>2, NoNewLocker
  <2> QED
    BY <2>4, <2>5, <2>6, KeepAccounted
<1> QED
  BY <1>1, <1>2, <1>3, <1>4, <1>5, <1>6 DEF Clear

(* Time never removes an entry of the schedule, and a task that dies with  *)
(* an unlock in hand leaves the cause "killed".                            *)
LEMMA EnvironmentAccounted ==
  ASSUME IInv, Time \/ Crash \/ RestartListener
  PROVE  Accounted'
<1> USE DEF IInv
<1>1. CASE Tick
  <2>1. UNCHANGED <<tasks, locked, job, lapse>>
    BY <1>1 DEF Tick
  <2>2. \A e \in Emails : due[e] # 0 => due'[e] # 0
    BY <1>1 DEF Tick, Elapse, TypeOK, Times
  <2> QED
    BY <2>1, <2>2 DEF Accounted, Locker, At, UnlockOwed, Unlocking
<1>2. ASSUME NEW e0 \in Emails, ExpireLock(e0) \/ ExpireMeta(e0) \/ ForgetPenalty(e0)
      PROVE  Accounted'
  <2>1. UNCHANGED <<due, tasks, locked, job, lapse>>
    BY <1>2 DEF ExpireLock, ExpireMeta, ForgetPenalty
  <2> QED
    BY <2>1 DEF Accounted, Locker, At, UnlockOwed, Unlocking
<1>3. ASSUME NEW T \in SUBSET Threads, Stop(T) PROVE Accounted'
  <2>1. UNCHANGED <<due, tasks, locked>>
    BY <1>3 DEF Stop, redisVars
  <2>2. \A t \in Threads : job'[t] = job[t] \/ job'[t].pc = "idle"
    BY <1>3 DEF Stop, Stopped, TypeOK, Jobs
  <2>3. \A t \in Threads \ T : job'[t] = job[t]
    BY <1>3 DEF Stop, Stopped
  <2>4. \A e \in Emails : Locker(e)' => Locker(e)
    BY <2>2 DEF Locker, At
  <2>5. \A e \in Emails : lapse[e] # {} => lapse'[e] # {}
    BY <1>3 DEF Stop
  <2>6. ASSUME NEW e \in Emails, UnlockOwed(e) PROVE UnlockOwed(e)' \/ lapse'[e] # {}
    <3>1. CASE due[e] # 0 \/ Queued(e)
      BY <2>1, <3>1 DEF UnlockOwed, Queued
    <3>2. CASE Carried(e)
      <4>1. PICK t \in Threads : Unlocking(t) /\ job[t].email = e
        BY <3>2 DEF Carried
      <4>2. CASE t \in T
        BY <1>3, <4>1, <4>2 DEF Stop
      <4>3. CASE t \notin T
        BY <2>3, <4>1, <4>3 DEF UnlockOwed, Unlocking
      <4> QED
        BY <4>2, <4>3
    <3> QED
      BY <2>6, <3>1, <3>2, OwedMeans
  <2> QED
    BY <2>1, <2>4, <2>5, <2>6, KeepAccounted
<1> QED
  BY <1>1, <1>2, <1>3 DEF Time, Crash, RestartListener, Threads

LEMMA NextIInv == IInv /\ [Next]_vars => IInv'
<1> SUFFICES ASSUME IInv, [Next]_vars PROVE IInv'
  OBVIOUS
<1>1. TypeOK'
  BY NextTypeOK DEF IInv
<1>2. CASE UNCHANGED vars
  BY <1>1, <1>2 DEF IInv, Accounted, Locker, At, UnlockOwed, Unlocking, vars, redisVars
<1>3. CASE Next
  BY <1>1, <1>3, LockJobAccounted, UnlockJobAccounted, EventsAccounted,
     OperatorAccounted, EnvironmentAccounted
  DEF Next, IInv
<1> QED
  BY <1>2, <1>3

(* An account that is locked with no unlock scheduled, queued or under way *)
(* was always left so by a named cause, whatever the accounts, tasks,      *)
(* durations and faults: zadd (handler.py:447) comes before the lock       *)
(* (452), and every hand the unlock passes through holds on to it, unlocks *)
(* the account or leaves the cause.                                        *)
THEOREM StrandedOnlyByLapseAlways == Spec => []StrandedOnlyByLapse
<1>1. IInv => StrandedOnlyByLapse
  BY DEF IInv, TypeOK, Accounted, StrandedOnlyByLapse
<1> QED
  BY <1>1, InitIInv, NextIInv, PTL DEF Spec

-----------------------------------------------------------------------------
(* One locker at a time.                                                   *)

(* The key a locker set cannot have come to its last second, as long as a  *)
(* lock's steps take less than a second; nobody but a locker or an unlock  *)
(* job writes it, and SET NX needs it gone.                                *)
Guarded ==
    \A t \in Threads : job[t].pc \in Critical => lockKey[job[t].email] > 1

LInv == TypeOK /\ Guarded /\ OneLocker

(* A step that admits no locker and leaves their keys alive.               *)
LEMMA KeepLocker ==
  ASSUME LInv, TypeOK',
         \A t \in Threads : job'[t].pc \in Critical =>
             job[t].pc \in Critical /\ job'[t].email = job[t].email,
         \A e \in Emails : lockKey[e] > 1 => lockKey'[e] > 1
  PROVE  LInv'
<1>1. Guarded'
  BY DEF LInv, Guarded, TypeOK, Jobs
<1>2. OneLocker'
  BY DEF LInv, OneLocker
<1> QED
  BY <1>1, <1>2 DEF LInv

(* The same for a step of one task.                                        *)
LEMMA KeepLockerJob ==
  ASSUME LInv, TypeOK', NEW t \in Threads, OnlyJob(t),
         job'[t].pc \in Critical => job[t].pc \in Critical /\ job'[t].email = job[t].email,
         \A e \in Emails : lockKey[e] > 1 => lockKey'[e] > 1
  PROVE  LInv'
<1>1. \A u \in Threads : job'[u].pc \in Critical =>
         job[u].pc \in Critical /\ job'[u].email = job[u].email
  BY DEF OnlyJob
<1> QED
  BY <1>1, KeepLocker

LEMMA NextLInv ==
  ASSUME Prompt, Admins = {}, LInv, [Next]_vars
  PROVE  LInv'
<1>0. TypeOK /\ TypeOK'
  BY NextTypeOK DEF LInv
<1>c. Critical = {"meta", "schedule", "lockAccount"}
  BY DEF Critical
<1>1. CASE UNCHANGED vars
  BY <1>0, <1>1, KeepLocker DEF vars, redisVars
<1>2. ASSUME NEW r \in Requests, NEW e \in Emails, RateLimited(r, e) PROVE LInv'
  <2>1. r \in Threads /\ (Start(r, "exists", e) \/ UNCHANGED job) /\ UNCHANGED lockKey
    BY <1>2, ThreadTypes DEF RateLimited
  <2> QED
    BY <1>0, <1>c, <2>1, StartChanges, KeepLockerJob, KeepLocker
<1>3. ASSUME NEW w \in Workers, Take(w) PROVE LInv'
  <2>1. w \in Threads /\ UNCHANGED lockKey
    BY <1>3, ThreadTypes DEF Take
  <2>2. \/ Start(w, "exists", Head(tasks).email) \/ Start(w, "load", Head(tasks).email)
        \/ UNCHANGED job
    BY <1>3 DEF Take
  <2> QED
    BY <1>0, <1>c, <2>1, <2>2, StartChanges, KeepLockerJob, KeepLocker
<1>4. ASSUME NEW t \in Threads, LockJob(t) PROVE LInv'
  <2>0. PICK e0 \in Emails : e0 = job[t].email
    BY <1>0 DEF TypeOK, Jobs
  <2>1. CASE ExistsLock(t) \/ IncrPenalty(t) \/ ExpirePenalty(t)
    <3>1. UNCHANGED lockKey
      BY <2>1 DEF ExistsLock, IncrPenalty, ExpirePenalty, redisVars
    <3>2. OnlyJob(t) /\ job'[t].pc \notin Critical
      <4>1. ASSUME NEW n, job' = [job EXCEPT ![t].pc = "expire", ![t].dur = PenaltySteps[n]]
            PROVE  OnlyJob(t) /\ job'[t].pc \notin Critical
        BY <1>0, <1>c, <4>1 DEF OnlyJob, TypeOK, Jobs
      <4>2. CASE ExistsLock(t)
        BY <1>0, <1>c, <4>2, GotoChanges, FinishChanges DEF ExistsLock
      <4>3. CASE IncrPenalty(t)
        BY <1>0, <1>c, <4>1, <4>3, FinishChanges DEF IncrPenalty
      <4>4. CASE ExpirePenalty(t)
        BY <1>0, <1>c, <4>4, GotoChanges, FinishChanges DEF ExpirePenalty, Continue
      <4> QED
        BY <2>1, <4>2, <4>3, <4>4
    <3> QED
      BY <1>0, <3>1, <3>2, KeepLockerJob
  <2>2. CASE Setnx(t)
    <3>1. CASE Goto(t, "meta") /\ lockKey[e0] = 0 /\ lockKey' = [lockKey EXCEPT ![e0] = KeyFor(job[t].dur)]
      <4>1. KeyFor(job[t].dur) > 1
        BY <1>0 DEF TypeOK, Jobs, KeyFor, Positive
      <4>2. \A u \in Threads : job[u].pc \in Critical => job[u].email # e0
        BY <1>0, <3>1 DEF LInv, Guarded
      <4>3. OnlyJob(t) /\ job'[t].email = e0
        BY <1>0, <2>0, <3>1, GotoChanges
      <4>4. \A u \in Threads : u # t /\ job'[u].pc \in Critical =>
                job[u].pc \in Critical /\ job'[u].email = job[u].email /\ job'[u].email # e0
        BY <4>2, <4>3 DEF OnlyJob
      <4>5. OneLocker'
        BY <4>3, <4>4 DEF OneLocker, LInv
      <4>6. \A e \in Emails \ {e0} : lockKey'[e] = lockKey[e]
        BY <1>0, <3>1 DEF TypeOK
      <4>7. lockKey'[e0] > 1
        BY <1>0, <3>1, <4>1 DEF TypeOK
      <4>8. Guarded'
        <5> SUFFICES ASSUME NEW u \in Threads, job'[u].pc \in Critical
                     PROVE  lockKey'[job'[u].email] > 1
          BY DEF Guarded
        <5>1. CASE u = t
          BY <4>3, <4>7, <5>1
        <5>2. CASE u # t
          <6>1. job[u].pc \in Critical /\ job'[u].email = job[u].email /\ job[u].email \in Emails \ {e0}
            BY <1>0, <4>4, <5>2 DEF TypeOK, Jobs
          <6>2. lockKey[job[u].email] > 1
            BY <6>1 DEF LInv, Guarded
          <6> QED
            BY <4>6, <6>1, <6>2
        <5> QED
          BY <5>1, <5>2
      <4> QED
        BY <1>0, <4>5, <4>8 DEF LInv
    <3>2. CASE Finish(t)
      <4>1. OnlyJob(t) /\ job'[t].pc \notin Critical
        BY <1>0, <1>c, <3>2, FinishChanges
      <4>2. \/ UNCHANGED lockKey
            \/ lockKey[e0] = 0 /\ lockKey' = [lockKey EXCEPT ![e0] = KeyFor(job[t].dur)]
        BY <2>0, <2>2 DEF Setnx
      <4>3. \A e \in Emails : lockKey[e] > 1 => lockKey'[e] > 1
        <5>1. lockKey \in [Emails -> Nat]
          BY <1>0 DEF TypeOK, Times
        <5> QED
          BY <4>2, <5>1
      <4> QED
        BY <1>0, <4>1, <4>3, KeepLockerJob
    <3> QED
      <4>1. \/ Finish(t)
            \/ Goto(t, "meta") /\ lockKey[e0] = 0 /\ lockKey' = [lockKey EXCEPT ![e0] = KeyFor(job[t].dur)]
        BY <2>0, <2>2 DEF Setnx, TakesEffect
      <4> QED
        BY <3>1, <3>2, <4>1
  <2>3. CASE StoreMeta(t) \/ Schedule(t) \/ LockAccount(t)
    <3>1. UNCHANGED lockKey /\ job[t].pc \in Critical
      BY <2>3, <1>c DEF StoreMeta, Schedule, LockAccount, redisVars, At
    <3>2. OnlyJob(t) /\ (job'[t].pc \in Critical => job'[t].email = job[t].email)
      BY <1>0, <1>c, <2>3, GotoChanges, FinishChanges DEF StoreMeta, Schedule, LockAccount, Continue
    <3> QED
      BY <1>0, <3>1, <3>2, KeepLockerJob
  <2> QED
    BY <1>4, <2>1, <2>2, <2>3 DEF LockJob
<1>5. ASSUME NEW t \in Threads, UnlockJob(t) PROVE LInv'
  <2>0. PICK e0 \in Emails : e0 = job[t].email
    BY <1>0 DEF TypeOK, Jobs
  <2>1. OnlyJob(t) /\ job'[t].pc \notin Critical
    <3>1. CASE LoadMeta(t)
      <4>1. ASSUME NEW b,
                   job' = [job EXCEPT ![t].meta = b, ![t].pc =
                             IF ~Forced(t) THEN "recheck"
                             ELSE IF manager THEN "unlockAccount" ELSE "clearLock"]
            PROVE  OnlyJob(t) /\ job'[t].pc \notin Critical
        BY <1>0, <1>c, <4>1 DEF OnlyJob, TypeOK, Jobs
      <4>2. \/ Goto(t, "retry")
            \/ \E b : job' = [job EXCEPT ![t].meta = b, ![t].pc =
                                IF ~Forced(t) THEN "recheck"
                                ELSE IF manager THEN "unlockAccount" ELSE "clearLock"]
        BY <3>1, Zenon DEF LoadMeta
      <4>3. CASE Goto(t, "retry")
        BY <1>0, <1>c, <4>3, GotoChanges
      <4>4. ASSUME ~Goto(t, "retry") PROVE OnlyJob(t) /\ job'[t].pc \notin Critical
        <5>1. PICK b : job' = [job EXCEPT ![t].meta = b, ![t].pc =
                         IF ~Forced(t) THEN "recheck"
                         ELSE IF manager THEN "unlockAccount" ELSE "clearLock"]
          BY <4>2, <4>4
        <5> QED
          BY <4>1, <5>1, Zenon
      <4> QED
        BY <4>3, <4>4
    <3>2. CASE Recheck(t)
      <4>1. \/ Goto(t, "retry") \/ Goto(t, "unlockAccount") \/ Goto(t, "extend")
            \/ Finish(t)
        BY <3>2 DEF Recheck
      <4> QED
        BY <1>0, <1>c, <4>1, GotoChanges, FinishChanges
    <3>3. CASE Extend(t) \/ ExtendMeta(t)
      BY <1>0, <1>c, <3>3, GotoChanges, FinishChanges DEF Extend, ExtendMeta
    <3>4. CASE UnlockAccount(t) \/ MarkRetry(t)
      BY <1>0, <1>c, <3>4, GotoChanges, FinishChanges DEF UnlockAccount, MarkRetry
    <3> QED
      BY <1>5, <3>1, <3>2, <3>3, <3>4 DEF UnlockJob
  <2>2. \/ UNCHANGED lockKey
        \/ lockKey' = [lockKey EXCEPT ![e0] = KeyFor(LockDuration)]
        \/ lockKey' = [lockKey EXCEPT ![e0] = KeyFor(RetryTtl)]
    BY <1>5, <2>0 DEF UnlockJob, LoadMeta, Recheck, Extend, ExtendMeta, UnlockAccount,
                      MarkRetry, redisVars
  <2>3. KeyFor(LockDuration) > 1 /\ KeyFor(RetryTtl) > 1
    BY LifecycleAssumption DEF KeyFor, Positive
  <2>4. \A e \in Emails : lockKey[e] > 1 => lockKey'[e] > 1
    BY <1>0, <2>2, <2>3 DEF TypeOK
  <2> QED
    BY <1>0, <2>1, <2>4, KeepLockerJob
<1>6. CASE Listen
  <2>1. Listener \in Threads /\ UNCHANGED lockKey
    BY <1>6, ThreadTypes DEF Listen, Poll, Remove, PushUnlock, redisVars
  <2>2. OnlyJob(Listener) /\ job'[Listener].pc \notin Critical
    <3>1. ASSUME NEW e,
                 job' = [job EXCEPT ![Listener].pc = "pushUnlock", ![Listener].email = e]
          PROVE  OnlyJob(Listener) /\ job'[Listener].pc \notin Critical
      BY <1>0, <1>c, <2>1, <3>1 DEF OnlyJob, TypeOK, Jobs
    <3>2. CASE Poll \/ PushUnlock
      BY <1>0, <1>c, <2>1, <3>2, GotoChanges, FinishChanges DEF Poll, PushUnlock
    <3>3. CASE Remove
      <4>1. \/ \E e : job' = [job EXCEPT ![Listener].pc = "pushUnlock", ![Listener].email = e]
            \/ Goto(Listener, "idle") \/ Goto(Listener, "remove")
        BY <3>3 DEF Remove
      <4> QED
        BY <1>0, <1>c, <2>1, <3>1, <4>1, GotoChanges
    <3> QED
      BY <1>6, <3>2, <3>3 DEF Listen
  <2> QED
    BY <1>0, <2>1, <2>2, KeepLockerJob
<1>7. CASE Tick
  <2>1. UNCHANGED job /\ \A t \in Threads : job[t].pc \notin Critical
    BY <1>7 DEF Tick
  <2> QED
    BY <1>0, <2>1 DEF LInv, Guarded, OneLocker
<1>8. ASSUME NEW e \in Emails, ExpireLock(e) \/ ExpireMeta(e) \/ ForgetPenalty(e) PROVE LInv'
  <2>1. UNCHANGED job /\ \A f \in Emails : lockKey[f] > 1 => lockKey'[f] > 1
    <3>1. UNCHANGED job
      BY <1>8 DEF ExpireLock, ExpireMeta, ForgetPenalty
    <3>2. UNCHANGED lockKey \/ (lockKey[e] = 1 /\ lockKey' = [lockKey EXCEPT ![e] = 0])
      BY <1>8 DEF ExpireLock, ExpireMeta, ForgetPenalty
    <3> QED
      <4>1. lockKey \in [Emails -> Nat]
        BY <1>0 DEF TypeOK, Times
      <4> QED
        BY <3>1, <3>2, <4>1
  <2> QED
    BY <1>0, <2>1, KeepLocker
<1>9. CASE Crash \/ RestartListener
  <2>1. UNCHANGED lockKey /\ \A t \in Threads : job'[t] = job[t] \/ job'[t].pc = "idle"
    <3>1. PICK T : Stop(T)
      BY <1>9 DEF Crash, RestartListener
    <3> QED
      BY <1>0, <3>1 DEF Stop, Stopped, TypeOK, Jobs, redisVars
  <2> QED
    BY <1>0, <1>c, <2>1, KeepLocker
<1> QED
  BY <1>1, <1>2, <1>3, <1>4, <1>5, <1>6, <1>7, <1>8, <1>9 DEF Next, Time

(* At most one task at a time is locking an account, whatever fails,       *)
(* crashes or is repeated, where nobody unlocks by hand (an operator       *)
(* deletes the key under the locker's feet) and a lock takes less than a   *)
(* second.                                                                 *)
THEOREM OneLockerAlways ==
  ASSUME Prompt, Admins = {}
  PROVE  Spec => []OneLocker
<1>1. Init => LInv
  <2>1. Init => \A t \in Threads : job[t].pc = "idle"
    BY DEF Init
  <2> QED
    BY <2>1, InitTypeOK DEF LInv, Guarded, OneLocker, Critical
<1>2. LInv => OneLocker
  BY DEF LInv
<1> QED
  BY <1>1, <1>2, NextLInv, PTL DEF Spec

-----------------------------------------------------------------------------
(* Every penalty will expire.                                              *)

LEMMA NextPenalty ==
  ASSUME MaxFaults = 0, MaxRestarts = 0, TypeOK, faults = 0, restarts = 0,
         PenaltyWillExpire, [Next]_vars
  PROVE  PenaltyWillExpire' /\ faults' = 0 /\ restarts' = 0
<1>o. Outcomes = {"ok"}
  BY DEF Outcomes
<1>c. ASSUME NEW o \in Outcomes, Charge(o) PROVE UNCHANGED <<faults, restarts>>
  BY <1>o, <1>c DEF Charge
<1>k. ASSUME NEW t \in Threads, OnlyJob(t), ~At(t, "expire"), UNCHANGED <<penalty, penaltyKey>>
      PROVE  PenaltyWillExpire'
  BY <1>k DEF PenaltyWillExpire, At, OnlyJob
<1>1. CASE UNCHANGED vars
  BY <1>1 DEF vars, redisVars, budgetVars, PenaltyWillExpire, At
<1>2. ASSUME NEW r \in Requests, NEW e \in Emails, RateLimited(r, e)
      PROVE  PenaltyWillExpire' /\ faults' = 0 /\ restarts' = 0
  <2>1. UNCHANGED <<faults, restarts, job, penalty, penaltyKey>>
    BY <1>2, <1>o, <1>c DEF RateLimited, Raises
  <2> QED
    BY <2>1 DEF PenaltyWillExpire, At
<1>3. ASSUME NEW w \in Workers, Take(w)
      PROVE  PenaltyWillExpire' /\ faults' = 0 /\ restarts' = 0
  <2>1. UNCHANGED <<faults, restarts, penalty, penaltyKey>> /\ w \in Threads /\ ~At(w, "expire")
    BY <1>3, <1>c, ThreadTypes DEF Take, At
  <2>2. OnlyJob(w)
    <3>1. \/ \E step, e : Start(w, step, e)
          \/ UNCHANGED job
      BY <1>3 DEF Take
    <3> QED
      BY <2>1, <3>1, StartChanges DEF OnlyJob
  <2> QED
    BY <1>k, <2>1, <2>2
<1>4. ASSUME NEW t \in Threads, LockJob(t)
      PROVE  PenaltyWillExpire' /\ faults' = 0 /\ restarts' = 0
  <2>0. UNCHANGED <<faults, restarts>>
    BY <1>4, <1>c DEF LockJob, ExistsLock, IncrPenalty, ExpirePenalty, Setnx, StoreMeta,
                      Schedule, LockAccount
  <2>1. CASE ExistsLock(t) \/ Setnx(t) \/ StoreMeta(t) \/ Schedule(t) \/ LockAccount(t)
    <3>1. OnlyJob(t)
      BY <2>1, GotoChanges, FinishChanges
      DEF ExistsLock, Setnx, StoreMeta, Schedule, LockAccount, Continue
    <3>2. ~At(t, "expire") /\ UNCHANGED <<penalty, penaltyKey>>
      BY <2>1 DEF ExistsLock, Setnx, StoreMeta, Schedule, LockAccount, At, redisVars
    <3> QED
      BY <1>k, <2>0, <3>1, <3>2
  <2>2. CASE IncrPenalty(t)
    <3>0. PICK e0 \in Emails : e0 = job[t].email
      BY DEF TypeOK, Jobs
    <3>1. PICK n : /\ penalty' = [penalty EXCEPT ![e0] = n]
                   /\ job' = [job EXCEPT ![t].pc = "expire", ![t].dur = PenaltySteps[n]]
                   /\ UNCHANGED penaltyKey
      BY <2>2, <3>0, <1>o DEF IncrPenalty, Raises
    <3>2. OnlyJob(t) /\ job'[t].pc = "expire" /\ job'[t].email = e0
      BY <3>0, <3>1 DEF TypeOK, Jobs, OnlyJob
    <3>3. ~At(t, "expire")
      BY <2>2 DEF IncrPenalty, At
    <3>4. \A e \in Emails \ {e0} : penalty'[e] = penalty[e]
      BY <3>1 DEF TypeOK
    <3> QED
      <4>1. ASSUME NEW e \in Emails, penalty'[e] > 0
            PROVE  penaltyKey'[e] # 0 \/ \E u \in Threads : (At(u, "expire") /\ job[u].email = e)'
        <5>1. CASE e = e0
          BY <3>2, <5>1 DEF At
        <5>2. CASE e # e0
          <6>1. penalty[e] > 0 /\ penaltyKey'[e] = penaltyKey[e]
            BY <3>1, <3>4, <4>1, <5>2
          <6>2. CASE penaltyKey[e] # 0
            BY <6>1, <6>2
          <6>3. CASE penaltyKey[e] = 0
            <7>1. PICK u \in Threads : At(u, "expire") /\ job[u].email = e
              BY <6>1, <6>3 DEF PenaltyWillExpire
            <7>2. u # t
              BY <3>3, <7>1
            <7>3. job'[u] = job[u]
              BY <3>2, <7>2 DEF OnlyJob
            <7> QED
              BY <7>1, <7>3 DEF At
          <6> QED
            BY <6>2, <6>3
        <5> QED
          BY <5>1, <5>2
      <4> QED
        BY <2>0, <4>1 DEF PenaltyWillExpire
  <2>3. CASE ExpirePenalty(t)
    <3>0. PICK e0 \in Emails : e0 = job[t].email
      BY DEF TypeOK, Jobs
    <3>1. /\ penaltyKey' = IF penalty[e0] > 0
                THEN [penaltyKey EXCEPT ![e0] = KeyFor(PenaltyTtl)] ELSE penaltyKey
          /\ UNCHANGED penalty /\ Goto(t, "setnx")
      BY <2>3, <3>0, <1>o DEF ExpirePenalty, Continue, Raises, TakesEffect
    <3>2. OnlyJob(t) /\ KeyFor(PenaltyTtl) # 0
      BY <3>1, GotoChanges, LifecycleAssumption DEF KeyFor, Positive
    <3>3. ASSUME NEW e \in Emails, penalty'[e] > 0
          PROVE  penaltyKey'[e] # 0 \/ \E u \in Threads : (At(u, "expire") /\ job[u].email = e)'
      <4>1. CASE e = e0
        BY <3>1, <3>2, <3>3, <4>1 DEF TypeOK
      <4>2. CASE e # e0
        <5>1. penaltyKey'[e] = penaltyKey[e]
          BY <3>1, <4>2 DEF TypeOK
        <5> QED
          BY <3>0, <3>1, <3>2, <3>3, <4>2, <5>1 DEF PenaltyWillExpire, OnlyJob, At
      <4> QED
        BY <4>1, <4>2
    <3> QED
      BY <2>0, <3>3 DEF PenaltyWillExpire
  <2> QED
    BY <1>4, <2>1, <2>2, <2>3 DEF LockJob
<1>5. ASSUME NEW t \in Threads, UnlockJob(t)
      PROVE  PenaltyWillExpire' /\ faults' = 0 /\ restarts' = 0
  <2>1. UNCHANGED <<faults, restarts>>
    BY <1>5, <1>c DEF UnlockJob, LoadMeta, Recheck, Extend, ExtendMeta, UnlockAccount, MarkRetry
  <2>2. ~At(t, "expire") /\ UNCHANGED <<penalty, penaltyKey>>
    BY <1>5 DEF UnlockJob, LoadMeta, Recheck, Extend, ExtendMeta, UnlockAccount, MarkRetry,
                At, redisVars
  <2>3. OnlyJob(t)
    <3>1. CASE LoadMeta(t)
      <4>1. \/ Goto(t, "retry")
            \/ \E b, step : job' = [job EXCEPT ![t].meta = b, ![t].pc = step]
        BY <3>1, Zenon DEF LoadMeta
      <4> QED
        BY <4>1, GotoChanges DEF OnlyJob, TypeOK
    <3>2. CASE Recheck(t)
      BY <3>2, GotoChanges, FinishChanges DEF Recheck
    <3>3. CASE Extend(t) \/ ExtendMeta(t)
      BY <3>3, GotoChanges, FinishChanges DEF Extend, ExtendMeta
    <3>4. CASE UnlockAccount(t) \/ MarkRetry(t)
      BY <3>4, GotoChanges, FinishChanges DEF UnlockAccount, MarkRetry
    <3> QED
      BY <1>5, <3>1, <3>2, <3>3, <3>4 DEF UnlockJob
  <2> QED
    BY <1>k, <2>1, <2>2, <2>3
<1>6. CASE Listen
  <2>1. Listener \in Threads /\ UNCHANGED <<faults, restarts, penalty, penaltyKey>>
    BY <1>6, <1>c, ThreadTypes DEF Listen, Poll, Remove, PushUnlock, redisVars, budgetVars
  <2>2. ~At(Listener, "expire")
    BY <1>6 DEF Listen, Poll, Remove, PushUnlock, At
  <2>3. OnlyJob(Listener)
    <3>1. CASE Poll \/ PushUnlock
      BY <2>1, <3>1, GotoChanges, FinishChanges DEF Poll, PushUnlock
    <3>2. CASE Remove
      <4>1. \/ \E e : job' = [job EXCEPT ![Listener].pc = "pushUnlock", ![Listener].email = e]
            \/ Goto(Listener, "idle") \/ Goto(Listener, "remove")
        BY <3>2 DEF Remove
      <4> QED
        BY <2>1, <4>1, GotoChanges DEF OnlyJob, TypeOK
    <3> QED
      BY <1>6, <3>1, <3>2 DEF Listen
  <2> QED
    BY <1>k, <2>1, <2>2, <2>3
<1>7. ASSUME NEW a \in Admins, NEW e \in Emails,
             ManualLock(a, e) \/ ManualUnlock(a, e) \/ ResetPenalty(a, e)
      PROVE  PenaltyWillExpire' /\ faults' = 0 /\ restarts' = 0
  <2>1. a \in Threads /\ ~At(a, "expire") /\ UNCHANGED <<faults, restarts>>
    BY <1>7, ThreadTypes DEF ManualLock, ManualUnlock, ResetPenalty, At, budgetVars
  <2>2. CASE ManualLock(a, e) \/ ManualUnlock(a, e)
    <3>1. OnlyJob(a) /\ UNCHANGED <<penalty, penaltyKey>>
      BY <2>1, <2>2, StartChanges DEF ManualLock, ManualUnlock, redisVars
    <3> QED
      BY <1>k, <2>1, <3>1
  <2>3. CASE ResetPenalty(a, e)
    BY <2>1, <2>3 DEF ResetPenalty, PenaltyWillExpire, At, TypeOK
  <2> QED
    BY <1>7, <2>2, <2>3
<1>8. ASSUME NEW a \in Admins, Clear(a)
      PROVE  PenaltyWillExpire' /\ faults' = 0 /\ restarts' = 0
  <2>1. a \in Threads /\ ~At(a, "expire") /\ UNCHANGED <<penalty, penaltyKey, faults, restarts>>
    BY <1>8, <1>c, ThreadTypes DEF Clear, ClearLock, ClearMeta, ClearSchedule, At
  <2>2. OnlyJob(a)
    BY <1>8, <2>1, GotoChanges, FinishChanges
    DEF Clear, ClearLock, ClearMeta, ClearSchedule, Continue
  <2> QED
    BY <1>k, <2>1, <2>2
<1>9. CASE Tick
  <2>1. UNCHANGED <<faults, restarts, penalty, job>>
    BY <1>9 DEF Tick, budgetVars
  <2>2. \A e \in Emails : penaltyKey[e] # 0 => penaltyKey'[e] # 0
    BY <1>9 DEF Tick, Elapse, TypeOK, Times
  <2> QED
    BY <2>1, <2>2 DEF PenaltyWillExpire, At
<1>10. ASSUME NEW e \in Emails, ExpireLock(e) \/ ExpireMeta(e) \/ ForgetPenalty(e)
       PROVE  PenaltyWillExpire' /\ faults' = 0 /\ restarts' = 0
  <2>1. UNCHANGED <<faults, restarts, job>>
    BY <1>10 DEF ExpireLock, ExpireMeta, ForgetPenalty, budgetVars
  <2>2. \/ UNCHANGED <<penalty, penaltyKey>>
        \/ penaltyKey' = [penaltyKey EXCEPT ![e] = 0] /\ penalty' = [penalty EXCEPT ![e] = 0]
    BY <1>10 DEF ExpireLock, ExpireMeta, ForgetPenalty
  <2> QED
    BY <2>1, <2>2 DEF PenaltyWillExpire, At, TypeOK
<1>11. ~Crash /\ ~RestartListener
  BY DEF Crash, RestartListener, Stop
<1> QED
  BY <1>1, <1>2, <1>3, <1>4, <1>5, <1>6, <1>7, <1>8, <1>9, <1>10, <1>11 DEF Next, Time

(* A penalty counter always has a time to live, or a task is about to give *)
(* it one, where no command fails and nothing is killed between INCR and   *)
(* EXPIRE (handler.py:418-419); a counter without one is left for ever.    *)
THEOREM PenaltyWillExpireAlways ==
  ASSUME MaxFaults = 0, MaxRestarts = 0
  PROVE  Spec => []PenaltyWillExpire
<1> DEFINE PInv == TypeOK /\ faults = 0 /\ restarts = 0 /\ PenaltyWillExpire
<1>1. Init => PInv
  BY InitTypeOK DEF Init, PenaltyWillExpire
<1>2. PInv /\ [Next]_vars => PInv'
  BY NextTypeOK, NextPenalty
<1>3. PInv => PenaltyWillExpire
  OBVIOUS
<1> QED
  BY <1>1, <1>2, <1>3, PTL DEF Spec

-----------------------------------------------------------------------------
(* No account is due for unlocking before its key's last second.           *)

(* Between SET NX and the schedule a lock job's account may have an older  *)
(* entry, which is due; the key it set is as young as it was, so that the  *)
(* entry it writes covers the key.                                         *)
Planning == {"meta", "schedule"}
Planned(e) == \E t \in Threads : job[t].pc \in Planning /\ job[t].email = e
YoungKeys ==
    \A t \in Threads : job[t].pc \in Planning => lockKey[job[t].email] = KeyFor(job[t].dur)
Covered == \A e \in Emails : due[e] # 0 /\ ~Planned(e) => lockKey[e] <= due[e]

(* Nobody extends a lock, marks it for a retry or clears it.               *)
HandsOff == \A t \in Threads : job[t].pc \notin AfterUnlockSteps
Calm == faults = 0 /\ restarts = 0 /\ manager

DInv == TypeOK /\ Calm /\ HandsOff /\ YoungKeys /\ Covered

LEMMA GotoDuration ==
  ASSUME TypeOK, NEW t \in Threads, NEW step, Goto(t, step)
  PROVE  job'[t].dur = job[t].dur
  BY DEF TypeOK, Jobs, Goto

(* A step of a task that plans no unlock, before or after.                 *)
LEMMA KeepCovered ==
  ASSUME DInv, TypeOK', Calm', NEW t \in Threads, OnlyJob(t), UNCHANGED lockKey,
         job[t].pc \notin Planning, job'[t].pc \notin Planning \cup AfterUnlockSteps,
         \A e \in Emails : due'[e] \in {due[e], 0}
  PROVE  DInv'
<1>1. \A u \in Threads : job'[u].pc \in Planning \/ job[u].pc \in Planning => job'[u] = job[u]
  BY DEF OnlyJob
<1>2. HandsOff'
  BY DEF DInv, HandsOff, OnlyJob, AfterUnlockSteps
<1>3. YoungKeys'
  BY <1>1 DEF DInv, YoungKeys
<1>4. \A e \in Emails : Planned(e)' <=> Planned(e)
  BY <1>1 DEF Planned
<1>5. Covered'
  BY <1>4 DEF DInv, Covered
<1> QED
  BY <1>2, <1>3, <1>5 DEF DInv

(* A step that changes no job, and no key but one that goes.               *)
LEMMA KeepCoveredIdle ==
  ASSUME DInv, TypeOK', Calm', UNCHANGED <<job, due>>,
         \A e \in Emails : lockKey'[e] = lockKey[e] \/ (lockKey[e] = 1 /\ lockKey'[e] = 0)
  PROVE  DInv'
<1>1. YoungKeys'
  <2> SUFFICES ASSUME NEW t \in Threads, job[t].pc \in Planning
               PROVE  lockKey'[job[t].email] = KeyFor(job[t].dur)
    BY DEF YoungKeys
  <2>1. PICK e \in Emails, d \in Nat \ {0} : e = job[t].email /\ d = job[t].dur
    BY DEF DInv, TypeOK, Jobs, Positive
  <2>2. lockKey[e] = d + 1
    BY <2>1 DEF DInv, YoungKeys, KeyFor
  <2> QED
    BY <2>1, <2>2 DEF KeyFor
<1>2. Covered'
  <2> SUFFICES ASSUME NEW e \in Emails, due[e] # 0, ~Planned(e)
               PROVE  lockKey'[e] <= due[e]
    BY DEF Covered, Planned
  <2>1. PICK k \in Nat, d \in Nat : k = lockKey[e] /\ d = due[e]
    BY DEF DInv, TypeOK, Times
  <2>2. k <= d
    BY <2>1 DEF DInv, Covered
  <2>3. lockKey'[e] = k \/ lockKey'[e] = 0
    BY <2>1
  <2> QED
    BY <2>1, <2>2, <2>3
<1> QED
  BY <1>1, <1>2 DEF DInv, HandsOff

LEMMA NextDInv ==
  ASSUME Prompt, Admins = {}, MaxFaults = 0, MaxRestarts = 0, TRUE \notin Rechecks,
         DInv, [Next]_vars
  PROVE  DInv'
<1>0. TypeOK /\ TypeOK' /\ Calm /\ HandsOff /\ YoungKeys /\ Covered
  BY NextTypeOK DEF DInv
<1>o. Outcomes = {"ok"}
  BY <1>0 DEF Outcomes, Calm
<1>r. ~Raises("ok") /\ TakesEffect("ok")
  BY DEF Raises, TakesEffect
<1>c. ASSUME NEW o \in Outcomes, Charge(o) PROVE Calm'
  BY <1>0, <1>o, <1>c DEF Charge, Calm
<1>f. \A t \in Threads : ~Forced(t)
  BY DEF Forced
<1>p. /\ Planning = {"meta", "schedule"}
      /\ AfterUnlockSteps = {"extend", "extendMeta", "retry", "clearLock", "clearMeta",
                             "clearSchedule", "dropLock", "dropMeta"}
  BY DEF Planning, AfterUnlockSteps
<1>1. CASE UNCHANGED vars
  <2>1. UNCHANGED <<job, due, lockKey>> /\ Calm'
    BY <1>0, <1>1 DEF vars, redisVars, budgetVars, Calm
  <2> QED
    BY <1>0, <2>1, KeepCoveredIdle
<1>2. ASSUME NEW r \in Requests, NEW e \in Emails, RateLimited(r, e) PROVE DInv'
  <2>1. UNCHANGED <<job, due, lockKey>> /\ Calm'
    BY <1>2, <1>o, <1>r, <1>c DEF RateLimited
  <2> QED
    BY <1>0, <2>1, KeepCoveredIdle
<1>3. ASSUME NEW w \in Workers, Take(w) PROVE DInv'
  <2>1. w \in Threads /\ UNCHANGED <<due, lockKey>> /\ Calm' /\ job[w].pc = "idle"
    BY <1>3, <1>c, ThreadTypes DEF Take, At
  <2>2. \/ Start(w, "exists", Head(tasks).email) \/ Start(w, "load", Head(tasks).email)
        \/ UNCHANGED job
    BY <1>3 DEF Take
  <2>3. CASE UNCHANGED job
    BY <1>0, <2>1, <2>3, KeepCoveredIdle
  <2>4. CASE ~UNCHANGED job
    <3>1. OnlyJob(w) /\ job'[w].pc \in {"exists", "load"}
      BY <1>0, <2>1, <2>2, <2>4, StartChanges
    <3> QED
      BY <1>0, <1>p, <2>1, <3>1, KeepCovered
  <2> QED
    BY <2>3, <2>4
<1>4. ASSUME NEW t \in Threads, LockJob(t) PROVE DInv'
  <2>0. PICK e0 \in Emails, d0 \in Nat \ {0} : e0 = job[t].email /\ d0 = job[t].dur
    BY <1>0 DEF TypeOK, Jobs, Positive
  <2>c. Calm'
    BY <1>4, <1>c DEF LockJob, ExistsLock, IncrPenalty, ExpirePenalty, Setnx, StoreMeta,
                      Schedule, LockAccount
  <2>1. CASE ExistsLock(t) \/ IncrPenalty(t) \/ ExpirePenalty(t) \/ LockAccount(t)
    <3>1. UNCHANGED <<lockKey, due>> /\ job[t].pc \notin Planning
      BY <2>1, <1>p DEF ExistsLock, IncrPenalty, ExpirePenalty, LockAccount, redisVars, At
    <3>2. OnlyJob(t) /\ job'[t].pc \notin Planning \cup AfterUnlockSteps
      <4>1. ASSUME NEW n, job' = [job EXCEPT ![t].pc = "expire", ![t].dur = PenaltySteps[n]]
            PROVE  OnlyJob(t) /\ job'[t].pc \notin Planning \cup AfterUnlockSteps
        BY <1>0, <1>p, <4>1 DEF OnlyJob, TypeOK, Jobs
      <4>2. CASE ExistsLock(t)
        BY <1>0, <1>p, <4>2, GotoChanges, FinishChanges DEF ExistsLock
      <4>3. CASE IncrPenalty(t)
        BY <1>0, <1>p, <4>1, <4>3, FinishChanges DEF IncrPenalty
      <4>4. CASE ExpirePenalty(t)
        BY <1>0, <1>p, <4>4, GotoChanges, FinishChanges DEF ExpirePenalty, Continue
      <4>5. CASE LockAccount(t)
        BY <1>0, <1>p, <4>5, FinishChanges DEF LockAccount
      <4> QED
        BY <2>1, <4>2, <4>3, <4>4, <4>5
    <3> QED
      BY <1>0, <2>c, <3>1, <3>2, KeepCovered
  <2>2. CASE Setnx(t)
    <3>1. CASE lockKey[e0] # 0
      <4>1. Finish(t) /\ UNCHANGED <<lockKey, due>> /\ job[t].pc = "setnx"
        BY <2>0, <2>2, <3>1 DEF Setnx, At
      <4>2. OnlyJob(t) /\ job'[t].pc \in {"idle", "remove"}
        BY <1>0, <4>1, FinishChanges
      <4> QED
        BY <1>0, <1>p, <2>c, <4>1, <4>2, KeepCovered
    <3>2. CASE lockKey[e0] = 0
      <4>1. /\ Goto(t, "meta") /\ lockKey' = [lockKey EXCEPT ![e0] = d0 + 1]
            /\ UNCHANGED due
        BY <2>0, <2>2, <3>2, <1>o, <1>r DEF Setnx, KeyFor
      <4>2. /\ OnlyJob(t) /\ job'[t].pc = "meta" /\ job'[t].email = e0
            /\ job'[t].dur = d0
        BY <1>0, <2>0, <4>1, GotoChanges, GotoDuration
      <4>3. /\ lockKey'[e0] = d0 + 1
            /\ \A e \in Emails \ {e0} : lockKey'[e] = lockKey[e]
        BY <1>0, <4>1 DEF TypeOK
      <4>4. \A u \in Threads : job[u].pc \in Planning => job[u].email # e0
        <5> SUFFICES ASSUME NEW u \in Threads, job[u].pc \in Planning, job[u].email = e0
                     PROVE  FALSE
          OBVIOUS
        <5>1. PICK d \in Nat \ {0} : d = job[u].dur
          BY <1>0 DEF TypeOK, Jobs, Positive
        <5>2. lockKey[e0] = d + 1
          BY <1>0, <5>1 DEF YoungKeys, KeyFor
        <5> QED
          BY <3>2, <5>1, <5>2
      <4>5. YoungKeys'
        <5> SUFFICES ASSUME NEW u \in Threads, job'[u].pc \in Planning
                     PROVE  lockKey'[job'[u].email] = KeyFor(job'[u].dur)
          BY DEF YoungKeys
        <5>1. CASE u = t
          BY <4>2, <4>3, <5>1 DEF KeyFor
        <5>2. CASE u # t
          <6>1. job'[u] = job[u] /\ job[u].email \in Emails \ {e0}
            BY <1>0, <4>2, <4>4, <5>2 DEF OnlyJob, TypeOK, Jobs
          <6> QED
            BY <1>0, <4>3, <6>1 DEF YoungKeys
        <5> QED
          BY <5>1, <5>2
      <4>6. Covered'
        <5> SUFFICES ASSUME NEW e \in Emails, due[e] # 0, ~Planned(e)'
                     PROVE  lockKey'[e] <= due[e]
          BY <4>1 DEF Covered
        <5>1. e # e0
          BY <1>p, <4>2 DEF Planned
        <5>2. ~Planned(e)
          BY <1>p, <2>2, <4>2 DEF Planned, OnlyJob, Setnx, At
        <5> QED
          BY <1>0, <4>3, <5>1, <5>2 DEF Covered
      <4>7. HandsOff'
        BY <1>0, <1>p, <4>2 DEF HandsOff, OnlyJob
      <4> QED
        BY <1>0, <2>c, <4>5, <4>6, <4>7 DEF DInv
    <3> QED
      BY <3>1, <3>2
  <2>3. CASE StoreMeta(t)
    <3>1. Goto(t, "schedule") /\ UNCHANGED <<lockKey, due>> /\ job[t].pc = "meta"
      BY <1>0, <1>o, <1>r, <2>3 DEF StoreMeta, Continue, Calm, At
    <3>2. /\ OnlyJob(t) /\ job'[t].pc = "schedule" /\ job'[t].email = e0 /\ job'[t].dur = d0
      BY <1>0, <2>0, <3>1, GotoChanges, GotoDuration
    <3>3. YoungKeys'
      <4>1. lockKey[e0] = KeyFor(d0)
        BY <1>0, <1>p, <2>0, <3>1 DEF YoungKeys
      <4> QED
        BY <1>0, <3>1, <3>2, <4>1 DEF YoungKeys, OnlyJob
    <3>4. \A e \in Emails : Planned(e)' <=> Planned(e)
      BY <1>p, <2>0, <3>1, <3>2 DEF Planned, OnlyJob
    <3>5. Covered'
      BY <1>0, <3>1, <3>4 DEF Covered
    <3>6. HandsOff'
      BY <1>0, <1>p, <3>2 DEF HandsOff, OnlyJob
    <3> QED
      BY <1>0, <2>c, <3>3, <3>5, <3>6 DEF DInv
  <2>4. CASE Schedule(t)
    <3>1. /\ Goto(t, "lockAccount") /\ due' = [due EXCEPT ![e0] = d0 + 1]
          /\ UNCHANGED lockKey /\ job[t].pc = "schedule"
      BY <1>0, <1>o, <1>r, <2>0, <2>4 DEF Schedule, Continue, Calm, At, KeyFor
    <3>2. OnlyJob(t) /\ job'[t].pc = "lockAccount"
      BY <1>0, <3>1, GotoChanges
    <3>3. YoungKeys'
      BY <1>0, <1>p, <3>1, <3>2 DEF YoungKeys, OnlyJob
    <3>4. lockKey[e0] = d0 + 1
      BY <1>0, <1>p, <2>0, <3>1 DEF YoungKeys, KeyFor
    <3>5. \A e \in Emails \ {e0} : due'[e] = due[e] /\ (Planned(e)' <=> Planned(e))
      <4>1. \A e \in Emails \ {e0} : Planned(e)' <=> Planned(e)
        BY <1>p, <2>0, <3>2 DEF Planned, OnlyJob
      <4> QED
        BY <1>0, <3>1, <4>1 DEF TypeOK
    <3>6. due'[e0] = d0 + 1
      BY <1>0, <3>1 DEF TypeOK
    <3>7. Covered'
      BY <1>0, <2>0, <3>1, <3>4, <3>5, <3>6 DEF Covered
    <3>8. HandsOff'
      BY <1>0, <1>p, <3>2 DEF HandsOff, OnlyJob
    <3> QED
      BY <1>0, <2>c, <3>3, <3>7, <3>8 DEF DInv
  <2> QED
    BY <1>4, <2>1, <2>2, <2>3, <2>4 DEF LockJob
<1>5. ASSUME NEW t \in Threads, UnlockJob(t) PROVE DInv'
  <2>1. LoadMeta(t) \/ Recheck(t) \/ UnlockAccount(t)
    BY <1>0, <1>5, <1>p DEF UnlockJob, Extend, ExtendMeta, MarkRetry, At, HandsOff
  <2>2. Calm' /\ UNCHANGED <<lockKey, due>> /\ job[t].pc \notin Planning
    BY <1>c, <1>p, <2>1 DEF LoadMeta, Recheck, UnlockAccount, redisVars, At
  <2>3. OnlyJob(t) /\ job'[t].pc \notin Planning \cup AfterUnlockSteps
    <3>1. CASE LoadMeta(t)
      <4>1. PICK b : job' = [job EXCEPT ![t].meta = b, ![t].pc = "recheck"]
        BY <1>o, <1>r, <1>f, <3>1 DEF LoadMeta
      <4> QED
        BY <1>0, <1>p, <4>1 DEF OnlyJob, TypeOK, Jobs
    <3>2. CASE Recheck(t)
      <4>1. Goto(t, "unlockAccount")
        BY <1>0, <1>o, <1>r, <3>2 DEF Recheck, Calm
      <4> QED
        BY <1>0, <1>p, <4>1, GotoChanges
    <3>3. CASE UnlockAccount(t)
      <4>1. Finish(t)
        BY <1>o, <1>r, <1>f, <3>3 DEF UnlockAccount
      <4> QED
        BY <1>0, <1>p, <4>1, FinishChanges
    <3> QED
      BY <2>1, <3>1, <3>2, <3>3
  <2> QED
    BY <1>0, <2>2, <2>3, KeepCovered
<1>6. CASE Listen
  <2>1. Listener \in Threads /\ UNCHANGED lockKey /\ Calm' /\ job[Listener].pc \notin Planning
    BY <1>0, <1>6, <1>c, <1>p, ThreadTypes
    DEF Listen, Poll, Remove, PushUnlock, redisVars, budgetVars, At, Calm
  <2>2. OnlyJob(Listener) /\ job'[Listener].pc \notin Planning \cup AfterUnlockSteps
    <3>1. ASSUME NEW e,
                 job' = [job EXCEPT ![Listener].pc = "pushUnlock", ![Listener].email = e]
          PROVE  OnlyJob(Listener) /\ job'[Listener].pc \notin Planning \cup AfterUnlockSteps
      BY <1>0, <1>p, <2>1, <3>1 DEF OnlyJob, TypeOK, Jobs
    <3>2. CASE Poll \/ PushUnlock
      BY <1>0, <1>p, <2>1, <3>2, GotoChanges, FinishChanges DEF Poll, PushUnlock
    <3>3. CASE Remove
      <4>1. \/ \E e : job' = [job EXCEPT ![Listener].pc = "pushUnlock", ![Listener].email = e]
            \/ Goto(Listener, "idle") \/ Goto(Listener, "remove")
        BY <3>3 DEF Remove
      <4> QED
        BY <1>0, <1>p, <2>1, <3>1, <4>1, GotoChanges
    <3> QED
      BY <1>6, <3>2, <3>3 DEF Listen
  <2>3. \A e \in Emails : due'[e] \in {due[e], 0}
    <3>1. UNCHANGED due \/ \E e : due' = [due EXCEPT ![e] = 0]
      BY <1>6 DEF Listen, Poll, Remove, PushUnlock, redisVars
    <3> QED
      BY <1>0, <3>1 DEF TypeOK
  <2> QED
    BY <1>0, <2>1, <2>2, <2>3, KeepCovered
<1>7. CASE Tick
  <2>1. /\ UNCHANGED job /\ Calm' /\ \A t \in Threads : job[t].pc \notin Planning
        /\ lockKey' = Elapse(lockKey, 0) /\ due' = Elapse(due, 1)
        /\ \A e \in Emails : lockKey[e] # 1
    BY <1>0, <1>7, <1>p DEF Tick, Calm, budgetVars, Critical
  <2>2. Covered'
    <3> SUFFICES ASSUME NEW e \in Emails, due'[e] # 0 PROVE lockKey'[e] <= due'[e]
      BY DEF Covered
    <3>1. PICK k \in Nat, d \in Nat : k = lockKey[e] /\ d = due[e]
      BY <1>0 DEF TypeOK, Times
    <3>2. /\ lockKey'[e] = IF k > 0 THEN k - 1 ELSE k
          /\ due'[e] = IF d > 1 THEN d - 1 ELSE d
      BY <2>1, <3>1 DEF Elapse
    <3>3. ~Planned(e)
      BY <2>1 DEF Planned
    <3>4. d # 0 => k <= d
      BY <1>0, <3>1, <3>3 DEF Covered
    <3>5. k # 1
      BY <2>1, <3>1
    <3> QED
      BY <3>2, <3>4, <3>5
  <2> QED
    BY <1>0, <2>1, <2>2 DEF DInv, HandsOff, YoungKeys
<1>8. ASSUME NEW e \in Emails, ExpireLock(e) \/ ExpireMeta(e) \/ ForgetPenalty(e) PROVE DInv'
  <2>1. UNCHANGED <<job, due>> /\ Calm'
    BY <1>0, <1>8 DEF ExpireLock, ExpireMeta, ForgetPenalty, budgetVars, Calm
  <2>2. UNCHANGED lockKey \/ (lockKey[e] = 1 /\ lockKey' = [lockKey EXCEPT ![e] = 0])
    BY <1>8 DEF ExpireLock, ExpireMeta, ForgetPenalty
  <2>3. \A f \in Emails : lockKey'[f] = lockKey[f] \/ (lockKey[f] = 1 /\ lockKey'[f] = 0)
    BY <1>0, <2>2 DEF TypeOK
  <2> QED
    BY <1>0, <2>1, <2>3, KeepCoveredIdle
<1>9. ~Crash /\ ~RestartListener
  BY <1>0 DEF Crash, RestartListener, Stop, Calm
<1> QED
  BY <1>1, <1>2, <1>3, <1>4, <1>5, <1>6, <1>7, <1>8, <1>9 DEF Next, Time

(* The entry in scheduled_unlocks (handler.py:447) is never due while the  *)
(* lock's key (440) has a whole second to live, where nothing fails, no    *)
(* process dies, nobody locks or unlocks by hand and no recheck extends a  *)
(* lock: those write the key without the entry.                            *)
THEOREM NeverDueEarlyAlways ==
  ASSUME Prompt, Admins = {}, MaxFaults = 0, MaxRestarts = 0, TRUE \notin Rechecks
  PROVE  Spec => []NeverDueEarly
<1>1. Init => DInv
  <2> SUFFICES ASSUME Init PROVE DInv
    OBVIOUS
  <2>1. \A t \in Threads : job[t].pc = "idle"
    BY DEF Init
  <2>2. HandsOff /\ YoungKeys
    BY <2>1 DEF HandsOff, YoungKeys, AfterUnlockSteps, Planning
  <2> QED
    BY <2>2, InitTypeOK DEF Init, DInv, Calm, Covered
<1>2. DInv => NeverDueEarly
  <2>1. \A e \in Emails : Planned(e) => Locking(e)
    BY DEF Planned, Planning, Locking, Critical
  <2> QED
    BY <2>1 DEF DInv, Covered, NeverDueEarly
<1> QED
  BY <1>1, <1>2, NextDInv, PTL DEF Spec
-----------------------------------------------------------------------------
(* The lifecycle implements LockObligation.                                *)

(* What a step makes of account e, in the terms of that specification.     *)
Promised(e) ==
    \/ /\ (e \in locked)' <=> e \in locked
       /\ UnlockOwed(e) => UnlockOwed(e)'
       /\ lapse'[e] = lapse[e]
    \/ /\ UnlockOwed(e) \/ lapse[e] # {}
       /\ e \in locked' /\ (UnlockOwed(e)' <=> UnlockOwed(e))
       /\ lapse'[e] = lapse[e]
    \/ /\ UnlockOwed(e)
       /\ e \notin locked' /\ lapse'[e] \in {{}, {"overtaken"}}
    \/ /\ UnlockOwed(e)
       /\ \E cause \in PossibleCauses \ {"overtaken"} :
             /\ lapse'[e] = lapse[e] \cup {cause}
             /\ ~((e \in locked)' <=> e \in locked) => e \notin locked' /\ cause = "failed"

(* Nobody takes the action manager away, and no lapse has a cause, without *)
(* what the configuration needs for it.                                    *)
Excused ==
    /\ manager \/ MaxRestarts > 0
    /\ \A e \in Emails : lapse[e] \subseteq PossibleCauses

RInv == IInv /\ Excused

LEMMA FaultCauses ==
  ASSUME TypeOK, NEW o \in Outcomes, o # "ok"
  PROVE  {"failed", "dropped"} \subseteq PossibleCauses \ {"overtaken"}
<1>1. MaxFaults > 0
  BY LifecycleAssumption DEF Outcomes, TypeOK
<1> QED
  BY <1>1 DEF PossibleCauses

LEMMA OtherCauses ==
  /\ Excused /\ ~manager => "disabled" \in PossibleCauses \ {"overtaken"}
  /\ MaxRestarts > 0 => "killed" \in PossibleCauses \ {"overtaken"}
  /\ TRUE \in Rechecks => "extended" \in PossibleCauses \ {"overtaken"}
  /\ Admins # {} => "cleared" \in PossibleCauses \ {"overtaken"}
  BY DEF PossibleCauses, Excused

LEMMA StillOwed ==
  ASSUME UNCHANGED <<lapse, locked>>, \A e \in Emails : UnlockOwed(e) => UnlockOwed(e)'
  PROVE  \A e \in Emails : Promised(e)
  BY DEF Promised

LEMMA StillCarried ==
  ASSUME NEW t \in Threads, OnlyJob(t), UNCHANGED <<due, tasks>>,
         ~Unlocking(t) \/ (job'[t].pc \in UnlockSteps \cup {"pushUnlock"}
                             /\ job'[t].email = job[t].email)
  PROVE  \A e \in Emails : UnlockOwed(e) => UnlockOwed(e)'
<1>1. \A e \in Emails : Carried(e) => Carried(e)'
  BY CarriedKept
<1> QED
  BY <1>1, OwedMeans DEF UnlockOwed, Carried

(* A step that touches neither the accounts nor the duties.                *)
LEMMA QuietPromise ==
  ASSUME NEW t \in Threads, OnlyJob(t), ~Unlocking(t), UNCHANGED <<due, tasks, lapse, locked>>
  PROVE  \A e \in Emails : Promised(e)
<1>1. \A e \in Emails : UnlockOwed(e) => UnlockOwed(e)'
  BY StillCarried
<1> QED
  BY <1>1, StillOwed

(* A task that goes on with its unlock, or gives it up.                    *)
LEMMA CarrierPromise ==
  ASSUME IInv, NEW t \in Threads, OnlyJob(t), Unlocking(t), job'[t].email = job[t].email,
         UNCHANGED <<due, tasks, locked>>,
         \/ job'[t].pc \in UnlockSteps \cup {"pushUnlock"} /\ UNCHANGED lapse
         \/ \E cause \in PossibleCauses \ {"overtaken"} : Lapse(job[t].email, cause)
  PROVE  \A e \in Emails : Promised(e)
<1>1. CASE job'[t].pc \in UnlockSteps \cup {"pushUnlock"} /\ UNCHANGED lapse
  <2>1. \A e \in Emails : UnlockOwed(e) => UnlockOwed(e)'
    BY <1>1, StillCarried
  <2> QED
    BY <1>1, <2>1, StillOwed
<1>2. ASSUME NEW cause \in PossibleCauses \ {"overtaken"}, Lapse(job[t].email, cause)
      PROVE  \A e \in Emails : Promised(e)
  <2>1. ASSUME NEW e \in Emails, e = job[t].email PROVE Promised(e)
    <3>1. UnlockOwed(e)
      BY <2>1 DEF UnlockOwed
    <3>2. lapse'[e] = lapse[e] \cup {cause}
      BY <1>2, <2>1 DEF Lapse, IInv, TypeOK
    <3> QED
      BY <3>1, <3>2 DEF Promised
  <2>2. ASSUME NEW e \in Emails, e # job[t].email PROVE Promised(e)
    <3>1. lapse'[e] = lapse[e]
      BY <1>2, <2>2 DEF Lapse, IInv, TypeOK
    <3>2. Carried(e) => Carried(e)'
      BY <2>2 DEF Carried, Unlocking, OnlyJob
    <3>3. UnlockOwed(e) => UnlockOwed(e)'
      BY <3>2, OwedMeans DEF UnlockOwed, Carried
    <3> QED
      BY <3>1, <3>3 DEF Promised
  <2> QED
    BY <2>1, <2>2
<1> QED
  BY <1>1, <1>2

LEMMA LockJobPromise ==
  ASSUME RInv, NEW t \in Threads, LockJob(t)
  PROVE  \A e \in Emails : Promised(e)
<1> USE DEF RInv, IInv
<1>1. ASSUME NEW step, At(t, step), step \notin UnlockSteps \cup {"pushUnlock"}
      PROVE  ~Unlocking(t)
  BY <1>1 DEF At, Unlocking
<1>2. CASE ExistsLock(t)
  <2>1. OnlyJob(t)
    BY <1>2, GotoChanges, FinishChanges DEF ExistsLock
  <2>2. ~Unlocking(t) /\ UNCHANGED <<due, tasks, lapse, locked>>
    BY <1>2, <1>1 DEF ExistsLock, UnlockSteps, redisVars
  <2> QED
    BY <2>1, <2>2, QuietPromise
<1>3. CASE IncrPenalty(t)
  <2>1. OnlyJob(t)
    <3>1. ASSUME NEW n, job' = [job EXCEPT ![t].pc = "expire", ![t].dur = PenaltySteps[n]]
          PROVE  OnlyJob(t)
      BY <3>1 DEF OnlyJob, TypeOK, Jobs
    <3> QED
      BY <1>3, <3>1, FinishChanges DEF IncrPenalty
  <2>2. ~Unlocking(t) /\ UNCHANGED <<due, tasks, lapse, locked>>
    BY <1>3, <1>1 DEF IncrPenalty, UnlockSteps
  <2> QED
    BY <2>1, <2>2, QuietPromise
<1>4. CASE ExpirePenalty(t)
  <2>1. OnlyJob(t)
    BY <1>4, GotoChanges, FinishChanges DEF ExpirePenalty, Continue
  <2>2. ~Unlocking(t) /\ UNCHANGED <<due, tasks, lapse, locked>>
    BY <1>4, <1>1 DEF ExpirePenalty, UnlockSteps
  <2> QED
    BY <2>1, <2>2, QuietPromise
<1>5. CASE Setnx(t)
  <2>1. OnlyJob(t)
    BY <1>5, GotoChanges, FinishChanges DEF Setnx
  <2>2. ~Unlocking(t) /\ UNCHANGED <<due, tasks, lapse, locked>>
    BY <1>5, <1>1 DEF Setnx, UnlockSteps
  <2> QED
    BY <2>1, <2>2, QuietPromise
<1>6. CASE StoreMeta(t)
  <2>1. OnlyJob(t)
    BY <1>6, GotoChanges, FinishChanges DEF StoreMeta, Continue
  <2>2. ~Unlocking(t) /\ UNCHANGED <<due, tasks, lapse, locked>>
    BY <1>6, <1>1 DEF StoreMeta, UnlockSteps
  <2> QED
    BY <2>1, <2>2, QuietPromise
<1>7. CASE Schedule(t)
  <2> DEFINE e0 == job[t].email
  <2>1. ~Unlocking(t) /\ UNCHANGED <<tasks, lapse, locked>>
    BY <1>7, <1>1 DEF Schedule, UnlockSteps
  <2>2. PICK o \in Outcomes :
          /\ due' = IF TakesEffect(o) THEN [due EXCEPT ![e0] = KeyFor(job[t].dur)] ELSE due
          /\ Continue(t, o, "lockAccount") \/ Finish(t)
    BY <1>7 DEF Schedule
  <2>3. e0 \in Emails /\ KeyFor(job[t].dur) # 0
    BY DEF TypeOK, Jobs, KeyFor, Positive
  <2>4. \A e \in Emails : due[e] # 0 => due'[e] # 0
    BY <2>2, <2>3 DEF TypeOK
  <2>5. OnlyJob(t)
    BY <2>2, GotoChanges, FinishChanges DEF Continue
  <2>6. \A e \in Emails : Carried(e) => Carried(e)'
    BY <2>1, <2>5, CarriedKept
  <2>7. \A e \in Emails : UnlockOwed(e) => UnlockOwed(e)'
    BY <2>1, <2>4, <2>6, OwedMeans DEF UnlockOwed, Carried
  <2> QED
    BY <2>1, <2>7, StillOwed
<1>8. CASE LockAccount(t)
  <2>1. OnlyJob(t) /\ job'[t].pc \in {"idle", "remove"}
    BY <1>8, FinishChanges DEF LockAccount
  <2>2. ~Unlocking(t) /\ UNCHANGED <<due, tasks, lapse>>
    BY <1>8, <1>1 DEF LockAccount, UnlockSteps, redisVars
  <2>3. \A e \in Emails : Carried(e)' <=> Carried(e)
    <3>1. ~Unlocking(t)'
      BY <2>1 DEF Unlocking, UnlockSteps
    <3> QED
      BY <2>1, <2>2, <3>1 DEF Carried, Unlocking, OnlyJob
  <2>4. \A e \in Emails : UnlockOwed(e)' <=> UnlockOwed(e)
    BY <2>2, <2>3 DEF UnlockOwed, Carried
  <2>5. PICK e0 \in Emails : e0 = job[t].email
    BY DEF TypeOK, Jobs
  <2>6. locked' = locked \/ locked' = locked \cup {e0}
    BY <1>8, <2>5 DEF LockAccount
  <2>7. UnlockOwed(e0) \/ lapse[e0] # {}
    BY <1>8, <2>5 DEF LockAccount, Locker, Accounted
  <2> QED
    BY <2>2, <2>4, <2>6, <2>7 DEF Promised
<1> QED
  BY <1>2, <1>3, <1>4, <1>5, <1>6, <1>7, <1>8 DEF LockJob

LEMMA UnlockJobPromise ==
  ASSUME RInv, NEW t \in Threads, UnlockJob(t)
  PROVE  \A e \in Emails : Promised(e)
<1> USE DEF RInv, IInv
<1>1. CASE LoadMeta(t)
  <2>1. UNCHANGED <<due, tasks, locked>> /\ Unlocking(t)
    BY <1>1 DEF LoadMeta, redisVars, At, Unlocking, UnlockSteps
  <2>2. PICK o \in Outcomes :
        \/ Raises(o) /\ Goto(t, "retry") /\ Lapse(job[t].email, "failed")
        \/ /\ \E b : job' = [job EXCEPT ![t].meta = b, ![t].pc =
                                 IF ~Forced(t) THEN "recheck"
                                 ELSE IF manager THEN "unlockAccount" ELSE "clearLock"]
           /\ IF Forced(t) /\ ~manager THEN Lapse(job[t].email, "disabled") ELSE UNCHANGED lapse
    BY <1>1 DEF LoadMeta
  <2>3. CASE Raises(o) /\ Goto(t, "retry") /\ Lapse(job[t].email, "failed")
    <3>1. "failed" \in PossibleCauses \ {"overtaken"}
      BY <2>3, FaultCauses DEF Raises
    <3> QED
      BY <2>1, <2>3, <3>1, GotoChanges, CarrierPromise
  <2>4. ASSUME IF Forced(t) /\ ~manager THEN Lapse(job[t].email, "disabled") ELSE UNCHANGED lapse,
               NEW b,
               job' = [job EXCEPT ![t].meta = b, ![t].pc =
                         IF ~Forced(t) THEN "recheck"
                         ELSE IF manager THEN "unlockAccount" ELSE "clearLock"]
        PROVE  \A e \in Emails : Promised(e)
    <3>1. /\ OnlyJob(t) /\ job'[t].email = job[t].email
          /\ job'[t].pc = IF ~Forced(t) THEN "recheck"
                          ELSE IF manager THEN "unlockAccount" ELSE "clearLock"
      BY <2>4 DEF OnlyJob, TypeOK, Jobs
    <3>2. CASE Forced(t) /\ ~manager
      BY <2>1, <2>4, <3>1, <3>2, OtherCauses, CarrierPromise
    <3>3. CASE ~(Forced(t) /\ ~manager)
      <4>1. job'[t].pc \in {"unlockAccount", "recheck"} /\ UNCHANGED lapse
        BY <2>4, <3>1, <3>3
      <4> QED
        BY <2>1, <3>1, <4>1, CarrierPromise DEF UnlockSteps
    <3> QED
      BY <3>2, <3>3
  <2> QED
    BY <2>2, <2>3, <2>4
<1>2. CASE Recheck(t)
  <2>1. UNCHANGED <<due, tasks, locked>> /\ Unlocking(t)
    BY <1>2 DEF Recheck, redisVars, At, Unlocking, UnlockSteps
  <2>2. PICK o \in Outcomes :
        \/ Raises(o) /\ Goto(t, "retry") /\ Lapse(job[t].email, "failed")
        \/ Goto(t, "unlockAccount") /\ UNCHANGED lapse
        \/ ~manager /\ Finish(t) /\ Lapse(job[t].email, "disabled")
        \/ TRUE \in Rechecks /\ Goto(t, "extend") /\ Lapse(job[t].email, "extended")
    BY <1>2 DEF Recheck
  <2>3. CASE Raises(o) /\ Goto(t, "retry") /\ Lapse(job[t].email, "failed")
    <3>1. "failed" \in PossibleCauses \ {"overtaken"}
      BY <2>3, FaultCauses DEF Raises
    <3> QED
      BY <2>1, <2>3, <3>1, GotoChanges, CarrierPromise
  <2>4. CASE Goto(t, "unlockAccount") /\ UNCHANGED lapse
    BY <2>1, <2>4, GotoChanges, CarrierPromise DEF UnlockSteps
  <2>5. CASE TRUE \in Rechecks /\ Goto(t, "extend") /\ Lapse(job[t].email, "extended")
    BY <2>1, <2>5, GotoChanges, OtherCauses, CarrierPromise
  <2>6. CASE ~manager /\ Finish(t) /\ Lapse(job[t].email, "disabled")
    <3>1. job'[t].email = job[t].email
      BY <2>6 DEF Finish, Finished, TypeOK, Jobs
    <3> QED
      BY <2>1, <2>6, <3>1, FinishChanges, OtherCauses, CarrierPromise
  <2> QED
    BY <2>2, <2>3, <2>4, <2>5, <2>6
<1>3. CASE Extend(t)
  <2>1. OnlyJob(t)
    BY <1>3, GotoChanges, FinishChanges DEF Extend
  <2>2. ~Unlocking(t) /\ UNCHANGED <<due, tasks, lapse, locked>>
    BY <1>3 DEF Extend, At, Unlocking, UnlockSteps
  <2> QED
    BY <2>1, <2>2, QuietPromise
<1>4. CASE ExtendMeta(t)
  <2>1. OnlyJob(t)
    BY <1>4, GotoChanges, FinishChanges DEF ExtendMeta
  <2>2. ~Unlocking(t) /\ UNCHANGED <<due, tasks, lapse, locked>>
    BY <1>4 DEF ExtendMeta, At, Unlocking, UnlockSteps
  <2> QED
    BY <2>1, <2>2, QuietPromise
<1>5. CASE MarkRetry(t)
  <2>1. OnlyJob(t)
    BY <1>5, FinishChanges DEF MarkRetry
  <2>2. ~Unlocking(t) /\ UNCHANGED <<due, tasks, lapse, locked>>
    BY <1>5 DEF MarkRetry, At, Unlocking, UnlockSteps
  <2> QED
    BY <2>1, <2>2, QuietPromise
<1>6. CASE UnlockAccount(t)
  <2>0. PICK e0 \in Emails : e0 = job[t].email
    BY DEF TypeOK, Jobs
  <2>1. UNCHANGED <<due, tasks>> /\ Unlocking(t)
    BY <1>6 DEF UnlockAccount, redisVars, At, Unlocking, UnlockSteps
  <2>2. PICK o \in Outcomes :
          /\ locked' = IF TakesEffect(o) THEN locked \ {e0} ELSE locked
          /\ lapse' = [lapse EXCEPT ![e0] =
                  IF Raises(o) THEN @ \cup {"failed"}
                  ELSE IF Overtakes(t, e0) THEN {"overtaken"} ELSE {}]
          /\ IF Raises(o) THEN Goto(t, "retry")
             ELSE IF Forced(t) THEN Goto(t, "clearLock") ELSE Finish(t)
    BY <1>6, <2>0 DEF UnlockAccount
  <2>3. OnlyJob(t)
    BY <2>2, GotoChanges, FinishChanges
  <2>4. ASSUME NEW e \in Emails \ {e0} PROVE Promised(e)
    <3>1. lapse'[e] = lapse[e] /\ ((e \in locked)' <=> e \in locked)
      BY <2>2, <2>4 DEF TypeOK
    <3>2. Carried(e) => Carried(e)'
      BY <2>0, <2>3, <2>4 DEF Carried, OnlyJob, Unlocking
    <3>3. UnlockOwed(e) => UnlockOwed(e)'
      BY <2>1, <3>2, OwedMeans DEF UnlockOwed, Carried
    <3> QED
      BY <3>1, <3>3 DEF Promised
  <2>5. Promised(e0)
    <3>1. UnlockOwed(e0)
      BY <2>0, <2>1 DEF UnlockOwed
    <3>2. CASE Raises(o)
      <4>1. "failed" \in PossibleCauses \ {"overtaken"}
        BY <3>2, FaultCauses DEF Raises
      <4>2. lapse'[e0] = lapse[e0] \cup {"failed"}
        BY <2>2, <3>2 DEF TypeOK
      <4>3. (e0 \in locked)' => e0 \in locked
        BY <2>2
      <4> QED
        BY <3>1, <4>1, <4>2, <4>3 DEF Promised
    <3>3. CASE ~Raises(o)
      <4>1. e0 \notin locked' /\ lapse'[e0] \in {{}, {"overtaken"}}
        BY <2>2, <3>3 DEF TypeOK, Raises, TakesEffect
      <4> QED
        BY <3>1, <4>1 DEF Promised
    <3> QED
      BY <3>2, <3>3
  <2> QED
    BY <2>4, <2>5
<1> QED
  BY <1>1, <1>2, <1>3, <1>4, <1>5, <1>6 DEF UnlockJob

LEMMA EventsPromise ==
  ASSUME RInv,
         \/ \E r \in Requests, e \in Emails : RateLimited(r, e)
         \/ \E w \in Workers : Take(w)
         \/ Listen
  PROVE  \A e \in Emails : Promised(e)
<1> USE DEF RInv, IInv
<1>1. ASSUME NEW r \in Requests, NEW e0 \in Emails, RateLimited(r, e0)
      PROVE  \A e \in Emails : Promised(e)
  <2>1. PICK evs \in Seq(Events) : tasks' = tasks \o evs
    <3>1. /\ << >> \in Seq(Events) /\ <<LockEvent(e0)>> \in Seq(Events)
          /\ <<LockEvent(e0), LockEvent(e0)>> \in Seq(Events)
      BY DEF Events, LockEvent
    <3> QED
      BY <1>1, <3>1 DEF RateLimited
  <2>2. Start(r, "exists", e0) \/ UNCHANGED job
    BY <1>1 DEF RateLimited
  <2>3. r \in Threads /\ ~Unlocking(r)
    BY <1>1 DEF RateLimited, Threads, At, Unlocking, UnlockSteps
  <2>4. OnlyJob(r)
    BY <1>1, <2>2, <2>3, StartChanges DEF RateLimited, OnlyJob
  <2>5. UNCHANGED <<due, locked, lapse>>
    BY <1>1 DEF RateLimited
  <2>6. \A e \in Emails : UnlockOwed(e) => UnlockOwed(e)'
    <3>1. \A e \in Emails : Carried(e) => Carried(e)'
      BY <2>3, <2>4, CarriedKept
    <3>2. \A e \in Emails : Queued(e) => Queued(e)'
      BY <2>1, QueuedKept
    <3> QED
      BY <2>5, <3>1, <3>2, OwedMeans DEF UnlockOwed, Carried, Queued
  <2> QED
    BY <2>5, <2>6, StillOwed
<1>2. ASSUME NEW w \in Workers, Take(w) PROVE \A e \in Emails : Promised(e)
  <2>1. /\ UNCHANGED <<due, locked>> /\ tasks' = Tail(tasks) /\ tasks # << >>
        /\ w \in Threads /\ ~Unlocking(w)
    BY <1>2 DEF Take, Threads, At, Unlocking, UnlockSteps
  <2>2. PICK ev \in Events : ev = tasks[1]
    BY <2>1 DEF TypeOK
  <2>3. \/ /\ Start(w, IF ev.kind = "lock" THEN "exists" ELSE "load", ev.email)
           /\ UNCHANGED lapse
        \/ /\ UNCHANGED job
           /\ IF ev.kind = "unlock"
                THEN \E c \in PossibleCauses \ {"overtaken"} : Lapse(ev.email, c)
                ELSE UNCHANGED lapse
    <3>1. Head(tasks) = ev
      BY <2>1, <2>2 DEF TypeOK
    <3>2. PICK o \in Outcomes :
            IF o = "ok" /\ (ev.kind = "lock" \/ manager)
              THEN /\ Start(w, IF ev.kind = "lock" THEN "exists" ELSE "load", ev.email)
                   /\ UNCHANGED lapse
              ELSE /\ UNCHANGED job
                   /\ IF ev.kind = "unlock"
                        THEN Lapse(ev.email, IF o = "ok" THEN "disabled" ELSE "dropped")
                        ELSE UNCHANGED lapse
      BY <1>2, <3>1 DEF Take
    <3>3. o # "ok" => "dropped" \in PossibleCauses \ {"overtaken"}
      BY FaultCauses
    <3>4. ~manager => "disabled" \in PossibleCauses \ {"overtaken"}
      BY OtherCauses
    <3> QED
      BY <3>2, <3>3, <3>4 DEF Events
  <2>4. OnlyJob(w)
    BY <2>1, <2>3, StartChanges DEF OnlyJob
  <2>5. ASSUME NEW e \in Emails, due[e] # 0 \/ Carried(e) PROVE UnlockOwed(e)'
    BY <2>1, <2>4, <2>5, CarriedKept, OwedMeans DEF UnlockOwed, Carried
  <2>6. ASSUME NEW e \in Emails, ev # UnlockEvent(e) PROVE UnlockOwed(e) => UnlockOwed(e)'
    <3>1. SUFFICES ASSUME Queued(e) PROVE UnlockOwed(e)'
      BY <2>5, OwedMeans
    <3>2. PICK i \in 1 .. Len(tasks) : tasks[i] = UnlockEvent(e)
      BY <3>1 DEF Queued
    <3>3. i # 1
      BY <2>2, <2>6, <3>2
    <3>4. i - 1 \in 1 .. Len(tasks') /\ tasks'[i - 1] = tasks[i]
      BY <2>1, <3>2, <3>3 DEF TypeOK
    <3> QED
      BY <3>2, <3>4 DEF UnlockOwed, UnlockEvent
  <2>7. ASSUME NEW e \in Emails, ev # UnlockEvent(e) PROVE Promised(e)
    <3>1. ev.kind = "unlock" => ev.email # e
      BY <2>7 DEF Events, UnlockEvent
    <3>2. lapse'[e] = lapse[e]
      BY <2>3, <3>1 DEF Lapse, TypeOK
    <3> QED
      BY <2>1, <2>6, <2>7, <3>2 DEF Promised
  <2>8. ASSUME NEW e \in Emails, ev = UnlockEvent(e) PROVE Promised(e)
    <3>1. ev.kind = "unlock" /\ ev.email = e
      BY <2>8 DEF UnlockEvent
    <3>2. UnlockOwed(e)
      <4>1. 1 \in 1 .. Len(tasks)
        BY <2>1 DEF TypeOK
      <4> QED
        BY <2>2, <2>8, <4>1 DEF UnlockOwed
    <3>3. CASE Start(w, "load", e) /\ UNCHANGED lapse
      <4>1. UnlockOwed(e)'
        BY <2>1, <3>3, StartChanges DEF UnlockOwed, Unlocking, UnlockSteps
      <4> QED
        BY <2>1, <3>3, <4>1 DEF Promised
    <3>4. ASSUME NEW c \in PossibleCauses \ {"overtaken"}, Lapse(e, c) PROVE Promised(e)
      <4>1. lapse'[e] = lapse[e] \cup {c}
        BY <3>4 DEF Lapse, TypeOK
      <4> QED
        BY <2>1, <3>2, <4>1 DEF Promised
    <3> QED
      BY <2>3, <3>1, <3>3, <3>4
  <2> QED
    BY <2>7, <2>8
<1>3. CASE Poll
  <2>1. OnlyJob(Listener) /\ Listener \in Threads
    BY <1>3, GotoChanges DEF Poll, Threads
  <2>2. ~Unlocking(Listener) /\ UNCHANGED <<due, tasks, lapse, locked>>
    BY <1>3 DEF Poll, At, Unlocking, UnlockSteps, redisVars
  <2> QED
    BY <2>1, <2>2, QuietPromise
<1>4. CASE Remove
  <2>1. PICK e0 \in Emails, o \in Outcomes :
          LET removes == due[e0] # 0 /\ TakesEffect(o)
              rest == batch \ {e0}
          IN /\ due' = IF removes THEN [due EXCEPT ![e0] = 0] ELSE due
             /\ IF removes /\ o = "ok"
                  THEN /\ job' = [job EXCEPT ![Listener].pc = "pushUnlock",
                                             ![Listener].email = e0]
                       /\ UNCHANGED lapse
                  ELSE /\ Goto(Listener, IF Raises(o) \/ rest = {} THEN "idle" ELSE "remove")
                       /\ IF removes THEN Lapse(e0, "dropped") ELSE UNCHANGED lapse
    BY <1>4 DEF Remove, TypeOK
  <2>2. /\ UNCHANGED <<tasks, locked>> /\ Listener \in Threads /\ ~Unlocking(Listener)
    BY <1>4 DEF Remove, Threads, At, Unlocking, UnlockSteps
  <2>3. ASSUME job' = [job EXCEPT ![Listener].pc = "pushUnlock", ![Listener].email = e0]
        PROVE  /\ OnlyJob(Listener) /\ job'[Listener].pc = "pushUnlock"
               /\ job'[Listener].email = e0
    BY <2>2, <2>3 DEF OnlyJob, TypeOK, Jobs
  <2>4. OnlyJob(Listener)
    BY <2>1, <2>2, <2>3, GotoChanges
  <2>5. ASSUME NEW e \in Emails, Carried(e) \/ Queued(e) PROVE UnlockOwed(e)'
    BY <2>2, <2>4, <2>5, CarriedKept, OwedMeans DEF UnlockOwed, Carried, Queued
  <2>6. ASSUME NEW e \in Emails, e # e0 PROVE Promised(e)
    <3>1. due'[e] = due[e] /\ lapse'[e] = lapse[e]
      BY <2>1, <2>6 DEF Lapse, TypeOK
    <3>2. UnlockOwed(e) => UnlockOwed(e)'
      BY <2>5, <3>1, OwedMeans DEF UnlockOwed
    <3> QED
      BY <2>2, <3>1, <3>2 DEF Promised
  <2>7. Promised(e0)
    <3>1. CASE due[e0] # 0 /\ o = "ok"
      <4>1. UNCHANGED lapse /\ job'[Listener].pc = "pushUnlock" /\ job'[Listener].email = e0
        BY <2>1, <2>3, <3>1 DEF TakesEffect
      <4>2. UnlockOwed(e0)'
        BY <2>2, <4>1 DEF UnlockOwed, Unlocking
      <4> QED
        BY <2>2, <4>1, <4>2 DEF Promised
    <3>2. CASE due[e0] # 0 /\ TakesEffect(o) /\ o # "ok"
      <4>1. Lapse(e0, "dropped") /\ "dropped" \in PossibleCauses \ {"overtaken"}
        BY <2>1, <3>2, FaultCauses
      <4>2. lapse'[e0] = lapse[e0] \cup {"dropped"} /\ UnlockOwed(e0)
        BY <3>2, <4>1 DEF Lapse, TypeOK, UnlockOwed
      <4> QED
        BY <2>2, <4>1, <4>2 DEF Promised
    <3>3. CASE ~(due[e0] # 0 /\ TakesEffect(o))
      <4>1. UNCHANGED <<due, lapse>>
        BY <2>1, <3>3
      <4>2. UnlockOwed(e0) => UnlockOwed(e0)'
        BY <2>5, <4>1, OwedMeans DEF UnlockOwed
      <4> QED
        BY <2>2, <4>1, <4>2 DEF Promised
    <3> QED
      BY <3>1, <3>2, <3>3
  <2> QED
    BY <2>6, <2>7
<1>5. CASE PushUnlock
  <2>0. PICK e0 \in Emails : e0 = job[Listener].email
    BY DEF TypeOK, Jobs, Threads
  <2>1. PICK o \in Outcomes :
          /\ tasks' = tasks \o (CASE o = "lost" -> << >>
                                  [] o = "twice" -> <<UnlockEvent(e0), UnlockEvent(e0)>>
                                  [] OTHER -> <<UnlockEvent(e0)>>)
          /\ IF Raises(o) THEN Goto(Listener, "load") ELSE Finish(Listener)
    BY <1>5, <2>0 DEF PushUnlock
  <2>2. UNCHANGED <<due, locked, lapse>> /\ Listener \in Threads
    BY <1>5 DEF PushUnlock, Threads
  <2>3. PICK evs \in Seq(Events) :
          tasks' = tasks \o evs /\ (~Raises(o) => evs # << >> /\ evs[1] = UnlockEvent(e0))
    <3>1. /\ << >> \in Seq(Events) /\ <<UnlockEvent(e0)>> \in Seq(Events)
          /\ <<UnlockEvent(e0), UnlockEvent(e0)>> \in Seq(Events)
      BY DEF Events, UnlockEvent
    <3> QED
      BY <2>1, <3>1 DEF Raises
  <2>4. OnlyJob(Listener)
    BY <2>1, <2>2, GotoChanges, FinishChanges
  <2>5. \A e \in Emails : Queued(e) => Queued(e)'
    BY <2>3, QueuedKept
  <2>6. \A e \in Emails : Carried(e) /\ e # e0 => Carried(e)'
    BY <2>0, <2>4 DEF Carried, OnlyJob, Unlocking
  <2>7. UnlockOwed(e0)'
    <3>1. CASE Raises(o)
      BY <2>0, <2>1, <2>2, <3>1, GotoChanges DEF UnlockOwed, Unlocking, UnlockSteps
    <3>2. CASE ~Raises(o)
      <4>1. Len(tasks) + 1 \in 1 .. Len(tasks') /\ tasks'[Len(tasks) + 1] = UnlockEvent(e0)
        BY <2>3, <3>2 DEF TypeOK
      <4> QED
        BY <4>1 DEF UnlockOwed, UnlockEvent
    <3> QED
      BY <3>1, <3>2
  <2>8. ASSUME NEW e \in Emails, UnlockOwed(e) PROVE UnlockOwed(e)'
    <3>1. CASE e = e0
      BY <2>7, <3>1
    <3>2. CASE e # e0
      BY <2>2, <2>5, <2>6, <2>8, <3>2, OwedMeans DEF UnlockOwed, Carried, Queued
    <3> QED
      BY <3>1, <3>2
  <2> QED
    BY <2>2, <2>8, StillOwed
<1> QED
  BY <1>1, <1>2, <1>3, <1>4, <1>5 DEF Listen

LEMMA OperatorPromise ==
  ASSUME RInv,
         \/ \E a \in Admins, e \in Emails :
               ManualLock(a, e) \/ ManualUnlock(a, e) \/ ResetPenalty(a, e)
         \/ \E a \in Admins : Clear(a)
  PROVE  \A e \in Emails : Promised(e)
<1> USE DEF RInv, IInv
<1>adm. Admins \subseteq Threads
  BY DEF Threads
<1>1. ASSUME NEW a \in Admins, NEW e0 \in Emails, ManualLock(a, e0) \/ ManualUnlock(a, e0)
      PROVE  \A e \in Emails : Promised(e)
  <2>1. OnlyJob(a)
    BY <1>1, <1>adm, StartChanges DEF ManualLock, ManualUnlock
  <2>2. ~Unlocking(a) /\ UNCHANGED <<due, tasks, lapse, locked>>
    BY <1>1 DEF ManualLock, ManualUnlock, At, Unlocking, UnlockSteps, redisVars
  <2> QED
    BY <1>adm, <2>1, <2>2, QuietPromise
<1>2. ASSUME NEW a \in Admins, NEW e0 \in Emails, ResetPenalty(a, e0)
      PROVE  \A e \in Emails : Promised(e)
  <2>1. UNCHANGED <<due, tasks, lapse, locked, job>>
    BY <1>2 DEF ResetPenalty
  <2> QED
    BY <2>1, StillOwed DEF UnlockOwed, Unlocking
<1>3. ASSUME NEW a \in Admins, ClearLock(a) \/ ClearMeta(a)
      PROVE  \A e \in Emails : Promised(e)
  <2>1. OnlyJob(a)
    BY <1>3, <1>adm, GotoChanges, FinishChanges DEF ClearLock, ClearMeta, Continue
  <2>2. ~Unlocking(a) /\ UNCHANGED <<due, tasks, lapse, locked>>
    BY <1>3 DEF ClearLock, ClearMeta, At, Unlocking, UnlockSteps
  <2> QED
    BY <1>adm, <2>1, <2>2, QuietPromise
<1>4. ASSUME NEW a \in Admins, ClearSchedule(a) PROVE \A e \in Emails : Promised(e)
  <2>0. PICK e0 \in Emails : e0 = job[a].email
    BY <1>adm DEF TypeOK, Jobs
  <2>1. /\ UNCHANGED <<tasks, locked>> /\ ~Unlocking(a)
        /\ \/ UNCHANGED <<due, lapse>>
           \/ due[e0] # 0 /\ due' = [due EXCEPT ![e0] = 0] /\ Lapse(e0, "cleared")
    BY <1>4, <2>0 DEF ClearSchedule, At, Unlocking, UnlockSteps
  <2>2. OnlyJob(a)
    BY <1>4, <1>adm, FinishChanges DEF ClearSchedule
  <2>3. ASSUME NEW e \in Emails, Carried(e) \/ Queued(e) PROVE UnlockOwed(e)'
    BY <1>adm, <2>1, <2>2, <2>3, CarriedKept, OwedMeans DEF UnlockOwed, Carried, Queued
  <2>4. ASSUME NEW e \in Emails, due'[e] = due[e], lapse'[e] = lapse[e] PROVE Promised(e)
    <3>1. UnlockOwed(e) => UnlockOwed(e)'
      BY <2>3, <2>4, OwedMeans DEF UnlockOwed
    <3> QED
      BY <2>1, <2>4, <3>1 DEF Promised
  <2>5. CASE UNCHANGED <<due, lapse>>
    BY <2>4, <2>5
  <2>6. CASE due[e0] # 0 /\ due' = [due EXCEPT ![e0] = 0] /\ Lapse(e0, "cleared")
    <3>1. \A e \in Emails : e # e0 => due'[e] = due[e] /\ lapse'[e] = lapse[e]
      BY <2>6 DEF Lapse, TypeOK
    <3>2. UnlockOwed(e0) /\ lapse'[e0] = lapse[e0] \cup {"cleared"}
      BY <2>6 DEF Lapse, TypeOK, UnlockOwed
    <3>3. Promised(e0)
      BY <1>4, <2>1, <3>2, OtherCauses DEF Promised
    <3> QED
      BY <2>4, <3>1, <3>3
  <2> QED
    BY <2>1, <2>5, <2>6
<1> QED
  BY <1>1, <1>2, <1>3, <1>4 DEF Clear

LEMMA EnvironmentPromise ==
  ASSUME RInv, Time \/ Crash \/ RestartListener
  PROVE  \A e \in Emails : Promised(e)
<1> USE DEF RInv, IInv
<1>1. CASE Tick
  <2>1. UNCHANGED <<tasks, locked, job, lapse>>
    BY <1>1 DEF Tick
  <2>2. \A e \in Emails : due[e] # 0 => due'[e] # 0
    BY <1>1 DEF Tick, Elapse, TypeOK, Times
  <2> QED
    BY <2>1, <2>2, StillOwed DEF UnlockOwed, Unlocking
<1>2. ASSUME NEW e0 \in Emails, ExpireLock(e0) \/ ExpireMeta(e0) \/ ForgetPenalty(e0)
      PROVE  \A e \in Emails : Promised(e)
  <2>1. UNCHANGED <<due, tasks, locked, job, lapse>>
    BY <1>2 DEF ExpireLock, ExpireMeta, ForgetPenalty
  <2> QED
    BY <2>1, StillOwed DEF UnlockOwed, Unlocking
<1>3. ASSUME NEW T \in SUBSET Threads, Stop(T) PROVE \A e \in Emails : Promised(e)
  <2>1. UNCHANGED <<due, tasks, locked>>
    BY <1>3 DEF Stop, redisVars
  <2>2. \A t \in Threads \ T : job'[t] = job[t]
    BY <1>3 DEF Stop, Stopped
  <2>3. MaxRestarts > 0
    BY <1>3, LifecycleAssumption DEF Stop, TypeOK
  <2>4. ASSUME NEW e \in Emails, NEW t \in T, Unlocking(t), job[t].email = e
        PROVE  Promised(e)
    <3>1. lapse'[e] = lapse[e] \cup {"killed"}
      BY <1>3, <2>4 DEF Stop
    <3>2. UnlockOwed(e)
      BY <2>4 DEF UnlockOwed
    <3> QED
      BY <2>1, <2>3, <3>1, <3>2, OtherCauses DEF Promised
  <2>5. ASSUME NEW e \in Emails, ~\E t \in T : Unlocking(t) /\ job[t].email = e
        PROVE  Promised(e)
    <3>1. lapse'[e] = lapse[e]
      BY <1>3, <2>5 DEF Stop
    <3>2. Carried(e) => Carried(e)'
      BY <2>2, <2>5 DEF Carried, Unlocking
    <3>3. UnlockOwed(e) => UnlockOwed(e)'
      BY <2>1, <3>2, OwedMeans DEF UnlockOwed, Carried
    <3> QED
      BY <2>1, <3>1, <3>3 DEF Promised
  <2> QED
    BY <2>4, <2>5
<1> QED
  BY <1>1, <1>2, <1>3 DEF Time, Crash, RestartListener, Threads

LEMMA NextPromise == RInv /\ [Next]_vars => \A e \in Emails : Promised(e)
<1> SUFFICES ASSUME RInv, [Next]_vars PROVE \A e \in Emails : Promised(e)
  OBVIOUS
<1>1. CASE UNCHANGED vars
  BY <1>1, StillOwed DEF vars, redisVars, UnlockOwed, Unlocking
<1>2. CASE Next
  BY <1>2, LockJobPromise, UnlockJobPromise, EventsPromise, OperatorPromise,
     EnvironmentPromise
  DEF Next
<1> QED
  BY <1>1, <1>2

(* Only a restart changes the action manager.                              *)
LEMMA ManagerStep == [Next]_vars => manager' = manager \/ restarts < MaxRestarts
  BY DEF Next, vars, budgetVars, Charge, LockJob, UnlockJob, Clear, Listen, Time, Crash,
     RestartListener, RateLimited, Take, ExistsLock, IncrPenalty, ExpirePenalty, Setnx,
     StoreMeta, Schedule, LockAccount, Poll, Remove, PushUnlock, LoadMeta, Recheck, Extend,
     ExtendMeta, UnlockAccount, MarkRetry, ManualLock, ManualUnlock, ClearLock, ClearMeta,
     ClearSchedule, ResetPenalty, Tick, ExpireLock, ExpireMeta, ForgetPenalty, Stop

LEMMA NextRInv == RInv /\ [Next]_vars => RInv'
<1> SUFFICES ASSUME RInv, [Next]_vars PROVE RInv'
  OBVIOUS
<1>1. IInv'
  BY NextIInv DEF RInv
<1>2. (manager \/ MaxRestarts > 0)'
  BY ManagerStep, LifecycleAssumption DEF RInv, Excused, IInv, TypeOK
<1>3. ASSUME NEW e \in Emails PROVE lapse'[e] \subseteq PossibleCauses
  <2>1. Promised(e) /\ lapse[e] \subseteq PossibleCauses
    BY NextPromise DEF RInv, Excused
  <2>2. "overtaken" \in PossibleCauses
    BY DEF PossibleCauses
  <2> QED
    BY <2>1, <2>2 DEF Promised
<1> QED
  BY <1>1, <1>2, <1>3 DEF RInv, Excused

LEMMA InitRInv == Init => RInv
<1> SUFFICES ASSUME Init PROVE RInv
  OBVIOUS
<1> QED
  BY InitIInv DEF RInv, Excused, Init

LEMMA SameTruth ==
  ASSUME NEW x \in BOOLEAN, NEW y \in BOOLEAN, x <=> y
  PROVE  x = y
<1>1. CASE x = TRUE
  <2>1. y = TRUE
    BY <1>1, Zenon
  <2> QED
    BY <1>1, <2>1, Zenon
<1>2. CASE x = FALSE
  <2>1. y = FALSE
    BY <1>2, Zenon
  <2> QED
    BY <1>2, <2>1, Zenon
<1> QED
  BY <1>1, <1>2, Zenon

(* What becomes of an account is a step of the promise.                    *)
Account(e) == [locked |-> e \in locked, owed |-> UnlockOwed(e), lapse |-> lapse[e]]

LEMMA AccountExcept ==
  ASSUME NEW a \in Obligation!Accounts, NEW b \in Obligation!Accounts, b.lapse = a.lapse
  PROVE  /\ b.locked = a.locked /\ b.owed = TRUE => b = [a EXCEPT !.owed = TRUE]
         /\ b.locked = TRUE /\ b.owed = a.owed => b = [a EXCEPT !.locked = TRUE]
<1>1. SUFFICES ASSUME NEW S, a \in [locked : BOOLEAN, owed : BOOLEAN, lapse : SUBSET S],
                      b \in [locked : BOOLEAN, owed : BOOLEAN, lapse : SUBSET S]
      PROVE  /\ b.locked = a.locked /\ b.owed = TRUE => b = [a EXCEPT !.owed = TRUE]
             /\ b.locked = TRUE /\ b.owed = a.owed => b = [a EXCEPT !.locked = TRUE]
  BY Zenon DEF Obligation!Accounts
<1>2. ASSUME b.locked = a.locked, b.owed = TRUE
      PROVE  b = [a EXCEPT !.owed = TRUE]
  BY <1>1, <1>2
<1>3. ASSUME b.locked = TRUE, b.owed = a.owed
      PROVE  b = [a EXCEPT !.locked = TRUE]
  BY <1>1, <1>3
<1> QED
  BY <1>2, <1>3, Zenon

LEMMA PromisedMaps ==
  ASSUME NEW e \in Emails, Promised(e),
         Account(e) \in Obligation!Accounts, Account(e)' \in Obligation!Accounts
  PROVE  Obligation!Step(Account(e), Account(e)')
<1>a. /\ (e \in locked) \in BOOLEAN /\ UnlockOwed(e) \in BOOLEAN
      /\ (e \in locked)' \in BOOLEAN /\ UnlockOwed(e)' \in BOOLEAN
  BY DEF UnlockOwed
<1>b. PICK p \in BOOLEAN : p = (e \in locked)
  BY <1>a, Zenon
<1>c. PICK q \in BOOLEAN : q = UnlockOwed(e)
  BY <1>a, Zenon
<1>d. PICK r \in BOOLEAN : r = (e \in locked)'
  BY <1>a, Zenon
<1>e. PICK s \in BOOLEAN : s = UnlockOwed(e)'
  BY <1>a, Zenon
<1>1. p = (e \in locked) /\ q = UnlockOwed(e)
  BY <1>b, <1>c, Zenon
<1>2. r = (e \in locked') /\ s = UnlockOwed(e)'
  BY <1>d, <1>e, Zenon
<1>3. PICK l, m : l = lapse[e] /\ m = lapse'[e]
  OBVIOUS
<1>4. PICK a, b : a = [locked |-> p, owed |-> q, lapse |-> l]
                  /\ b = [locked |-> r, owed |-> s, lapse |-> m]
  OBVIOUS
<1>5. a = Account(e) /\ b = Account(e)'
  BY <1>1, <1>2, <1>3, <1>4 DEF Account
<1>6. \/ (r <=> p) /\ (q => s) /\ m = l
      \/ (q \/ l # {}) /\ r /\ (s <=> q) /\ m = l
      \/ q /\ ~r /\ m \in {{}, {"overtaken"}}
      \/ q /\ \E cause \in PossibleCauses \ {"overtaken"} :
                 m = l \cup {cause} /\ (~(r <=> p) => ~r /\ cause = "failed")
  BY <1>1, <1>2, <1>3 DEF Promised
<1>7. CASE (r <=> p) /\ (q => s) /\ m = l
  <2>1. r = p /\ (s = q \/ s = TRUE)
    <3>1. r = p
      BY <1>7, SameTruth
    <3>2. CASE s = TRUE
      BY <3>1, <3>2
    <3>3. CASE s = FALSE
      <4>1. s <=> q
        BY <1>7, <3>3, Zenon
      <4> QED
        BY <3>1, <4>1, SameTruth
    <3> QED
      BY <3>2, <3>3, Zenon
  <2>2. b = a \/ b = [a EXCEPT !.owed = TRUE]
    <3>1. CASE s = q
      BY <1>4, <1>7, <2>1, <3>1, Zenon
    <3>2. CASE s = TRUE
      <4>1. b.locked = a.locked /\ b.owed = TRUE /\ b.lapse = a.lapse
        BY <1>4, <1>7, <2>1, <3>2
      <4> QED
        BY <1>5, <4>1, AccountExcept, Zenon
    <3> QED
      BY <2>1, <3>1, <3>2, Zenon
  <2> QED
    BY <1>5, <2>2 DEF Obligation!Step, Obligation!Undertaken
<1>8. CASE (q \/ l # {}) /\ r /\ (s <=> q) /\ m = l
  <2>1. r = TRUE /\ s = q
    <3>1. r = TRUE
      BY <1>8, SameTruth
    <3> QED
      BY <1>8, <3>1, SameTruth
  <2>2. b = [a EXCEPT !.locked = TRUE] /\ (a.owed \/ a.lapse # {})
    <3>1. b.locked = TRUE /\ b.owed = a.owed /\ b.lapse = a.lapse
      BY <1>4, <1>8, <2>1
    <3>2. a.owed = q /\ a.lapse = l
      BY <1>4
    <3> QED
      BY <1>5, <1>8, <3>1, <3>2, AccountExcept, Zenon
  <2> QED
    BY <1>5, <2>2 DEF Obligation!Step, Obligation!Locked
<1>9. CASE q /\ ~r /\ m \in {{}, {"overtaken"}}
  <2>1. a.owed /\ ~b.locked /\ b.lapse \in {{}, {"overtaken"}}
    BY <1>4, <1>9
  <2> QED
    BY <1>5, <2>1 DEF Obligation!Step, Obligation!Unlocked
<1>10. ASSUME q, NEW cause \in PossibleCauses \ {"overtaken"},
              m = l \cup {cause}, ~(r <=> p) => ~r /\ cause = "failed"
       PROVE  Obligation!Step(Account(e), Account(e)')
  <2>1. a.owed /\ b.lapse = a.lapse \cup {cause}
          /\ (b.locked # a.locked => ~b.locked /\ cause = "failed")
    BY <1>4, <1>10
  <2> QED
    BY <1>5, <2>1 DEF Obligation!Step, Obligation!GivenUp
<1> QED
  BY <1>6, <1>7, <1>8, <1>9, <1>10

Typed == \A e \in Emails : Account(e) \in Obligation!Accounts

LEMMA AccountType ==
  ASSUME RInv, NEW e \in Emails
  PROVE  Account(e) \in Obligation!Accounts
<1>1. lapse[e] \in SUBSET PossibleCauses
  BY DEF RInv, Excused
<1>2. (e \in locked) \in BOOLEAN /\ UnlockOwed(e) \in BOOLEAN
  BY DEF UnlockOwed
<1> QED
  BY <1>1, <1>2 DEF Account, Obligation!Accounts

(* For any accounts, tasks, durations, faults, restarts and operators: the *)
(* duty to unlock an account, once undertaken (handler.py:447), is handed  *)
(* from the schedule to the listener, the list and a worker until it ends  *)
(* with the unlock or with a recorded cause that the configuration makes   *)
(* possible, nobody locks without it and nobody unlocks without it.        *)
THEOREM Refinement == Spec => ImplementsObligation
<1>1. Init => Obligation!Init
  <2> SUFFICES ASSUME Init, NEW e \in Emails
               PROVE  Account(e) = [locked |-> FALSE, owed |-> FALSE, lapse |-> {}]
    BY DEF Obligation!Init, Account
  <2>1. due[e] = 0 /\ Len(tasks) = 0 /\ \A t \in Threads : ~Unlocking(t)
    BY DEF Init, Unlocking, UnlockSteps
  <2>2. UnlockOwed(e) = FALSE
    BY <2>1 DEF UnlockOwed
  <2>3. (e \in locked) = FALSE /\ lapse[e] = {}
    BY DEF Init
  <2> QED
    BY <2>2, <2>3 DEF Account
<1>a. RInv => Typed
  BY AccountType DEF Typed
<1>2. RInv /\ Typed' /\ [Next]_vars
        => [Obligation!Next]_([e \in Emails |-> Account(e)])
  <2> SUFFICES ASSUME RInv, Typed', [Next]_vars PROVE Obligation!Next
    OBVIOUS
  <2>1. \A e \in Emails : Account(e)' \in Obligation!Accounts
    BY DEF Typed
  <2>2. ASSUME NEW e \in Emails
        PROVE  Obligation!Step(Account(e), Account(e)')
    <3>1. Promised(e)
      BY NextPromise, Zenon
    <3>2. Account(e) \in Obligation!Accounts
      BY AccountType, Zenon
    <3> QED
      BY <2>1, <3>1, <3>2, PromisedMaps, Zenon
  <2> QED
    BY <2>1, <2>2 DEF Obligation!Next, Account
<1>3. Obligation!Spec <=>
        Obligation!Init /\ [][Obligation!Next]_([e \in Emails |-> Account(e)])
  BY DEF Obligation!Spec, Account
<1> QED
  BY <1>a, <1>1, <1>2, <1>3, InitRInv, NextRInv, PTL DEF Spec, ImplementsObligation

(* Each cause occurs only where the configuration has what it takes: with  *)
(* no failing command, no restart, no operator and no recheck that extends *)
(* a lock, only the race of an unlock with a newer lock strands an account.*)
THEOREM OnlyPossibleCauses == Spec => [](\A e \in Emails : lapse[e] \subseteq PossibleCauses)
<1>1. RInv => \A e \in Emails : lapse[e] \subseteq PossibleCauses
  BY DEF RInv, Excused
<1> QED
  BY <1>1, InitRInv, NextRInv, PTL DEF Spec

(* With the faults, the restarts, the operator and the extensions gone, an *)
(* account that stays locked with no unlock to come lost a race: an unlock *)
(* ran between the scheduling and the locking (handler.py:447-452, 586).   *)
LockedIsOwed == \A e \in locked : UnlockOwed(e) \/ "overtaken" \in lapse[e]

THEOREM CalmlyLockedIsOwed ==
    ASSUME MaxFaults = 0, MaxRestarts = 0, Admins = {}, TRUE \notin Rechecks
    PROVE  Spec => []LockedIsOwed
<1>1. PossibleCauses = {"overtaken"}
  BY DEF PossibleCauses
<1>2. TypeOK /\ StrandedOnlyByLapse /\ (\A e \in Emails : lapse[e] \subseteq PossibleCauses)
        => LockedIsOwed
  <2> SUFFICES ASSUME TypeOK, NEW e \in locked, lapse[e] # {}, lapse[e] \subseteq PossibleCauses
               PROVE  "overtaken" \in lapse[e]
    BY DEF LockedIsOwed, StrandedOnlyByLapse, TypeOK
  <2> QED
    BY <1>1
<1> QED
  BY <1>2, TypeCorrect, StrandedOnlyByLapseAlways, OnlyPossibleCauses, PTL
=============================================================================
