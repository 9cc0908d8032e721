---------------------------- MODULE LockLifecycle ----------------------------
(***************************************************************************)
(* The life of an account lock: src/policyd_py/policy/handler.py from the  *)
(* moment a request exceeds its limit to the moment the account is usable  *)
(* again.  Several tasks of one event loop take part, and every await is a *)
(* point where the others run:                                             *)
(*                                                                         *)
(*   Requests   connections that were rate limited and enqueue lock events *)
(*   Workers    background workers, which run lock and unlock events       *)
(*   Listener   the poller that turns due scheduled_unlocks entries into   *)
(*              unlock events                                              *)
(*   Admins     management calls that lock and unlock an account by hand   *)
(*                                                                         *)
(* What they share lives in Redis (the keys lock:<email> and               *)
(* lockmeta:<email>, the penalty counter, the sorted set scheduled_unlocks *)
(* and the list bg_tasks) and at the mail system, where the account itself *)
(* is locked by the external action.  A job's steps below are the stretches*)
(* between two awaits that matter to that shared state.                    *)
(*                                                                         *)
(* Modelled with the external action executed synchronously                *)
(* (async_execution = False); a reload of the configuration may disable or *)
(* enable it while locks and unlocks are under way.  Rate-limit            *)
(* notifications, statistics and user notifications touch none of this     *)
(* state.  The selector of a request is the sender's address, which is     *)
(* also what a manual lock stores.                                         *)
(***************************************************************************)
EXTENDS Integers, Sequences, FiniteSets

CONSTANTS
    Emails,             \* accounts of local domains
    Workers, Admins, Requests, Listener,    \* the tasks
    LockDuration,       \* locks.lock_duration
    RetryTtl,           \* the 60 seconds of the "Retry unlock" key
    PenaltyEnabled,     \* penalty.enable
    PenaltySteps,       \* penalty.steps, a non-empty sequence of durations
    PenaltyTtl,         \* penalty.ttl
    Rechecks,           \* answers _is_still_exceeding_limit may give
    Prompt,             \* whether a lock job's steps take less than a second
    MaxTasks,           \* bound: lock events are enqueued below this length
    MaxFaults,          \* bound: Redis commands and provider calls that fail
    MaxRestarts         \* bound: crashes and configuration reloads

Threads == Workers \cup Admins \cup Requests \cup {Listener}

Positive == Nat \ {0}

ASSUME LifecycleAssumption ==
    /\ Emails # {}
    /\ Workers \cap Admins = {} /\ Workers \cap Requests = {}
    /\ Admins \cap Requests = {}
    /\ Listener \notin Workers \cup Admins \cup Requests
    /\ LockDuration \in Positive /\ RetryTtl \in Positive
    /\ PenaltyEnabled \in BOOLEAN
    /\ PenaltySteps \in Seq(Positive) /\ PenaltySteps # << >>
    /\ PenaltyTtl \in Positive
    /\ Rechecks \subseteq BOOLEAN /\ Prompt \in BOOLEAN
    /\ MaxTasks \in Nat /\ MaxFaults \in Nat /\ MaxRestarts \in Nat

VARIABLES
    \* A key with a time to live, and an entry of the sorted set, is a number:
    \* 0 is "absent", n + 1 is "n whole seconds left".  At 1 a key is in its
    \* last fraction of a second and an entry is due.
    lockKey,        \* lock:<email>
    metaKey,        \* lockmeta:<email>
    due,            \* the entry lock:<email> of policyd:scheduled_unlocks
    penalty,        \* penalty:<selector>, saturated at the last step
    penaltyKey,     \* its time to live; 0 with penalty > 0: never expires
    tasks,          \* policyd:bg_tasks, oldest event first
    locked,         \* the accounts locked at the mail system
    job,            \* what each task is doing
    batch,          \* the listener's items still to be removed in this poll
    manager,        \* the handler has an action_manager
    faults, restarts,
    lapse           \* history: why the duty to unlock may have been dropped

redisVars == <<lockKey, metaKey, due, penalty, penaltyKey, tasks>>
budgetVars == <<faults, restarts, manager>>
vars == <<redisVars, locked, job, batch, budgetVars, lapse>>

LockSteps == {"exists", "incr", "expire", "setnx", "meta", "schedule", "lockAccount"}
UnlockSteps == {"load", "recheck", "unlockAccount"}
AfterUnlockSteps == {"extend", "extendMeta", "retry", "clearLock", "clearMeta", "clearSchedule",
                     "dropLock", "dropMeta"}
PCs == {"idle", "remove", "pushUnlock"} \cup LockSteps \cup UnlockSteps \cup AfterUnlockSteps

Events == [kind : {"lock", "unlock"}, email : Emails]
Jobs == [pc : PCs, email : Emails, dur : Positive, meta : BOOLEAN]
Causes == {"extended", "failed", "dropped", "killed", "cleared", "overtaken",
           "disabled"}

LockEvent(e) == [kind |-> "lock", email |-> e]
UnlockEvent(e) == [kind |-> "unlock", email |-> e]
KeyFor(ttl) == ttl + 1

-----------------------------------------------------------------------------
(* How a command sent to Redis or to the provider may end.  "lost": it     *)
(* raises and had no effect (connection refused, circuit breaker open).    *)
(* "late": it raises after it took effect (the answer timed out).  "twice":*)
(* the client's retry_on_timeout sent it again after a lost answer, so it  *)
(* takes effect twice and the second answer counts.                        *)

Outcomes == {"ok"} \cup (IF faults < MaxFaults THEN {"lost", "late", "twice"} ELSE {})
TakesEffect(o) == o # "lost"
Raises(o) == o \in {"lost", "late"}
Charge(o) == /\ faults' = IF o = "ok" THEN faults ELSE faults + 1
             /\ UNCHANGED <<restarts, manager>>

-----------------------------------------------------------------------------

Init ==
    /\ lockKey = [e \in Emails |-> 0]
    /\ metaKey = [e \in Emails |-> 0]
    /\ due = [e \in Emails |-> 0]
    /\ penalty = [e \in Emails |-> 0]
    /\ penaltyKey = [e \in Emails |-> 0]
    /\ tasks = << >>
    /\ locked = {}
    /\ job = [t \in Threads |-> [pc |-> "idle", email |-> CHOOSE e \in Emails : TRUE,
                                 dur |-> LockDuration, meta |-> FALSE]]
    /\ batch = {}
    /\ manager = TRUE
    /\ faults = 0 /\ restarts = 0
    /\ lapse = [e \in Emails |-> {}]

At(t, step) == job[t].pc = step
Goto(t, step) == job' = [job EXCEPT ![t].pc = step]

(* A job ends; the listener, which runs an unlock inline when it cannot    *)
(* enqueue it, goes on with the rest of its batch.                         *)
Rest(t) == IF t = Listener /\ batch # {} THEN "remove" ELSE "idle"
Finished(t) == [job[t] EXCEPT !.pc = Rest(t), !.dur = LockDuration, !.meta = FALSE]
Finish(t) == job' = [job EXCEPT ![t] = Finished(t)]
Start(t, step, e) ==
    job' = [job EXCEPT ![t] = [pc |-> step, email |-> e, dur |-> LockDuration, meta |-> FALSE]]
Continue(t, o, step) == IF Raises(o) THEN Finish(t) ELSE Goto(t, step)

Lapse(e, cause) == lapse' = [lapse EXCEPT ![e] = @ \cup {cause}]

-----------------------------------------------------------------------------
(* Lock events.                                                            *)

(* A rate limited request of a local sender: _handle_rate_limit_exceeded   *)
(* enqueues a lock event.  When that raises, the request runs the lock     *)
(* itself.                                                                 *)
RateLimited(r, e) ==
    /\ At(r, "idle")
    /\ Len(tasks) < MaxTasks
    /\ \E o \in Outcomes :
          /\ Charge(o)
          /\ tasks' = tasks \o (CASE o = "lost" -> << >>
                                  [] o = "twice" -> <<LockEvent(e), LockEvent(e)>>
                                  [] OTHER -> <<LockEvent(e)>>)
          /\ IF Raises(o) THEN Start(r, "exists", e) ELSE UNCHANGED job
    /\ UNCHANGED <<lockKey, metaKey, due, penalty, penaltyKey, locked, batch, lapse>>

(* A worker takes the oldest event off the list before it runs it.  An     *)
(* answer to BRPOP that is lost takes the event with it, and an unlock that*)
(* finds no action manager is passed over without a word (560-566).        *)
Take(w) ==
    /\ At(w, "idle")
    /\ tasks # << >>
    /\ tasks' = Tail(tasks)
    /\ LET ev == Head(tasks) IN
         \E o \in Outcomes \cap {"ok", "late"} :
            /\ Charge(o)
            /\ IF o = "ok" /\ (ev.kind = "lock" \/ manager)
                 THEN /\ Start(w, IF ev.kind = "lock" THEN "exists" ELSE "load", ev.email)
                      /\ UNCHANGED lapse
                 ELSE /\ UNCHANGED job
                      /\ IF ev.kind = "unlock"
                           THEN Lapse(ev.email, IF o = "ok" THEN "disabled" ELSE "dropped")
                           ELSE UNCHANGED lapse
    /\ UNCHANGED <<lockKey, metaKey, due, penalty, penaltyKey, locked, batch>>

(* _safe_lock_user_with_penalty: nothing to do while the lock key exists.  *)
ExistsLock(t) ==
    /\ At(t, "exists")
    /\ \E o \in Outcomes :
          /\ Charge(o)
          /\ IF Raises(o) \/ lockKey[job[t].email] # 0
               THEN Finish(t)
               ELSE Goto(t, IF PenaltyEnabled THEN "incr" ELSE "setnx")
    /\ UNCHANGED <<redisVars, locked, batch, lapse>>

Escalated(n) == IF n < Len(PenaltySteps) THEN n + 1 ELSE n

(* Slip: the counter is not given a time to live.                          *)
IncrWithoutExpire(t) ==
    /\ At(t, "incr")
    /\ LET e == job[t].email
           n == Escalated(penalty[e])
       IN /\ penalty' = [penalty EXCEPT ![e] = n]
          /\ job' = [job EXCEPT ![t].pc = "setnx", ![t].dur = PenaltySteps[n]]
    /\ UNCHANGED <<lockKey, metaKey, due, penaltyKey, tasks, locked, batch, budgetVars,
                   lapse>>

(* _resolve_lock_duration: INCR, then EXPIRE, two commands.                *)
IncrPenalty(t) ==
    /\ At(t, "incr")
    /\ \E o \in Outcomes :
         LET e == job[t].email
             n == CASE o = "lost" -> penalty[e]
                    [] o = "twice" -> Escalated(Escalated(penalty[e]))
                    [] OTHER -> Escalated(penalty[e])
         IN /\ Charge(o)
            /\ penalty' = [penalty EXCEPT ![e] = n]
            /\ IF Raises(o)
                 THEN Finish(t)
                 ELSE job' = [job EXCEPT ![t].pc = "expire", ![t].dur = PenaltySteps[n]]
    /\ UNCHANGED <<lockKey, metaKey, due, penaltyKey, tasks, locked, batch, lapse>>

ExpirePenalty(t) ==
    /\ At(t, "expire")
    /\ \E o \in Outcomes :
          /\ Charge(o)
          /\ penaltyKey' = IF TakesEffect(o) /\ penalty[job[t].email] > 0
                             THEN [penaltyKey EXCEPT ![job[t].email] = KeyFor(PenaltyTtl)]
                             ELSE penaltyKey
          /\ Continue(t, o, "setnx")
    /\ UNCHANGED <<lockKey, metaKey, due, penalty, tasks, locked, batch, lapse>>

(* Slip: SET without NX.                                                   *)
SetAlways(t) ==
    /\ At(t, "setnx")
    /\ lockKey' = [lockKey EXCEPT ![job[t].email] = KeyFor(job[t].dur)]
    /\ Goto(t, "meta")
    /\ UNCHANGED <<metaKey, due, penalty, penaltyKey, tasks, locked, batch, budgetVars, lapse>>

(* _safe_lock_user: only the task whose SET NX created the key goes on.    *)
(* When a lost answer made the client repeat the command, the second answer*)
(* says that the key exists, and nobody goes on.                           *)
Setnx(t) ==
    /\ At(t, "setnx")
    /\ \E o \in Outcomes :
         LET e == job[t].email
             free == lockKey[e] = 0
         IN /\ Charge(o)
            /\ lockKey' = IF free /\ TakesEffect(o)
                            THEN [lockKey EXCEPT ![e] = KeyFor(job[t].dur)]
                            ELSE lockKey
            /\ IF free /\ o = "ok" THEN Goto(t, "meta") ELSE Finish(t)
    /\ UNCHANGED <<metaKey, due, penalty, penaltyKey, tasks, locked, batch, lapse>>

(* Without an action manager the lock ends here: a key and its metadata.   *)
StoreMeta(t) ==
    /\ At(t, "meta")
    /\ \E o \in Outcomes :
          /\ Charge(o)
          /\ metaKey' = IF TakesEffect(o)
                          THEN [metaKey EXCEPT ![job[t].email] = KeyFor(job[t].dur)]
                          ELSE metaKey
          /\ IF manager THEN Continue(t, o, "schedule") ELSE Finish(t)
    /\ UNCHANGED <<lockKey, due, penalty, penaltyKey, tasks, locked, batch, lapse>>

(* Slips: the scheduling is best effort; the unlock is scheduled after the *)
(* configured duration instead of the penalty's.                           *)
ScheduleBestEffort(t) ==
    /\ At(t, "schedule")
    /\ \E o \in Outcomes :
          /\ Charge(o)
          /\ due' = IF TakesEffect(o)
                      THEN [due EXCEPT ![job[t].email] = KeyFor(job[t].dur)]
                      ELSE due
    /\ Goto(t, "lockAccount")
    /\ UNCHANGED <<lockKey, metaKey, penalty, penaltyKey, tasks, locked, batch, lapse>>

ScheduleDefault(t) ==
    /\ At(t, "schedule")
    /\ due' = [due EXCEPT ![job[t].email] = KeyFor(LockDuration)]
    /\ Goto(t, "lockAccount")
    /\ UNCHANGED <<lockKey, metaKey, penalty, penaltyKey, tasks, locked, batch, budgetVars,
                   lapse>>

(* The unlock is scheduled before the account is locked, which does not    *)
(* happen when the action manager has been taken away in the meantime.     *)
Schedule(t) ==
    /\ At(t, "schedule")
    /\ \E o \in Outcomes :
          /\ Charge(o)
          /\ due' = IF TakesEffect(o)
                      THEN [due EXCEPT ![job[t].email] = KeyFor(job[t].dur)]
                      ELSE due
          /\ IF manager THEN Continue(t, o, "lockAccount") ELSE Finish(t)
    /\ UNCHANGED <<lockKey, metaKey, penalty, penaltyKey, tasks, locked, batch, lapse>>

LockAccount(t) ==
    /\ At(t, "lockAccount")
    /\ \E o \in Outcomes :
          /\ Charge(o)
          /\ locked' = IF TakesEffect(o) THEN locked \cup {job[t].email} ELSE locked
    /\ Finish(t)
    /\ UNCHANGED <<redisVars, batch, lapse>>

-----------------------------------------------------------------------------
(* Unlock events.                                                          *)

(* One poll of _listen_for_unlocks: ZRANGEBYSCORE returns the due entries. *)
(* The entries are then removed one by one, each with its own ZREM.  There *)
(* is no listener without an action manager.                               *)
Poll ==
    /\ manager
    /\ At(Listener, "idle")
    /\ \E e \in Emails : due[e] = 1
    /\ batch' = {e \in Emails : due[e] = 1}
    /\ Goto(Listener, "remove")
    /\ UNCHANGED <<redisVars, locked, budgetVars, lapse>>

(* Slip: an entry whose lock key is back is removed and forgotten.         *)
RemoveIfFree ==
    /\ At(Listener, "remove")
    /\ \E e \in batch :
         LET rest == batch \ {e}
         IN /\ due' = [due EXCEPT ![e] = 0]
            /\ batch' = rest
            /\ IF due[e] # 0 /\ lockKey[e] = 0
                 THEN job' = [job EXCEPT ![Listener].pc = "pushUnlock", ![Listener].email = e]
                 ELSE Goto(Listener, IF rest = {} THEN "idle" ELSE "remove")
    /\ UNCHANGED <<lockKey, metaKey, penalty, penaltyKey, tasks, locked, budgetVars, lapse>>

(* Whatever entry ZREM removes, the one that was due or a newer one, is    *)
(* turned into an unlock event.  An error ends the poll.                   *)
Remove ==
    /\ At(Listener, "remove")
    /\ \E e \in batch, o \in Outcomes :
         LET removes == due[e] # 0 /\ TakesEffect(o)
             rest == batch \ {e}
         IN /\ Charge(o)
            /\ due' = IF removes THEN [due EXCEPT ![e] = 0] ELSE due
            /\ batch' = IF Raises(o) THEN {} ELSE rest
            /\ IF removes /\ o = "ok"
                 THEN /\ job' = [job EXCEPT ![Listener].pc = "pushUnlock",
                                            ![Listener].email = e]
                      /\ UNCHANGED lapse
                 ELSE /\ Goto(Listener, IF Raises(o) \/ rest = {} THEN "idle" ELSE "remove")
                      /\ IF removes THEN Lapse(e, "dropped") ELSE UNCHANGED lapse
    /\ UNCHANGED <<lockKey, metaKey, penalty, penaltyKey, tasks, locked>>

PushUnlock ==
    /\ At(Listener, "pushUnlock")
    /\ Len(tasks) <= MaxTasks
    /\ \E o \in Outcomes :
         LET ev == UnlockEvent(job[Listener].email)
         IN /\ Charge(o)
            /\ tasks' = tasks \o (CASE o = "lost" -> << >>
                                    [] o = "twice" -> <<ev, ev>>
                                    [] OTHER -> <<ev>>)
            /\ IF Raises(o) THEN Goto(Listener, "load") ELSE Finish(Listener)
    /\ UNCHANGED <<lockKey, metaKey, due, penalty, penaltyKey, locked, batch, lapse>>

Forced(t) == t \in Admins

(* Slip: an unlock event without metadata is ignored.                      *)
LoadMetaOrGiveUp(t) ==
    /\ At(t, "load")
    /\ IF metaKey[job[t].email] # 0
         THEN job' = [job EXCEPT ![t].pc = "recheck", ![t].meta = TRUE]
         ELSE Finish(t)
    /\ UNCHANGED <<redisVars, locked, batch, budgetVars, lapse>>

(* _process_unlock_event: any exception up to the unlock itself ends in    *)
(* the handler that writes the key "Retry unlock".                         *)
LoadMeta(t) ==
    /\ At(t, "load")
    /\ \E o \in Outcomes :
          /\ Charge(o)
          /\ IF Raises(o)
               THEN Goto(t, "retry") /\ Lapse(job[t].email, "failed")
               ELSE /\ job' = [job EXCEPT ![t].meta = metaKey[job[t].email] # 0, ![t].pc =
                                  IF ~Forced(t) THEN "recheck"
                                  ELSE IF manager THEN "unlockAccount" ELSE "clearLock"]
                    /\ IF Forced(t) /\ ~manager THEN Lapse(job[t].email, "disabled")
                                               ELSE UNCHANGED lapse
    /\ UNCHANGED <<redisVars, locked, batch>>

(* The usage of the limits in the metadata, or of the default quota when   *)
(* there is no metadata, decides between unlocking and extending the lock; *)
(* an action manager that has been taken away by now unlocks nothing.      *)
Recheck(t) ==
    /\ At(t, "recheck")
    /\ \E o \in Outcomes :
          /\ Charge(o)
          /\ IF Raises(o)
               THEN Goto(t, "retry") /\ Lapse(job[t].email, "failed")
               ELSE \/ /\ FALSE \in Rechecks /\ manager
                       /\ Goto(t, "unlockAccount")
                       /\ UNCHANGED lapse
                    \/ /\ FALSE \in Rechecks /\ ~manager
                       /\ Finish(t)
                       /\ Lapse(job[t].email, "disabled")
                    \/ /\ TRUE \in Rechecks
                       /\ Goto(t, "extend")
                       /\ Lapse(job[t].email, "extended")
    /\ UNCHANGED <<redisVars, locked, batch>>

(* The extended lock is written over whatever lock there is; it is not     *)
(* scheduled again.                                                        *)
Extend(t) ==
    /\ At(t, "extend")
    /\ \E o \in Outcomes :
          /\ Charge(o)
          /\ lockKey' = IF TakesEffect(o)
                          THEN [lockKey EXCEPT ![job[t].email] = KeyFor(LockDuration)]
                          ELSE lockKey
          /\ IF Raises(o) THEN Goto(t, "retry")
             ELSE IF job[t].meta THEN Goto(t, "extendMeta") ELSE Finish(t)
    /\ UNCHANGED <<metaKey, due, penalty, penaltyKey, tasks, locked, batch, lapse>>

ExtendMeta(t) ==
    /\ At(t, "extendMeta")
    /\ \E o \in Outcomes :
          /\ Charge(o)
          /\ metaKey' = IF TakesEffect(o)
                          THEN [metaKey EXCEPT ![job[t].email] = KeyFor(LockDuration)]
                          ELSE metaKey
          /\ IF Raises(o) THEN Goto(t, "retry") ELSE Finish(t)
    /\ UNCHANGED <<lockKey, due, penalty, penaltyKey, tasks, locked, batch, lapse>>

(* Another task is about to lock the account that this step unlocks.       *)
Overtakes(t, e) == \E u \in Threads \ {t} : At(u, "lockAccount") /\ job[u].email = e

UnlockAccount(t) ==
    /\ At(t, "unlockAccount")
    /\ \E o \in Outcomes :
         LET e == job[t].email
         IN /\ Charge(o)
            /\ locked' = IF TakesEffect(o) THEN locked \ {e} ELSE locked
            /\ lapse' = [lapse EXCEPT ![e] =
                    IF Raises(o) THEN @ \cup {"failed"}
                    ELSE IF Overtakes(t, e) THEN {"overtaken"} ELSE {}]
            /\ IF Raises(o) THEN Goto(t, "retry")
               ELSE IF Forced(t) THEN Goto(t, "clearLock") ELSE Finish(t)
    /\ UNCHANGED <<redisVars, batch>>

(* The handler of a failed unlock: it writes the key and nothing else.     *)
MarkRetry(t) ==
    /\ At(t, "retry")
    /\ \E o \in Outcomes :
          /\ Charge(o)
          /\ lockKey' = IF TakesEffect(o)
                          THEN [lockKey EXCEPT ![job[t].email] = KeyFor(RetryTtl)]
                          ELSE lockKey
    /\ Finish(t)
    /\ UNCHANGED <<metaKey, due, penalty, penaltyKey, tasks, locked, batch, lapse>>

-----------------------------------------------------------------------------
(* Management calls.                                                       *)

ManualLock(a, e) ==
    /\ At(a, "idle")
    /\ Start(a, "setnx", e)
    /\ UNCHANGED <<redisVars, locked, batch, budgetVars, lapse>>

(* A forced unlock skips the recheck and, once the account is unlocked,    *)
(* deletes the lock, its metadata and its schedule, whoever wrote them.    *)
(* Without an action manager it deletes ("drops") the first two only.      *)
ManualUnlock(a, e) ==
    /\ At(a, "idle")
    /\ Start(a, IF manager THEN "load" ELSE "dropLock", e)
    /\ UNCHANGED <<redisVars, locked, batch, budgetVars, lapse>>

ClearLock(a) ==
    /\ At(a, "clearLock") \/ At(a, "dropLock")
    /\ \E o \in Outcomes :
          /\ Charge(o)
          /\ lockKey' = IF TakesEffect(o) THEN [lockKey EXCEPT ![job[a].email] = 0] ELSE lockKey
          /\ Continue(a, o, IF At(a, "clearLock") THEN "clearMeta" ELSE "dropMeta")
    /\ UNCHANGED <<metaKey, due, penalty, penaltyKey, tasks, locked, batch, lapse>>

ClearMeta(a) ==
    /\ At(a, "clearMeta") \/ At(a, "dropMeta")
    /\ \E o \in Outcomes :
          /\ Charge(o)
          /\ metaKey' = IF TakesEffect(o) THEN [metaKey EXCEPT ![job[a].email] = 0] ELSE metaKey
          /\ IF At(a, "clearMeta") /\ manager THEN Continue(a, o, "clearSchedule") ELSE Finish(a)
    /\ UNCHANGED <<lockKey, due, penalty, penaltyKey, tasks, locked, batch, lapse>>

ClearSchedule(a) ==
    /\ At(a, "clearSchedule")
    /\ \E o \in Outcomes :
         LET e == job[a].email
             removes == TakesEffect(o) /\ due[e] # 0
         IN /\ Charge(o)
            /\ due' = IF removes THEN [due EXCEPT ![e] = 0] ELSE due
            /\ IF removes THEN Lapse(e, "cleared") ELSE UNCHANGED lapse
    /\ Finish(a)
    /\ UNCHANGED <<lockKey, metaKey, penalty, penaltyKey, tasks, locked, batch>>

(* Slip: the penalty is taken back by one (DECR), not deleted.             *)
ResetPenaltyByOne(a, e) ==
    /\ At(a, "idle")
    /\ penalty' = [penalty EXCEPT ![e] = penalty[e] - 1]
    /\ UNCHANGED <<lockKey, metaKey, due, penaltyKey, tasks, locked, job, batch, budgetVars, lapse>>

(* reset_penalty_manually: the stored selector is the email itself.        *)
ResetPenalty(a, e) ==
    /\ At(a, "idle")
    /\ penalty' = [penalty EXCEPT ![e] = 0]
    /\ penaltyKey' = [penaltyKey EXCEPT ![e] = 0]
    /\ UNCHANGED <<lockKey, metaKey, due, tasks, locked, job, batch, budgetVars, lapse>>

-----------------------------------------------------------------------------
(* Time.  A tick is the instant int(time.time()) changes.  A key that has  *)
(* reached its last second expires before the next tick, at any moment.    *)

Elapse(k, floor) == [e \in Emails |-> IF k[e] > floor THEN k[e] - 1 ELSE k[e]]

Critical == {"meta", "schedule", "lockAccount"}

Tick ==
    /\ \A e \in Emails : lockKey[e] # 1 /\ metaKey[e] # 1 /\ penaltyKey[e] # 1
    /\ \E e \in Emails : lockKey[e] > 1 \/ metaKey[e] > 1 \/ penaltyKey[e] > 1 \/ due[e] > 1
    /\ Prompt => \A t \in Threads : job[t].pc \notin Critical
    /\ lockKey' = Elapse(lockKey, 0)
    /\ metaKey' = Elapse(metaKey, 0)
    /\ penaltyKey' = Elapse(penaltyKey, 0)
    /\ due' = Elapse(due, 1)
    /\ UNCHANGED <<penalty, tasks, locked, job, batch, budgetVars, lapse>>

ExpireLock(e) ==
    /\ lockKey[e] = 1
    /\ lockKey' = [lockKey EXCEPT ![e] = 0]
    /\ UNCHANGED <<metaKey, due, penalty, penaltyKey, tasks, locked, job, batch,
                   budgetVars, lapse>>

ExpireMeta(e) ==
    /\ metaKey[e] = 1
    /\ metaKey' = [metaKey EXCEPT ![e] = 0]
    /\ UNCHANGED <<lockKey, due, penalty, penaltyKey, tasks, locked, job, batch,
                   budgetVars, lapse>>

ForgetPenalty(e) ==
    /\ penaltyKey[e] = 1
    /\ penaltyKey' = [penaltyKey EXCEPT ![e] = 0]
    /\ penalty' = [penalty EXCEPT ![e] = 0]
    /\ UNCHANGED <<lockKey, metaKey, due, tasks, locked, job, batch, budgetVars, lapse>>

(* The process dies between two steps and is started again, or a           *)
(* configuration reload cancels the listener and starts a new one; the new *)
(* configuration may disable or enable the external action.  Redis and the *)
(* mail system keep their state; a job that was stopped is gone.           *)
Stopped(T) == [t \in Threads |->
    IF t \in T THEN [job[t] EXCEPT !.pc = "idle", !.dur = LockDuration, !.meta = FALSE]
               ELSE job[t]]

Unlocking(t) == job[t].pc \in UnlockSteps \cup {"pushUnlock"}

Stop(T) ==
    /\ restarts < MaxRestarts
    /\ restarts' = restarts + 1
    /\ job' = Stopped(T)
    /\ batch' = {}
    /\ manager' \in BOOLEAN
    /\ lapse' = [e \in Emails |->
          IF \E t \in T : Unlocking(t) /\ job[t].email = e
            THEN lapse[e] \cup {"killed"} ELSE lapse[e]]
    /\ UNCHANGED <<redisVars, locked, faults>>

Crash == Stop(Threads)
RestartListener == Stop({Listener})

-----------------------------------------------------------------------------
LockJob(t) ==
    \/ ExistsLock(t) \/ IncrPenalty(t) \/ ExpirePenalty(t) \/ Setnx(t)
    \/ StoreMeta(t) \/ Schedule(t) \/ LockAccount(t)

UnlockJob(t) ==
    \/ LoadMeta(t) \/ Recheck(t) \/ Extend(t) \/ ExtendMeta(t)
    \/ UnlockAccount(t) \/ MarkRetry(t)

Clear(a) == ClearLock(a) \/ ClearMeta(a) \/ ClearSchedule(a)

Listen == Poll \/ Remove \/ PushUnlock

Time == \/ Tick
        \/ \E e \in Emails : ExpireLock(e) \/ ExpireMeta(e) \/ ForgetPenalty(e)

Next ==
    \/ \E r \in Requests, e \in Emails : RateLimited(r, e)
    \/ \E w \in Workers : Take(w)
    \/ \E t \in Threads : LockJob(t) \/ UnlockJob(t)
    \/ \E a \in Admins, e \in Emails :
          ManualLock(a, e) \/ ManualUnlock(a, e) \/ ResetPenalty(a, e)
    \/ \E a \in Admins : Clear(a)
    \/ Listen
    \/ Time
    \/ Crash
    \/ RestartListener

Spec == Init /\ [][Next]_vars

(* asyncio resumes every task whose await is over, and a command that does *)
(* not fail is answered; the workers and the listener loop for ever; time  *)
(* passes.                                                                 *)
Fairness ==
    /\ WF_vars(\E w \in Workers : Take(w))
    /\ \A t \in Threads : WF_vars(LockJob(t)) /\ WF_vars(UnlockJob(t))
    /\ \A a \in Admins : WF_vars(Clear(a))
    /\ WF_vars(Listen)
    /\ WF_vars(Tick)
    /\ \A e \in Emails : WF_vars(ExpireLock(e) \/ ExpireMeta(e) \/ ForgetPenalty(e))

FairSpec == Spec /\ Fairness
-----------------------------------------------------------------------------
(* Types.  The bounds on time are what keeps every key on a clock.         *)

Times == Nat

TypeOK ==
    /\ lockKey \in [Emails -> Times]
    /\ metaKey \in [Emails -> Times]
    /\ due \in [Emails -> Times]
    /\ penalty \in [Emails -> 0 .. Len(PenaltySteps)]
    /\ penaltyKey \in [Emails -> Times]
    /\ tasks \in Seq(Events)
    /\ locked \subseteq Emails
    /\ job \in [Threads -> Jobs]
    /\ batch \subseteq Emails
    /\ manager \in BOOLEAN
    /\ faults \in Nat
    /\ restarts \in Nat
    /\ lapse \in [Emails -> SUBSET Causes]

(* Somebody is still going to decide on unlocking account e: it is         *)
(* scheduled (and stays so in Redis while there is no listener), an unlock *)
(* event is queued, or a task carries the event and has neither unlocked   *)
(* the account nor given up.                                               *)
UnlockOwed(e) ==
    \/ due[e] # 0
    \/ \E i \in 1 .. Len(tasks) : tasks[i] = UnlockEvent(e)
    \/ \E t \in Threads : Unlocking(t) /\ job[t].email = e

(* An account locked at the mail system with nobody left to unlock it is   *)
(* always the work of one of the named causes since it was last unlocked:  *)
(* a recheck that extended the lock (571-583), a failed unlock (596-599),  *)
(* an event lost with the answer that carried it, a task killed with the   *)
(* event in hand, a manual unlock that removed another lock's schedule     *)
(* (593), an unlock that ran between the scheduling and the locking of a   *)
(* newer lock, or an unlock that found the action manager taken away by a  *)
(* reload (561, 585).  There is no eighth way, because zadd (447) comes    *)
(* before lock_account (452).                                              *)
StrandedOnlyByLapse ==
    \A e \in locked : UnlockOwed(e) \/ lapse[e] # {}

(* The causes that a configuration leaves possible: only the race of an    *)
(* unlock with a newer lock is always one of them.                         *)
PossibleCauses ==
    {"overtaken"}
      \cup (IF TRUE \in Rechecks THEN {"extended"} ELSE {})
      \cup (IF MaxFaults > 0 THEN {"failed", "dropped"} ELSE {})
      \cup (IF MaxRestarts > 0 THEN {"killed", "disabled"} ELSE {})
      \cup (IF Admins # {} THEN {"cleared"} ELSE {})

(* The lifecycle keeps the promises of LockObligation: the duty to unlock  *)
(* passes from the schedule to the listener, to the list and to a task     *)
(* without being lost, whatever fails and whoever else acts on the account;*)
(* it ends with the unlock or with a cause, each cause occurs only where   *)
(* the configuration has what it takes, and nothing but an unlock clears   *)
(* it (handler.py:447-452, 485-490, 560-599).                              *)
Obligation == INSTANCE LockObligation WITH
    Causes <- PossibleCauses,
    account <- [e \in Emails |->
        [locked |-> e \in locked, owed |-> UnlockOwed(e), lapse |-> lapse[e]]]

ImplementsObligation == Obligation!Spec

(* At most one task at a time is locking an account: SET NX (440) admits   *)
(* the next only when the key is gone, and the key outlives the job.       *)
OneLocker ==
    \A t, u \in Threads :
        /\ job[t].pc \in Critical /\ job[u].pc \in Critical
        /\ job[t].email = job[u].email
        => t = u

Locking(e) == \E t \in Threads : job[t].pc \in Critical /\ job[t].email = e

(* An account is never due for unlocking while its lock key still has a    *)
(* whole second to live, although the key and the schedule are written by  *)
(* different commands at different moments.                                *)
NeverDueEarly ==
    \A e \in Emails : due[e] # 0 /\ ~Locking(e) => lockKey[e] <= due[e]

(* A penalty counter always has a time to live, or a task is about to give *)
(* it one: INCR (418) and EXPIRE (419) are two commands, and the counter   *)
(* may expire, be reset and be created anew between them.  README.md:161   *)
(* tells the operator to wait for the TTL of a penalty.                    *)
PenaltyWillExpire ==
    \A e \in Emails : penalty[e] > 0 =>
        penaltyKey[e] # 0 \/ \E t \in Threads : At(t, "expire") /\ job[t].email = e

(* The senders calm down: from some moment on no request is rate limited.  *)
(* Without this a lock may be renewed for ever, each time its key expires. *)
SendersCalmDown ==
    <>[][\A r \in Requests, e \in Emails : ~RateLimited(r, e)]_vars

(* Once the senders calm down, and with nothing failing and no operator,   *)
(* every locked account is unlocked in the end: no event waits for ever in *)
(* the list, in the listener's batch or with a worker, and the one way to  *)
(* strand an account is the race of a stale unlock with a newer lock.      *)
UnlockedUnlessRaced ==
    SendersCalmDown =>
        \A e \in Emails : e \in locked ~> e \notin locked \/ "overtaken" \in lapse[e]

-----------------------------------------------------------------------------
(* What the documentation and the tests say, and the code does not do.     *)

(* Locks end by themselves: README.md:3 promises automatic lock and unlock *)
(* and OPERATIONS_RUNBOOK.md:263 treats an unlock that does not run after  *)
(* the TTL as an incident.                                                 *)
EveryLockEnds ==
    SendersCalmDown => \A e \in Emails : e \in locked ~> e \notin locked

(* The recheck of an unlock uses the selector and the limits stored with   *)
(* the lock (tests/test_handler_integration.py:266).                       *)
RecheckHasMetadata == \A t \in Threads : At(t, "recheck") => job[t].meta
=============================================================================
