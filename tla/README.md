# A TLA+ model of policyd-py

`policyd-py` is a policy daemon for Postfix: it counts the messages of each
sender in Redis, defers what exceeds a quota, locks the account that exceeded
it through an external provider, and unlocks it later.  This directory holds
its specification in TLA+, the instances that TLC checks and the theorems that
TLAPS proves.  Paths below are relative to `src/`; `handler.py` is
`policyd_py/policy/handler.py`, `limiter.py` is `policyd_py/ratelimit/limiter.py`,
`__main__.py` is `policyd_py/__main__.py`.

## 1. Inventory

| Component | State | Operations | What is hard, and what makes it correct | Module |
|---|---|---|---|---|
| Lock, penalty and unlock lifecycle (`handler.py` 142-214, 349-637) | Redis: `lock:`, `lockmeta:`, `penalty:` with a time to live, the sorted set `policyd:scheduled_unlocks`, the list `policyd:bg_tasks`; process: workers, listener; outside: the account | lock job, unlock job, poll, operator's lock / unlock / reset of the penalty, restart, reload that takes the action manager away | every step is an await between workers, processes that crash, commands that fail or repeat; an account that is locked must be unlocked in the end, by one path only | `LockLifecycle`, which implements `LockObligation` |
| Circuit breaker (`storage/circuit_breaker.py`) | state, counters, time of the last failure | call, reset | results come back after the state that admitted the call is gone; errors of a Redis that is up count as failures; it trips and recovers on evidence only | `CircuitBreaker` |
| Rate limiter (`limiter.py`) | one hash with a time to live per algorithm, sender and duration | check, usage, reset | scripts are atomic, the sequence of limits is not; EVALSHA that fails is repeated as EVAL; quotas scaled differently share a hash; no more messages than the limit promises, and no sender shut out for ever | `RateLimiter` |
| Adaptive limits (`handler.py` 651-772) | none | multiplier, scaling | rounding, factors of zero, clamping; lookups whose errors nobody swallows | `AdaptiveLimits` (operators, used by `RateLimiter`); the errors in `RequestPipeline` |
| Action manager (`actions/manager.py`) | queue, workers, closing flag | lock, unlock, close | several workers on one account, fallbacks, overlapping calls of close, requests carried out after they were given up; every accepted action ends once | `ActionManager`, which implements `ActionExecutor` |
| Request pipeline (`handler.py` 216-385) | the local variables of a request | handle, enqueue, notify | error paths after the outcome was counted, the lock that runs inside a request, test-then-set of the cooldown | `RequestPipeline` |
| Policy server (`core/server.py`) | semaphore, connections | one coroutine per connection | connections beyond the permits wait; every way out gives the permit back | `RequestPipeline` |
| Statistics (`stats/runtime.py`) | counters | increments | each request counted under one outcome | `RequestPipeline` |
| Notification (`handler.py` 374-385, `notification/notifier.py`) | `notify:` key | notify | several workers between EXISTS and SET | `RequestPipeline` |
| Configuration reload and shutdown (`__main__.py`) | the objects of the runtime, tasks, action managers | reload, SIGHUP, shutdown | reloads overlap; managers and tasks are replaced around awaits | `ConfigReload` |
| Configuration manager (`management/config_manager.py`) | configuration in memory, file, backups | save, reload; somebody edits the file | memory is replaced before the file, and a save may overwrite an edit | `ConfigReload`; backups and the checks of a candidate are left out |
| Lists (`handler.py` 780-813, `policy/matcher.py`) | Redis sets, local domains | reload, match | a reload deletes before it fills, and so does the next one | `ConfigReload` (reload); what a message matches is a free choice in `RequestPipeline` |
| Validation (`validation/validator.py`) | blacklists, reload task | start, stop, reload, lookups | a task that dies is remembered; stop then raises | `ConfigReload` (task); lookups are free choices |
| Multi-server manager (`multiserver/`) | registry and its file, status cache | change the registry, health loop, refresh, execute on all | statuses stored after the server changed or was removed, a file torn by a crash, a server removed under a call | `MultiServer` |
| Redis client (`storage/redis_client.py`) | pool, breaker | commands | `retry_on_timeout` repeats commands | outcomes of the commands in all modules |
| Action providers, script runner (`actions/`) | none | lock, unlock, status | time out after they took effect | outcomes in `ActionManager`, `LockLifecycle` |
| Management API (`management/`) | none | HTTP to the handler | its operations are actions of `LockLifecycle`, `RateLimiter`, `ConfigReload`, `MultiServer` | partly |
| LDAP, settings, legacy middlewares | none | lookups, parsing | input and output; unused | not modelled |

The parts interact through Redis (the request pipeline appends lock and notify
events to `policyd:bg_tasks`, workers take them, the listener appends unlock
events), through calls (workers and the API call the action manager and the
limiter's `get_usage`), through the objects a reload replaces (configuration,
action manager, listener task) and through the circuit breaker, which stands in
front of every Redis command.  The multi-server manager stands apart: it
speaks HTTP to the APIs of other daemons.

The hazards of this code, each at its line and with the properties that watch
it, are listed in `PROJECT.json`.

## 2. Modules

An action is always the stretch of code from one await to the next.  A Redis
command or a provider's call is sent and answered in one action and has an
outcome: `ok`, `lost` (raises, nothing was done), `late` (raises, and it was
done) or `twice` (the client library repeated it).  Every outcome but `ok` costs
one of `MaxFaults`.  The modules meet in their environments: what a module
leaves free (whether a request is denied, whether a provider fails) another one
determines.

### LockObligation and LockLifecycle

`LockObligation` is the promise, without Redis, queues, tasks and time: per
account whether it is locked, whether its unlock is owed, and why the duty may
have been dropped since the last unlock.  An account is locked only when
somebody has undertaken to unlock it; the duty may be taken up again and may
change hands, but it ends only with the unlock or with a cause on record; nobody
unlocks without it.

`LockLifecycle` is the code.  `lockKey`, `metaKey`, `penalty` with `penaltyKey`, `due` and `tasks` are the Redis
keys: a key with a time to live is a number, the whole seconds it has left plus
one; `due` is the entry of the account in the sorted set of unlocks.  `locked` is
the set of accounts locked at the provider.  `job[t]` is what the coroutine `t` (a
worker, the listener, an operator's request, a connection) is executing, with `pc`
naming the command it is about to send, and `batch` the entries the listener has
still to remove in this poll.  The names of the actions follow the commands:
`ExistsLock`, `IncrPenalty`, `ExpirePenalty`, `Setnx`, `StoreMeta`, `Schedule`,
`LockAccount` for a lock job; `LoadMeta`, `Recheck`, `Extend`, `ExtendMeta`,
`UnlockAccount`, `ClearLock`, `ClearMeta`, `ClearSchedule`, `MarkRetry` for an unlock;
`Poll`, `Remove`, `PushUnlock` for the listener; `Crash`, `Stop`, `RestartListener` for
the process.  When the LPUSH of an event fails, the caller runs the job itself,
as the code does.  `manager` says whether the handler has an action manager: a
reload may take it away in the middle of a lock or an unlock, and may bring it
back.

`lapse[e]` is history: why the system may have lost sight of an account (a crash
with the event in hand, a lock that was extended, a failed unlock, a stale
unlock, an unlock that found no action manager, ...).  The main invariant says
that nothing else can happen:

* `ImplementsObligation`: the refinement.  The duty of an account is its entry in
  the schedule, an entry the listener has removed, an unlock event in the list or
  an unlock in progress (`UnlockOwed`).  `PossibleCauses` are the causes the
  configuration has what it takes for: `extended` needs a recheck that extends,
  `failed` and `dropped` a failing command, `killed` and `disabled` a restart,
  `cleared` an operator.  `overtaken`, a stale unlock that meets a newer lock, needs
  nothing.
* `StrandedOnlyByLapse`: an account that is locked has its unlock scheduled, in
  the list or in progress, unless one of the named lapses happened to it.
* `OneLocker`: no two tasks are locking one account.
* `NeverDueEarly`: no unlock is due while the lock's key has a second to live.
* `PenaltyWillExpire`: every penalty has a time to live, or is about to get it.
* `UnlockedUnlessRaced` (liveness): once the senders calm down, every locked
  account is unlocked, unless a stale unlock raced with its lock.

The last four speak of undisturbed operation: nothing fails and no operator
intervenes.

### CircuitBreaker

Callers, each with at most one command in flight (`call`): an EVALSHA, an EVAL
(or SCRIPT LOAD), or any other command.  `Admit` is the code up to the await;
`Succeed`, `Fail`, `FallBack` and `Cancel` are what follows it.  A command raises
(`Raises`) when Redis is down, when it is an EVALSHA and Redis has lost the
limiter's script (`scripts`, which a restart may clear and an EVAL brings back; one
stands for the three, as for a configuration with one algorithm), or with one of
`MaxErrors` other error replies: the breaker counts every exception
(`circuit_breaker.py:75`).  After a failed EVALSHA the limiter tries EVAL at once
(`limiter.py:215-251`); nothing suspends in between, so that `FallBack` records the
failure and admits or rejects the EVAL in one step.  `failStreak`, `okStreak` and
`late` are history.  Counts of failures saturate at `MaxFailures`, which is at least
the threshold: nothing in the code tells larger ones apart.

* `TripsOnTime`, `TripEarned`, `RecoveryEarned`: results of calls admitted in another
  state never make the breaker miss a trip, trip early or close early.
* `LateFailuresBounded`: HALF_OPEN admits every caller, and each of them may fail
  after the breaker is OPEN again and restart the recovery timer; that happens
  fewer times than there are callers before it leaves OPEN.
* `Recovers` (liveness): the breaker closes once Redis stays up and has its
  scripts.  Without the scripts this is false, and section 5 says why.

### AdaptiveLimits and RateLimiter

`AdaptiveLimits` has the limits of a quota and their scaling as operators.
`Multiplier(a, s)` is the multiplier the configuration `a` gives to a message with
the signals `s` (authenticated or not, local domain or not, trusted or not): the
strongest factor that relaxes, or else the strongest that tightens, clamped.
`ScaledLimit` rounds a count up and never below one.  Percentages stand for the
doubles of the code, and refill rates are rounded down to units.

`RateLimiter` is one sender.  `policy` is the configuration in force, chosen in
the initial state from `Policies`: quotas, and how they are scaled.
`Multipliers` and `Adapted` are the multipliers its messages may get and the
quotas as they meet them.  `store[k]` is the hash of a key with the instant it
expires, and a script is an operator from a hash, a limit and an instant to an
answer and a hash: `FixedWindow`, `SlidingWindow`, `TokenBucket`.  `Begin` starts
the check of a message with a quota and a multiplier, `RunScript` is one
command; the checks of two connections interleave between the limits of a
message and between a failed EVALSHA and its EVAL.  Tokens are integers (`Unit`
to a token) instead of numbers with six decimals, and weights are compared after
multiplying by the duration instead of as doubles: rounding is not modelled.
The clock of Redis and that of the process (`get_usage`) are one clock.
`unlimited` entries, which check_limit skips, are left out.  `granted` counts, for
each key, the messages its script let through.

* `QuotaBound`: `FixedWindowBound` (at most twice the count in any stretch of the
  duration), `SlidingWindowBound` (at most the count, plus rounding, plus what
  the weight of the previous window has given up), `TokenBucketBound` (the
  capacity plus the refill in any stretch of time), where quotas scaled
  differently share a key and the largest of them counts.
* `ExpiryHarmless`: forgetting a hash never changes an answer.
* `QuietSenderAllowed`: a sender that keeps quiet long enough is let through,
  whatever multiplier the next message gets.
* `UsageAgrees`: `get_usage >= count`, on which the recheck of an unlock decides,
  agrees with the script: whenever a window's script denies, and for fixed
  windows only then, because `get_usage` rounds a sliding count up.

### ActionExecutor and ActionManager

`ActionExecutor` is the promise: actions are accepted while the executor is open,
a bounded number of them is owed at a time, each ends once, no account changes
but by an accepted action, and a call of close that returns leaves nothing owed.
It knows no queue, no workers and no providers.

`ActionManager` is the asynchronous mode: the queue with asyncio's count of
unfinished entries, the workers with the provider they are trying, the calls of
`close`.  close may run twice at a time, because every SIGTERM or SIGINT starts a
shutdown of its own.  A provider's call succeeds, fails, or fails after it took
effect; a webhook request that was given up stays in `lingering` until its
server carries it out after all (`Land`).

* `ImplementsExecutor`: the refinement.  The actions that are over are those with
  an outcome, the executor is open while `closing` is not set, and owes at most
  `QueueSize` plus one action per worker.
* `LastAcceptedWins`: the account ends as the last accepted action left it,
  unless two workers were on the account at the same time or a late request
  landed behind a newer action (`disordered`).  The first exception is real: with
  `async_workers` above one, which the deployment guide recommends, an unlock
  may overtake a lock.
* `CloseReturns`, `AcceptedEnds` (liveness).  `CloseReturns` needs a queue
  at least as large as the number of workers, and at most two calls: with a
  smaller queue the second call waits for ever for room for its marks, with a
  third call the marks that the second one left keep `join` from returning.

### RequestPipeline

`conn[c]` is what the coroutine of a connection awaits: a permit of the semaphore
(`line`, in order of arrival), the client, a lookup, a Redis command, or its
client's taking the answer.  What the checks of a request find is chosen freely;
the early returns, the counters and the error paths are those of `handle`.
`stats` has the counters of outcomes and the active connections.  `worker` and
`cooldown` are the second half of a notification: EXISTS, SET, the channels.  A
lock job inside the request is one step here, whose failure ends the request.
The model has no process crash (the counters would be gone with it) and no
shutdown.

* `Accounted`: accepted, rejected, deferred and errors add up to the requests that
  are past their outcome, except that a request whose lock failed inside it is
  counted twice; `doubled` counts those exactly.
* `NoDenialForgotten`: each denial of a local sender has led to a lock event or a
  lock job of its own, whatever fails.
* `OnePerWorker`: within one cooldown each worker notifies at most once.  (The
  number of workers is the best bound: EXISTS and SET are two commands.)
* `WaitingServed`, `DenialNotified` (liveness).

### ConfigReload

Each `Requests` process is an HTTP request that saves or reloads the
configuration, each of `Hangups` a SIGHUP task, `Stopper` the shutdown.  `using`
records which configuration each part works with, the parts that
`_apply_reloaded_config` gives the new one (`Reloaded`) and those that keep the one
the process was started with (`Kept`: the management API, the Redis client, the
semaphore, the background workers, the notifier's script runner); `memory` and `file` are the
configuration manager's copies, `edited` says that somebody has written the file
since (perhaps so that it is `Broken`), `unstored` that the last save failed
between memory and file.  Action managers, listener tasks and validator tasks
are numbered as they are created, so that a task that an overlapping reload
overwrites (`listenerTask`, `validatorTask`) stays visible.  `list` and
`localDomains` are a domain list in Redis and the process's own set.  A
configuration is reduced to whether it enables external actions and to its
domains; the blacklist's reload task is taken to be enabled in every one.
`aborted` records that an exception ended a reload or the shutdown half way,
`overlapped` that two reloads overlapped.

* `ManagersAccounted`: the manager in use is never closed, every other one is
  closed or about to be by the reload that replaced it, and the last one by the
  shutdown, unless an exception (`aborted`) prevents it.
* `ListenerRuns`: never no listener, though overlapping reloads may leave two.
* `DomainsComplete`: after all reloads every local domain is known.
* `Settled`: a reload on its own leaves one configuration in force in the parts it
  reaches, in memory and, unless it was edited since, on disk; a save that failed
  at its last step leaves one in memory that is nowhere else; and the parts that a
  reload does not reach all keep the configuration of the start.
* `NobodyWaits` (liveness): reloads and the shutdown end.

Overlapping reloads may leave parts with different configurations, members of
an older configuration in the lists, and tasks that nobody cancels until the
process ends; the properties say what holds in spite of that.

### MultiServer

`servers` is the registry in memory and `file` what its file holds, which is
`Torn` after a crash or a failure in the middle of a write (the file is opened
for writing and filled in place); a process that finds it so does not start.
`Change` is any of add, update, enable, disable and remove, with its save.
`condition` counts the outages and recoveries of a server: it is up when the
number is even, and a status in `cache` is the number a check found, so that an
older status is a smaller number.  `loop` is the health loop, which asks every
enabled server in a thread of its own and stores all results together;
`refresher` are the refreshes on demand, `call` the calls of
`execute_on_all_servers`, whose coroutines look the server up again one by one.

* `FileFollows`: the file of a running process holds its registry, unless the
  last save failed.
* `NeverBack`: a status is replaced by an older one only when two checks of that
  server overlapped.
* `FullReport`: a call that returns names every server that was enabled when it
  began, and claims a success only where there was one.
* `CacheCatchesUp` (liveness): while the loop runs, the cache comes to tell the
  truth about an enabled server and keeps telling it.

A check finds what is so at that moment: one that times out against a server
that is up (`client.py:43-62`) is left out, so `CacheCatchesUp` says nothing of
a server whose checks keep timing out.  A server of the run goes down once and does not come back within
it; the proofs hold for any number of outages and recoveries.

## 3. Runs

| Run | Instance | Shows |
|---|---|---|
| `breaker` | 3 callers, thresholds of 2, recovery after 2 seconds, Redis that stops and comes back with or without its scripts, 1 other error reply, fair | all properties of `CircuitBreaker` |
| `lock_faults` | 1 account, 2 workers, 1 failed/late/repeated command, 1 crash, listener restart or reload | `StrandedOnlyByLapse` |
| `lock_operator` | 1 worker, an operator in the middle of slow lock jobs (`Prompt = FALSE`), a crash or a reload, a list of 2 events | `TypeOK`, `ImplementsObligation` |
| `lock_calm` | 2 workers, no faults, no operator, two penalty steps, fair | the properties of undisturbed operation, `UnlockedUnlessRaced` |
| `rate` | 2 connections, four configurations (a fixed window, a sliding window and a bucket of 2 ticks a token, each scaled by its messages' multipliers, and one limit behind another), 1 fault, 1 reset | all properties of `RateLimiter` |
| `actions` | 1 account, 2 workers, 2 fallbacks, 2 calls of close, 3 actions, queue of 2, fair | all properties of `ActionManager` |
| `pipeline` | 3 connections, 2 permits, 2 workers, 2 requests, 1 fault, fair | all properties of `RequestPipeline` |
| `reload` | 2 requests and 1 SIGHUP for 2 reloads, 3 configurations, 1 fault, fair | all properties of `ConfigReload` |
| `servers` | 2 servers, each with 1 outage, the health loop, 1 refresh or call to all, 2 changes, 1 failed save or crash, fair | all properties of `MultiServer` |
| `lock_extended`, `lock_metadata`, `rate_slow_bucket` | section 5 | violations |

**Bounds.**  Every bound is a constant named in the module and marked `bound`.
The hazards are races of two: two workers, two connections, two calls of close,
two lock events of one burst, two reloads, the health loop and one refresh; a
third actor adds a repetition of the same race.  The third connection of
`pipeline` is there to wait for a permit.  One fault is enough to separate any
two commands; the proofs cover any number.  The clocks run over several windows
or over two locks in a row, so that what expires, expires during the run and is
used again.  One outage makes a status old, and two changes remove a server
and bring it back.  `MaxClock`, `MaxActions`, `MaxFaults` and the rest only cut
behaviours off; they disable no other action.

**Fairness.**  Connections, workers, the listener, the health loop, reloads and
the calls of close are asyncio tasks that the loop runs again and again, and
every command, read, write and provider's call has a timeout: weak fairness of
each task's next step.  Time passes.  Nothing is assumed of senders, operators
and crashes, except in `UnlockedUnlessRaced` and `WaitingServed`, which speak of
runs in which the senders calm down: a sender who is always over the limit is
rightly locked again and again, and a client may keep a connection by always
having another request.  `CacheCatchesUp` speaks of servers that stay enabled
while the loop stays on.  `Recovers` uses strong fairness of success, for a
caller whose calls may be cancelled but not always.

**Deadlock** is checked except where the system may rest: `ActionManager` with
nothing to do, `ConfigReload` after the shutdown, `MultiServer` when nobody asks
for anything or a torn file keeps it from starting.  There the liveness
properties say that nobody is left waiting.

**Mutants.**  Every property is paired with a faulty variant of a definition, as
a plausible mistake in that code would make it, under which the property
fails.  The variants stand before the definition they vary and are used by
nothing.

## 4. Proofs

Each module has its theorems in a module of its own, `...Proofs`.  They hold for
every value of the constants that satisfies the module's assumptions: any number
of actors, faults, crashes and requests.  Further assumptions are named in the
theorem itself.

| Module | Theorems (`Spec =>` always ...) | The inductive invariant adds |
|---|---|---|
| `CircuitBreakerProofs` | `TypeOK`, `TripsOnTime`, `TripEarned`, `RecoveryEarned`, `LateFailuresBounded` | `LateLeft`: late failures and callers in flight are together fewer than the callers; the count of failures is the streak of failures while closed; the successes counted in HALF_OPEN are at most the streak of successes |
| `LockLifecycleProofs` | `TypeOK`, `StrandedOnlyByLapse` | `Accounted`: who is responsible for an account at each moment, also for one that is about to be locked |
| | `Refinement` (`Spec => ImplementsObligation`), `OnlyPossibleCauses` | `Accounted` and, for each account, `Excused`: the causes on record are possible ones, and there is a manager unless a restart took it away |
| | `CalmlyLockedIsOwed`, if nothing fails, restarts, acts by hand or extends | (follows from `StrandedOnlyByLapse` and `OnlyPossibleCauses`) |
| | `OneLocker`, if `Prompt` and there is no operator | `Guarded`: the key of an account under lock lives as long as its job |
| | `PenaltyWillExpire`, if nothing fails and nothing restarts | each penalty has a time to live or a job about to set it |
| | `NeverDueEarly`, if besides `Prompt` holds, nobody acts by hand and no recheck extends a lock | `YoungKeys`: until its unlock is scheduled, a lock's key is as young as when it was set |
| `RateLimiterProofs` | `TypeOK`, `QuietSenderAllowed` | `Fits`: the hash of a key has the shape of its algorithm and no instant in the future |
| | `ExpiryHarmless`, if every bucket fills up within the life of its hash | what a hash of each shape says once its life is over |
| | `UsageAgrees`, if no duration exceeds the time since the epoch | `Fits` again: the windows of a hash belong to its limit |
| | `ScaledWellFormed`, `ScalingDirection`, `MultiplierBounded` | (facts about the operators) |
| `RateLimiterBoundProofs` | `FixedWindowBound`, `SlidingWindowBound`; `SlowBucketBound` | `Tally`: the hash of a key agrees with the messages its script let through |
| | `QuotaBound`, if every bucket fills up within the life of its hash | the same |
| `ActionManagerProofs` | `TypeOK`, `Refinement` (`Spec => ImplementsExecutor`) | see below |
| | `LastAcceptedWins` | `OrderInv`: the queue is sorted, a worker has the newest action of its account, the account is as its newest action left it |
| | `AcceptedNeverStuck` | `Unmarked`: before a call of close is past `join` no worker is gone and no mark is in the queue |
| | `CloseNeverStuck`, if close is called once, or twice and the queue holds as many marks as there are workers | `MarksKept`: every mark put is in the queue or has sent one worker away |
| `RequestPipelineProofs` | `TypeOK`, `Accounted`, `NoDenialForgotten`, `OnePerWorker` | sums over the connections; who has notified in this cooldown |
| | `PermitsKept`, `WaitingServable`, `MutedIsNotified` | the same, and who stands in the line of the semaphore |
| `ConfigReloadProofs` | `TypeOK`, `ManagersAccounted`, `ListenerRuns`, `DomainsComplete` | see below |
| | `Settled` | `Stage`: for each step of a lone reload, the parts, tasks and lists that still wait for it |
| | `NobodyStuck` | `WaitInv`: the task somebody waits for was cancelled |
| `MultiServerProofs` | `TypeOK`, `FileFollows`, `FullReport`, `NeverBack` | `Reported`: where each server of a call stands; `Ordered`: a result under way is newer than the cache |

**LockLifecycle.**  `IInv == TypeOK /\ Accounted`.  `Accounted` strengthens the
property to the moments in which a job is responsible for an account that is
not locked yet (a lock job that has scheduled the unlock and is about to lock),
and to the responsibility of a listener that holds the entries of a poll.  The
proof has a lemma per kind of step: `QuietStep` for steps that change nothing the
invariant reads, `CarrierStep` for steps that hand the responsibility from the
schedule to the listener, to the list, to a worker; then one case per action.
`OneLocker` needs `Prompt`: with jobs slower than the key's life it is false.
`NeverDueEarly` needs all its assumptions: a failed SET NX, a crash before the
schedule, an extension and an operator's lock all leave a key without the entry
that covers it.  Its invariant `Covered` leaves out the accounts whose lock has a
key and no entry yet (`Planned`).

`Refinement` goes by `Promised(e)`, what a step of the code may do to one account:
nothing or the duty taken up, the account locked while the duty stands, the
unlock, or the duty given up for a cause.  `QuietPromise` covers the steps that
touch none of it, `CarrierPromise` those that hand the duty on, and there is one
lemma for each kind of job, for the listener, for the operator and for the
environment; `PromisedMaps` turns it into a step of `LockObligation`.  The
invariant is needed twice: an account is locked only while its unlock is
owed or a cause is on record (`Accounted`), and an unlock that finds no manager
has a restart behind it (`Excused`).

**ActionManager.**  The invariant counts (`unfinished` is the number of entries in
the queue plus the busy workers), keeps every number of an accepted action
without an outcome in exactly one place (the queue or a worker's hand), and says
what is left of these when a call of close is past `join`.  From it each action
of the manager is an action of `ActionExecutor` under the mapping, or a stutter;
the capacity comes from the cardinality of what is queued and in hand.
`LastAcceptedWins` rests on the order: an action has begun if it is in the queue
no more, entries leave in the order they came in (`Sorted`, `Later`), so that a
worker that takes an action takes the newest begun one of its account, and a
request that lands late puts its account among the `disordered` if a newer action
has begun.

**RequestPipeline.**  `Accounted` and `NoDenialForgotten` are sums: the counters
equal the number of connections in the states past the outcome, plus what is
over.  `Number(K)` is the cardinality of the connections in the states `K`, and a
lemma says how it changes when one connection moves.

**ConfigReload.**  Who remembers which manager is the inductive part: managers
that are closing or remembered by a reload are older than the one in use, no
manager after the shutdown began is replaced, the task in `listenerTask` is never
cancelled but by a reload that is going to replace it, and a reload that has
emptied the domains is going to add those of the configuration in force, or of
an older one while a newer reload is behind it.  `Settled` is about runs in which
at most one coroutine is under way at a time: `Stage(proc[p])` describes the whole
state by where that one is, and each step leads from its stage to the next.  That the
other parts keep one configuration follows from `KeptUntouched`: no step gives them
another.

**CircuitBreaker.**  `CountsAreEvidence` ties the code's counters to the history,
whatever state the failing and succeeding calls were admitted in.  `LateLeft` is
a count: the failure that opens the breaker takes its caller out of flight, each
late failure takes another one out, and nobody is sent out while it is OPEN, also
not by the EVAL after a failed EVALSHA.

**RateLimiter.**  `QuietSenderAllowed` follows from `Fits` and from arithmetic on
the three scripts: after the quiet time a window is new, and a bucket has
refilled a token or is forgotten.  So does `ExpiryHarmless`, for which a bucket
must be full when its hash expires: the run `rate_slow_bucket` shows one that is
not.  `UsageAgrees` compares the script's test, multiplied out, with the rounded
usage of `get_usage`.

`RateLimiterBoundProofs` relates each hash to `granted`, the history of what its
script let through.  A fixed window: the hash has what was let through since its
window began, so that a stretch as long as the window is cut by at most one
beginning of a window, and each part holds at most the count.  A sliding window:
the two counts are what was let through in the two windows (`Within`), and the
weight a script gives to the older one has lost no more than the elapsed share of
it.  A bucket: what was let through in a stretch, plus what the hash would still
give at its end, is at most what it had at its beginning plus the refill.
Forgetting a hash is harmless to the windows; to a bucket it gives at most what
is missing when the hash expires.  `SlowBucketBound` counts that, and so holds
of every bucket, also of those for which `rate_slow_bucket` shows
`TokenBucketBound` violated: the refill of such a bucket is that of one whose
capacity comes back within the life of the hash (`DueRefill`).  With buckets that
fill up in time the two bounds are one, which is `QuotaBound`.
`FiniteAssumption` (a configuration lists finitely many quotas) is there because the
bound is that of the largest of the quotas that share a key, which must exist.

**Nobody waits in vain.**  What liveness says in the end has a part that is an
invariant: in no state does anybody wait for something that nobody is left to
bring.  That part is proved, for any number of actors.  An accepted action that
is not over has a worker at work or a worker with an entry to take
(`AcceptedNeverStuck`); a call of close can go on, or a worker can work
(`CloseNeverStuck`); a client that waits is in the line, and while no permit is
free somebody is being served (`WaitingServable`, from the exact count of permits
in `PermitsKept`); a reload or a shutdown waits only for a task that was cancelled
(`NobodyStuck`); a sender in the cooldown has been notified or is about to be,
unless a command failed (`MutedIsNotified`).  `CloseNeverStuck` counts the marks:
the calls of close put at most one each per worker, every mark is in the queue or
has sent one worker away, so that with two calls the marks that nobody is left to
take are at most as many as the workers.  With a smaller queue, or a third call, it
is false: TLC finds the second call waiting for room, and the third in `join`.

**Only model-checked.**  All liveness (`Recovers`, `UnlockedUnlessRaced`,
`CloseReturns`, `AcceptedEnds`, `WaitingServed`, `DenialNotified`, `NobodyWaits`,
`CacheCatchesUp`) is beyond the prover, which knows neither ENABLED nor fairness: the paragraph above
is what of `CloseReturns`, `AcceptedEnds`, `WaitingServed`, `DenialNotified` and
`NobodyWaits` is proved; that what can go on does go on in time is left to TLC.
Every invariant and every refinement a passing run checks is also a theorem.
Nothing here is defined by recursion, so that no induction over data is needed.

## 5. Where the code and its documents part

Each is the violation of one property in a run of its own.

| Run | Claim | What happens |
|---|---|---|
| `lock_extended` | `README.md:3`, `OPERATIONS_RUNBOOK.md:263`: locks end by themselves | an extended lock is never scheduled again |
| `lock_metadata` | `tests/test_handler_integration.py:266` | the metadata is gone when the unlock is due |
| `rate_slow_bucket` | `README.md:225` | the bucket is forgotten before it is full |

Also met while modelling, without a run of their own:

* `handler.py:599` says "Retry unlock", and nothing retries (the lapse `failed`).
* After a restart of Redis every EVALSHA raises NOSCRIPT from a Redis that is up,
  which the breaker counts as a failure.  A burst of them trips it; in HALF_OPEN
  one is enough to open it again, and the EVAL that would load the script is
  rejected (`limiter.py:222`).  As long as each recovery meets an EVALSHA before
  enough other commands have succeeded, the breaker stays OPEN: with `scripts` taken
  out of `Recovers`, TLC finds that cycle.  Until an EVAL gets through, only a
  reload of the configuration loads them (`limiter.py:161`), if the breaker lets it.
* A reload is not applied in full: the credentials of the management API, the
  Redis client with its breaker, the permits of the server, the number of
  background workers and the timeout of the notifier's script runner stay as they
  were at the start.  `PRIORITIZED_AUDIT.md:50-58` says so of the permits and the
  workers, `README.md:445` promises that saving reloads the runtime.
* `circuit_breaker.py:29` speaks of limited calls in HALF_OPEN; nothing limits them.
* `config_manager.py:18` speaks of atomic file writes and rollback; when
  `os.replace` fails, memory is not rolled back (`unstored` in `Settled`).
* A burst of denials takes the first lock to the second penalty step, because
  INCR comes before the SET NX that one event wins (`handler.py:418`, 440).
* An unlock event processed late ends a newer lock (`handler.py:586`): the lapse
  `overtaken`, the only one left in `lock_calm`.
* INCR and EXPIRE of a penalty are two commands: a crash between them leaves a
  penalty without time to live, and then `README.md:161` (wait for the TTL) fails.
* A fixed window admits up to twice its count across two windows; its bound is
  stated so.
* `get_usage` of a bucket rounds the used part down where the script rounds it up.
* Tightening rounds a count up and a refill not at all: a bucket of small count
  and long duration (5 in an hour, at a half) is forgotten before it is full.  An
  adaptive multiplier turns a count of zero, which lets nothing through, into one.
* A blacklist that is not UTF-8 ends the reload task, and every later reload and
  the shutdown then raise in `validator.stop` (`validator.py:33-39`): the lists are
  not reloaded, the replaced action manager and Redis are not closed.  The
  properties of `ConfigReload` have `aborted` for it.
* The registry's file is written in place (`multiserver/registry.py:98`): a crash
  in the middle keeps the manager from starting again.
* In a policy, `@sasl:<x>` is never reached, because the value is split at every
  colon and must have three parts; names of quotas and lists are lower-cased
  when read and looked up as written; a list taken out of the configuration
  stays in Redis.

## 6. Not modelled, and the plan

Not modelled: LDAP, the notification channels, the formats of settings, rules
and HTTP (input and output with no state of their own; their results are
constants or free choices), the legacy middlewares (unused).  Policy matching is
a comparison of strings without state, so that whether a message finds a policy
is a free choice in `RequestPipeline`.  Partly modelled: the components that
section 1 says so of; of the multi-server manager, aggregated statistics, tags
and `execute_on_servers` (the call to all, with a given list) are left out, of the
configuration manager the backups and the checks of a candidate, of the policy
server the socket file and the end of its connections at shutdown.

Next, the most important first: the composition of the unlocks of `LockLifecycle`
with the asynchronous `ActionManager`, whose outcome reaches nobody; an abstract
specification of the circuit breaker and of a server's status that forget the
counters and the threads.
