----------------------------- MODULE RateLimiter -----------------------------
(***************************************************************************)
(* The rate limiter (src/policyd_py/ratelimit/limiter.py) as seen for one  *)
(* sender.  Each limit of a quota has a hash in Redis, and one Lua script  *)
(* per algorithm reads the hash, decides and writes it, atomically.        *)
(* check_limit runs the scripts of a message's limits one after the other; *)
(* between two of them, and between a failed EVALSHA and the EVAL that     *)
(* follows it, the checks of other connections run.                        *)
(*                                                                         *)
(* The key of a hash is made of the algorithm, the sender and the duration *)
(* of the limit, and not of its count: quotas that differ in the count     *)
(* only, and a quota scaled by the adaptive multipliers of different       *)
(* messages (AdaptiveLimits), share it.                                    *)
(*                                                                         *)
(* Times are in ticks, TicksPerSecond to a second: the window algorithms   *)
(* see whole seconds, the token bucket sees ticks (milliseconds in Redis). *)
(* Tokens are integers, Unit to a token, where the code keeps six decimals;*)
(* weights are compared exactly, where the code uses doubles.              *)
(***************************************************************************)
EXTENDS AdaptiveLimits

CONSTANTS
    Clients,        \* connections that check messages of the sender
    Policies,       \* configurations: quotas, which are sequences of limits
                    \* that messages have to pass, and how they are scaled
    Slack,          \* seconds added to a hash's time to live: 60
    Epoch,          \* the first instant
    MaxClock,       \* bound: the last instant
    MaxFaults,      \* bound: commands that fail or are repeated
    MaxResets       \* bound: keys deleted by the operator

ASSUME LimiterAssumption ==
    /\ Policies \subseteq [quotas : SUBSET Seq(Limits), adaptive : AdaptiveConfigs]
    /\ Slack \in Nat /\ Epoch \in Nat /\ MaxClock \in Nat /\ Epoch <= MaxClock
    /\ MaxFaults \in Nat /\ MaxResets \in Nat

(* A configuration lists finitely many quotas.                             *)
ASSUME FiniteAssumption == \A p \in Policies : IsFiniteSet(p.quotas)

(* _key_for_limit                                                          *)
KeyOf(l) == [algorithm |-> l.algorithm, duration |-> l.duration]

(* Per configuration: the multipliers of messages, and the quotas as       *)
(* messages meet them.                                                     *)
Multipliers == [p \in Policies |-> {Multiplier(p.adaptive, s) : s \in Signals}]
Adapted == [p \in Policies |-> {Scaled(q, m) : q \in p.quotas, m \in Multipliers[p]}]

LimitsIn(quotas) == UNION {{q[i] : i \in DOMAIN q} : q \in quotas}
Keys == {KeyOf(l) : l \in UNION {LimitsIn(p.quotas) : p \in Policies}}

VARIABLES
    policy,     \* the configuration in force
    store,      \* per key: the hash and the instant it expires, or Absent
    clock,      \* the time, in ticks
    loaded,     \* whether the scripts' hashes are known (init_scripts)
    check,      \* per client: the message under check and how far it got
    faults, resets,
    granted     \* history, per key: the messages granted up to an instant

vars == <<policy, store, clock, loaded, check, faults, resets, granted>>

Absent == [algorithm |-> "none"]
Hashes ==
    [count : Nat, start : Nat, expires : Nat]
        \cup [prev : Nat, cur : Nat, start : Nat, expires : Nat]
        \cup [tokens : Nat, at : Nat, expires : Nat]
        \cup {Absent}

Second(t) == t \div TicksPerSecond
AtLeast0(n) == IF n < 0 THEN 0 ELSE n

Deny(h, usage) == [allowed |-> FALSE, usage |-> usage, hash |-> h]
Allow(h, usage) == [allowed |-> TRUE, usage |-> usage, hash |-> h]

ExpiresAfterSlack(t, seconds) == t + Slack * TicksPerSecond
ExpiresAfter(t, seconds) == t + (seconds + Slack) * TicksPerSecond

Exhausted(used, count) == used >= count
-----------------------------------------------------------------------------
(* The three scripts: their answer and the hash they leave behind, when    *)
(* they run at instant t on hash h for limit l.  A denial writes nothing.  *)

(* FIXED_WINDOW_LUA                                                        *)
FixedWindow(h, l, t) ==
    LET now == Second(t)
        new == h = Absent \/ now - h.start >= l.duration
        count == IF new THEN 0 ELSE h.count
        start == IF new THEN now ELSE h.start
    IN IF Exhausted(count, l.count)
         THEN Deny(h, count)
         ELSE Allow([count |-> count + 1, start |-> start,
                     expires |-> ExpiresAfter(t, l.duration)], count + 1)

(* SLIDING_WINDOW_COUNTER_LUA: the windows begin at the multiples of the   *)
(* duration, and the previous one counts in proportion to the part of it   *)
(* that the sliding window still covers.  Rolled is the hash brought to    *)
(* the current window.                                                     *)
RolledWithoutCarry(h, l, start) ==
    IF h = Absent \/ start > h.start
      THEN [prev |-> 0, cur |-> 0] ELSE [prev |-> h.prev, cur |-> h.cur]
Rolled(h, l, start) ==
    CASE h = Absent -> [prev |-> 0, cur |-> 0]
      [] h # Absent /\ start <= h.start -> [prev |-> h.prev, cur |-> h.cur]
      [] h # Absent /\ start = h.start + l.duration -> [prev |-> h.cur, cur |-> 0]
      [] OTHER -> [prev |-> 0, cur |-> 0]

(* The effective count times the duration, "elapsed" seconds into a window.*)
Weighed(w, l, elapsed) == w.cur * l.duration + w.prev * (l.duration - elapsed)

SlidingWindow(h, l, t) ==
    LET elapsed == Second(t) % l.duration
        start == Second(t) - elapsed
        w == Rolled(h, l, start)
        more == [w EXCEPT !.cur = @ + 1]
        usage(v) == Ceil(Weighed(v, l, elapsed), l.duration)
    IN IF Exhausted(Weighed(w, l, elapsed), l.count * l.duration)
         THEN Deny(h, usage(w))
         ELSE Allow([prev |-> w.prev, cur |-> w.cur + 1, start |-> start,
                     expires |-> ExpiresAfter(t, 2 * l.duration)], usage(more))

(* TOKEN_BUCKET_LUA                                                        *)
Refilled(h, l, t) == Smaller(l.count * Unit, h.tokens + (t - h.at) * l.refill)

TooFew(tokens) == tokens < Unit

TokenBucket(h, l, t) ==
    LET tokens == IF h = Absent THEN l.count * Unit ELSE Refilled(h, l, t)
        usage(n) == AtLeast0(Ceil(l.count * Unit - n, Unit))
    IN IF TooFew(tokens)
         THEN Deny(h, usage(tokens))
         ELSE Allow([tokens |-> tokens - Unit, at |-> t,
                     expires |-> ExpiresAfter(t, l.duration)], usage(tokens - Unit))

(* _check_single_limit                                                     *)
Script(h, l, t) ==
    CASE l.algorithm = "fixed_window" -> FixedWindow(h, l, t)
      [] l.algorithm = "sliding_window_counter" -> SlidingWindow(h, l, t)
      [] OTHER -> TokenBucket(h, l, t)

(* get_usage, which the recheck of an unlock and the runtime state read:   *)
(* the same numbers computed by the process, on a hash that exists.        *)
FixedUsage(h, l, now) == IF now - h.start >= l.duration THEN 0 ELSE h.count

SlidingUsageOfWindow(h, l, now) == IF now - h.start >= l.duration THEN 0 ELSE h.cur
SlidingUsage(h, l, now) ==
    LET elapsed == now - h.start
        w == IF elapsed < l.duration THEN [prev |-> h.prev, cur |-> h.cur]
                                     ELSE [prev |-> h.cur, cur |-> 0]
    IN IF h.start <= 0 \/ elapsed >= 2 * l.duration
         THEN 0
         ELSE Ceil(Weighed(w, l, elapsed % l.duration), l.duration)

BucketUsage(h, l, t) == AtLeast0((l.count * Unit - Refilled(h, l, t)) \div Unit)

GetUsage(h, l, t) ==
    CASE h = Absent -> 0
      [] h # Absent /\ l.algorithm = "fixed_window" -> FixedUsage(h, l, Second(t))
      [] h # Absent /\ l.algorithm = "sliding_window_counter" -> SlidingUsage(h, l, Second(t))
      [] OTHER -> BucketUsage(h, l, t)

(* What a command sees of a key.                                           *)
Live(k, t) ==
    IF store[k] # Absent /\ t < store[k].expires THEN store[k] ELSE Absent

-----------------------------------------------------------------------------

Idle == [pc |-> "idle", quota |-> << >>, pos |-> 0]

Init ==
    /\ policy \in Policies
    /\ store = [k \in Keys |-> Absent]
    /\ clock = Epoch
    /\ loaded \in BOOLEAN
    /\ check = [c \in Clients |-> Idle]
    /\ faults = 0 /\ resets = 0
    /\ granted = [k \in Keys |-> [t \in Epoch .. MaxClock |-> 0]]

Call == IF loaded THEN "evalsha" ELSE "eval"

(* check_limit is called for a message whose quota is q and whose sender's *)
(* adaptive multiplier is m.                                               *)
Begin(c, q, m) ==
    /\ check[c].pc = "idle"
    /\ q # << >>
    /\ check' = [check EXCEPT ![c] = [pc |-> Call, quota |-> Scaled(q, m), pos |-> 1]]
    /\ UNCHANGED <<policy, store, clock, loaded, faults, resets, granted>>

(* How the command that runs a script may end: see LockLifecycle.  "lost"  *)
(* is also what EVALSHA does when Redis no longer has the script.          *)
Outcomes == {"ok"} \cup (IF faults < MaxFaults THEN {"lost", "late", "twice"} ELSE {})

(* The script's runs a command causes, the last one first.                 *)
RunsOf(o, h, l) ==
    LET one == Script(h, l, clock)
        two == Script(one.hash, l, clock)
    IN CASE o = "lost" -> << >>
         [] o = "twice" -> <<two, one>>
         [] OTHER -> <<one>>

(* The next limit, or the end of the check: the message is allowed.        *)
AdvancedTooFar(c) ==
    IF check[c].pos <= Len(check[c].quota)
      THEN [check[c] EXCEPT !.pc = Call, !.pos = @ + 1]
      ELSE Idle
Advanced(c) ==
    IF check[c].pos < Len(check[c].quota)
      THEN [check[c] EXCEPT !.pc = Call, !.pos = @ + 1]
      ELSE Idle

(* A denial ends the check, and what earlier limits counted stays counted. *)
(* An EVALSHA that fails for whatever reason is followed by an EVAL of the *)
(* same limit; an EVAL that fails ends the check with an error.            *)
RunScript(c) ==
    /\ check[c].pc \in {"evalsha", "eval"}
    /\ \E o \in Outcomes :
         LET l == check[c].quota[check[c].pos]
             k == KeyOf(l)
             runs == RunsOf(o, Live(k, clock), l)
             yes == Cardinality({i \in DOMAIN runs : runs[i].allowed})
         IN /\ faults' = IF o = "ok" THEN faults ELSE faults + 1
            /\ store' = IF yes > 0 THEN [store EXCEPT ![k] = runs[1].hash] ELSE store
            /\ granted' = [granted EXCEPT ![k] =
                  [t \in DOMAIN granted[k] |->
                      granted[k][t] + (IF t < clock THEN 0 ELSE yes)]]
            /\ check' = [check EXCEPT ![c] =
                 IF o \in {"lost", "late"}
                   THEN IF check[c].pc = "evalsha" THEN [check[c] EXCEPT !.pc = "eval"] ELSE Idle
                   ELSE IF runs[1].allowed THEN Advanced(c) ELSE Idle]
    /\ UNCHANGED <<policy, clock, loaded, resets>>

(* init_scripts, at a reload of the configuration: a hash once loaded is   *)
(* never forgotten, whether or not ratelimit_use_lua is still set.         *)
LoadScripts ==
    /\ ~loaded
    /\ loaded' = TRUE
    /\ UNCHANGED <<policy, store, clock, check, faults, resets, granted>>

(* reset_limit deletes one key; reset_ratelimit_manually does it for every *)
(* configured limit, one command each, until one of them fails.            *)
ResetLimit(k) ==
    /\ resets < MaxResets
    /\ resets' = resets + 1
    /\ store' = [store EXCEPT ![k] = Absent]
    /\ granted' = [granted EXCEPT ![k] = [t \in DOMAIN granted[k] |-> 0]]
    /\ UNCHANGED <<policy, clock, loaded, check, faults>>

Tick ==
    /\ clock < MaxClock
    /\ clock' = clock + 1
    /\ UNCHANGED <<policy, store, loaded, check, faults, resets, granted>>

Next ==
    \/ \E c \in Clients :
         \/ RunScript(c)
         \/ \E q \in policy.quotas, m \in Multipliers[policy] : Begin(c, q, m)
    \/ LoadScripts
    \/ \E k \in {KeyOf(l) : l \in LimitsIn(policy.quotas)} : ResetLimit(k)
    \/ Tick

Spec == Init /\ [][Next]_vars
-----------------------------------------------------------------------------
(* Every variable stays in its type.                                       *)
TypeOK ==
    /\ policy \in Policies
    /\ store \in [Keys -> Hashes]
    /\ clock \in Epoch .. MaxClock
    /\ loaded \in BOOLEAN
    /\ \A c \in Clients :
         \/ check[c] = Idle
         \/ /\ check[c].pc \in {"evalsha", "eval"}
            /\ check[c].quota \in Adapted[policy]
            /\ check[c].pos \in DOMAIN check[c].quota
    /\ faults \in Nat /\ resets \in Nat
    /\ \A k \in Keys : \A t \in Epoch .. MaxClock : granted[k][t] \in Nat

(* Messages granted by a key in the instants from .. to.                   *)
UpTo(k, t) == IF t < Epoch THEN 0 ELSE granted[k][Smaller(t, MaxClock)]
Granted(k, from, to) == UpTo(k, to) - UpTo(k, from - 1)

(* Messages granted in the n seconds from second s on.                     *)
InSeconds(k, s, n) == Granted(k, s * TicksPerSecond, (s + n) * TicksPerSecond - 1)

LimitsOf(k) == {l \in LimitsIn(Adapted[policy]) : KeyOf(l) = k}
KeysInUse(a) == {KeyOf(l) : l \in {m \in LimitsIn(policy.quotas) : m.algorithm = a}}

Largest(S) == CHOOSE n \in S : \A m \in S : m <= n
TopCount(k) == Largest({l.count : l \in LimitsOf(k)})
TopRefill(k) == Largest({l.refill : l \in LimitsOf(k)})

(* A fixed window lets through at most twice its count in any stretch of   *)
(* its duration, wherever the stretch begins, through expiries of the hash,*)
(* repeated scripts and quotas that share the key.                         *)
FixedWindowBound ==
    \A k \in KeysInUse("fixed_window") :
        \A s \in Second(Epoch) .. Second(clock) :
            InSeconds(k, s, k.duration) <= 2 * TopCount(k)

(* The sliding counter does better: in the last "duration" seconds at most *)
(* the count, rounded up, and the share of the previous window that its    *)
(* weight has given up, e/d of what that window granted.                   *)
SlidingWindowBound ==
    \A k \in KeysInUse("sliding_window_counter") :
        LET d == k.duration
            e == Second(clock) % d
            previous == InSeconds(k, Second(clock) - e - d, d)
        IN InSeconds(k, Second(clock) - d + 1, d) * d
             <= TopCount(k) * d + (d - 1) + previous * e

(* A bucket lets through no more than its capacity and what was refilled,  *)
(* in any stretch of time.                                                 *)
TokenBucketBound ==
    \A k \in KeysInUse("token_bucket") :
        \A s \in Epoch .. clock : \A t \in s .. clock :
            Granted(k, s, t) * Unit <= TopCount(k) * Unit + (t - s) * TopRefill(k)

(* What the quotas promise (check_limit, limiter.py:174): whatever the     *)
(* algorithm, and whatever was repeated, reset, forgotten or shared with   *)
(* another quota, no stretch of time sees more messages than its bound.    *)
QuotaBound == FixedWindowBound /\ SlidingWindowBound /\ TokenBucketBound

(* The expiry of a hash never changes an answer, nor the hash that a       *)
(* message let through leaves behind: what the hash would have said when it*)
(* expired is what its absence says.                                       *)
SameEffect(run, other) ==
    /\ run.allowed = other.allowed /\ run.usage = other.usage
    /\ run.allowed => run.hash = other.hash

ExpiryHarmless ==
    \A k \in Keys : store[k] # Absent /\ clock >= store[k].expires =>
        \A l \in LimitsOf(k) :
            SameEffect(Script(store[k], l, clock), Script(Absent, l, clock))

(* Nobody is shut out for ever: whatever happened before, a sender whose   *)
(* quota lets anything through, and who keeps quiet long enough, is let    *)
(* through, whatever multiplier the next message gets.                     *)
QuietTime(l) ==
    CASE l.algorithm = "fixed_window" -> l.duration * TicksPerSecond
      [] l.algorithm = "sliding_window_counter" -> 2 * l.duration * TicksPerSecond
      [] OTHER -> IF l.refill = 0 THEN (l.duration + Slack) * TicksPerSecond
                                  ELSE Ceil(Unit, l.refill)

QuietSenderAllowed ==
    \A base \in LimitsIn(policy.quotas), m \in Multipliers[policy] :
        base.count > 0 =>
            LET l == ScaledLimit(base, m)
                t == clock + QuietTime(l)
            IN Script(Live(KeyOf(l), t), l, t).allowed

(* The usage that decides whether a lock is extended (handler.py:613) and  *)
(* the script that judges the next message agree: while the script of a    *)
(* window denies, the usage says "exceeded", so that an unlock does not    *)
(* hand the account back to a limit still exhausted; for a fixed window it *)
(* says so only then, so that no lock is extended although the next        *)
(* message would pass.  (The usage of a sliding window is rounded up; that *)
(* of a bucket is rounded down, and may say "not exceeded" while the       *)
(* script denies.)                                                         *)
UsageAgrees ==
    \A k \in KeysInUse("fixed_window") \cup KeysInUse("sliding_window_counter") :
        \A l \in LimitsOf(k) :
            LET h == Live(k, clock)
                denied == ~Script(h, l, clock).allowed
                exceeded == GetUsage(h, l, clock) >= l.count
            IN /\ denied => exceeded
               /\ exceeded /\ k.algorithm = "fixed_window" => denied
=============================================================================
