-------------------------- MODULE RateLimiterProofs --------------------------
(***************************************************************************)
(* What AdaptiveLimits and RateLimiter guarantee for any configuration,    *)
(* number of clients, faults and resets: that scaling keeps limits well    *)
(* formed and open, the types, and that a sender who keeps quiet is let    *)
(* through again.  Everything follows from UnitAssumption and              *)
(* LimiterAssumption.                                                      *)
(***************************************************************************)
EXTENDS RateLimiter, FiniteSetTheorems, TLAPS

(* Division, rounded up and down.                                          *)
LEMMA DivFacts ==
    ASSUME NEW n \in Nat, NEW d \in Nat \ {0}
    PROVE  /\ n \div d \in Nat
           /\ d * (n \div d) <= n /\ n < d * (n \div d) + d
<1>1. n = d * (n \div d) + (n % d) /\ n % d \in 0 .. (d - 1) /\ n \div d \in Int
  OBVIOUS
<1>2. n \div d >= 0
  OBVIOUS
<1> QED
  BY <1>1, <1>2

LEMMA CeilFacts ==
    ASSUME NEW n \in Nat, NEW d \in Nat \ {0}
    PROVE  Ceil(n, d) \in Nat /\ Ceil(n, d) * d >= n
<1>1. n + d - 1 \in Nat
  OBVIOUS
<1> DEFINE q == (n + d - 1) \div d
<1>2. q \in Nat /\ n + d - 1 < d * q + d
  BY <1>1, DivFacts
<1>3. d * q \in Int /\ d * q = q * d
  BY <1>2
<1>4. q * d >= n
  BY <1>2, <1>3
<1> QED
  BY <1>2, <1>4 DEF Ceil
-----------------------------------------------------------------------------
(* Scaling keeps a limit well formed and its key; a limit that lets        *)
(* messages through still does, however small the multiplier.              *)
THEOREM ScaledWellFormed ==
    ASSUME NEW l \in Limits, NEW m \in Nat
    PROVE  /\ ScaledLimit(l, m) \in Limits /\ KeyOf(ScaledLimit(l, m)) = KeyOf(l)
           /\ ScaledLimit(l, m).algorithm = l.algorithm
           /\ ScaledLimit(l, m).duration = l.duration
           /\ l.count > 0 => ScaledLimit(l, m).count > 0
<1>1. CASE m = Whole
  BY <1>1 DEF ScaledLimit
<1>2. CASE m # Whole
  <2>1. l.count * m \in Nat /\ Whole \in Nat \ {0}
    BY DEF Limits, Whole
  <2>2. ScaledCount(l.count, m) \in Nat \ {0}
    BY <2>1, CeilFacts DEF ScaledCount, Larger
  <2>3. l.refill * m \in Nat /\ l.duration * TicksPerSecond \in Nat \ {0} /\ Unit \in Nat
    BY UnitAssumption DEF Limits
  <2>4. (l.refill * m) \div Whole \in Nat /\ Unit \div (l.duration * TicksPerSecond) \in Nat
    BY <2>1, <2>3, DivFacts
  <2>5. ScaledRefill(l, m) \in Nat
    BY <2>4 DEF ScaledRefill, Larger, Limits
  <2>6. ScaledLimit(l, m)
          = [l EXCEPT !.count = ScaledCount(l.count, m), !.refill = ScaledRefill(l, m)]
    BY <1>2 DEF ScaledLimit
  <2>7. PICK n, r \in Nat : n = ScaledCount(l.count, m) /\ r = ScaledRefill(l, m)
    BY <2>2, <2>5
  <2>8. ScaledLimit(l, m) = [l EXCEPT !.count = n, !.refill = r] /\ n > 0
    BY <2>2, <2>6, <2>7
  <2> QED
    BY <2>8 DEF Limits, KeyOf
<1> QED
  BY <1>1, <1>2

(* A factor that relaxes never lowers a count, one that tightens never     *)
(* raises it, and never lowers it to nothing.                              *)
THEOREM ScalingDirection ==
    ASSUME NEW n \in Nat, n > 0, NEW m \in Nat
    PROVE  /\ m >= Whole => ScaledCount(n, m) >= n
           /\ m <= Whole => ScaledCount(n, m) \in 1 .. n
<1>1. PICK p : p = n * m
  OBVIOUS
<1>2. p \in Nat
  BY <1>1
<1>3. m >= Whole => p >= n * Whole
  BY <1>1 DEF Whole
<1>4. m <= Whole => p <= n * Whole
  BY <1>1 DEF Whole
<1>5. PICK q : q = (p + Whole - 1) \div Whole
  OBVIOUS
<1>6. q \in Int /\ Whole * q <= p + Whole - 1 /\ p + Whole - 1 < Whole * q + Whole
  BY <1>2, <1>5 DEF Whole
<1>7. m >= Whole => q >= n
  BY <1>2, <1>3, <1>6 DEF Whole
<1>8. m <= Whole => q <= n
  BY <1>2, <1>4, <1>6 DEF Whole
<1>9. ScaledCount(n, m) = Larger(1, q)
  BY <1>1, <1>5 DEF ScaledCount, Ceil
<1> QED
  BY <1>6, <1>7, <1>8, <1>9 DEF Larger

(* The factors of a message are at most three.                             *)
LEMMA ThreeFactors ==
    ASSUME NEW a \in AdaptiveConfigs, NEW s \in Signals
    PROVE  \E x, y, z \in Nat : Factors(a, s) \subseteq {x, y, z}
<1> DEFINE x == IF s.sasl THEN a.authenticated ELSE a.unauthenticated
           y == IF s.domain = "local" THEN a.local ELSE a.external
<1>1. x \in Nat /\ y \in Nat /\ a.trusted \in Nat
  BY DEF AdaptiveConfigs
<1>2. Factors(a, s) \subseteq {x, y, a.trusted}
  BY DEF Factors, Signals
<1> QED
  BY <1>1, <1>2

LEMMA StrongestType ==
    ASSUME NEW a \in AdaptiveConfigs, NEW s \in Signals
    PROVE  Strongest(Factors(a, s)) \in Nat
<1>1. PICK x, y, z \in Nat : Factors(a, s) \subseteq {x, y, z}
  BY ThreeFactors
<1> DEFINE F == Factors(a, s)
<1> HIDE DEF F
<1>2. F \subseteq {x, y, z}
  BY <1>1 DEF F
<1>3. CASE Relaxing(F) # {}
  <2>1. Relaxing(F) \subseteq {x, y, z} /\ \A f \in Relaxing(F) : f \in Nat
    BY <1>2 DEF Relaxing
  <2>2. \E f \in Relaxing(F) : \A g \in Relaxing(F) : g <= f
    BY <1>3, <2>1
  <2>3. Strongest(F) \in Relaxing(F)
    BY <1>3, <2>2 DEF Strongest
  <2> QED
    BY <2>1, <2>3 DEF F
<1>4. CASE Relaxing(F) = {} /\ Tightening(F) # {}
  <2>1. Tightening(F) \subseteq {x, y, z} /\ \A f \in Tightening(F) : f \in Nat
    BY <1>2 DEF Tightening
  <2>2. \E f \in Tightening(F) : \A g \in Tightening(F) : f <= g
    BY <1>4, <2>1
  <2>3. Strongest(F) \in Tightening(F)
    BY <1>4, <2>2 DEF Strongest
  <2> QED
    BY <2>1, <2>3 DEF F
<1>5. CASE Relaxing(F) = {} /\ Tightening(F) = {}
  BY <1>5 DEF Strongest, Whole, F
<1> QED
  BY <1>3, <1>4, <1>5

LEMMA MultiplierType ==
    ASSUME NEW a \in AdaptiveConfigs, NEW s \in Signals
    PROVE  Multiplier(a, s) \in Nat
BY StrongestType DEF Multiplier, Clamped, Smaller, Larger, AdaptiveConfigs, Whole

(* Whatever the factors, the multiplier stays between its bounds, if they  *)
(* are the right way round; otherwise it is the maximum.                   *)
THEOREM MultiplierBounded ==
    ASSUME NEW a \in AdaptiveConfigs, NEW s \in Signals, a.enable
    PROVE  IF a.minimum <= a.maximum
             THEN Multiplier(a, s) \in a.minimum .. a.maximum
             ELSE Multiplier(a, s) = a.maximum
BY StrongestType DEF Multiplier, Clamped, Smaller, Larger, AdaptiveConfigs
-----------------------------------------------------------------------------
(* A hash as the script of its key's algorithm leaves it, none of it later *)
(* than instant t, which lives until its window no longer counts.          *)
WindowHashes == [count : Nat, start : Nat, expires : Nat]
CounterHashes == [prev : Nat, cur : Nat, start : Nat, expires : Nat]
BucketHashes == [tokens : Nat, at : Nat, expires : Nat]

BeginsWindow(s, d) == (\E n \in Nat : s = n * d) /\ Second(Epoch) < s + d

Fits(k, h, t) ==
    \/ h = Absent
    \/ /\ k.algorithm = "fixed_window" /\ h \in WindowHashes /\ h.start <= Second(t)
       /\ (h.start + k.duration) * TicksPerSecond <= h.expires
    \/ /\ k.algorithm = "sliding_window_counter" /\ h \in CounterHashes
       /\ h.start <= Second(t) /\ BeginsWindow(h.start, k.duration)
       /\ (h.start + 2 * k.duration) * TicksPerSecond <= h.expires
    \/ /\ k.algorithm = "token_bucket" /\ h \in BucketHashes /\ h.at <= t
       /\ h.expires = ExpiresAfter(h.at, k.duration)

LEMMA SecondFacts ==
    ASSUME NEW t \in Nat, NEW n \in Nat
    PROVE  /\ Second(t) \in Nat
           /\ Second(t) * TicksPerSecond <= t
           /\ Second(t + n * TicksPerSecond) = Second(t) + n
           /\ \A u \in Nat : t <= u => Second(t) <= Second(u)
<1>0. PICK d \in Nat \ {0} : d = TicksPerSecond
  BY UnitAssumption
<1>1. \A u \in Nat : Second(u) \in Nat /\ d * Second(u) <= u /\ u < d * Second(u) + d
  BY <1>0, DivFacts DEF Second
<1>2. ASSUME NEW u \in Nat, t <= u PROVE Second(t) <= Second(u)
  <2>1. SUFFICES ASSUME Second(u) + 1 <= Second(t) PROVE FALSE
    BY <1>1
  <2>2. d * (Second(u) + 1) <= d * Second(t)
    BY <1>1, <2>1
  <2>3. d * (Second(u) + 1) = d * Second(u) + d
    BY <1>1
  <2>4. u < d * Second(t)
    BY <1>1, <2>2, <2>3
  <2> QED
    BY <1>1, <1>2, <2>4
<1>3. Second(t + n * TicksPerSecond) = Second(t) + n
  <2>1. PICK u \in Nat : u = t + n * d
    OBVIOUS
  <2>2. PICK a \in Nat, b \in Nat : a = Second(t) /\ b = Second(u)
    BY <1>1
  <2>3. d * a <= t /\ t < d * a + d /\ d * b <= u /\ u < d * b + d
    BY <1>1, <2>2
  <2>4. d * (a + n) = d * a + n * d /\ d * (a + n + 1) = d * a + n * d + d
    OBVIOUS
  <2>5. d * b < d * (a + n + 1) /\ d * (a + n) < d * (b + 1)
    BY <2>1, <2>3, <2>4
  <2>6. b < a + n + 1
    <3>1. a + n + 1 <= b => d * (a + n + 1) <= d * b
      OBVIOUS
    <3> QED
      BY <2>5, <3>1
  <2>7. a + n < b + 1
    <3>1. b + 1 <= a + n => d * (b + 1) <= d * (a + n)
      OBVIOUS
    <3> QED
      BY <2>5, <3>1
  <2> QED
    BY <1>0, <2>1, <2>2, <2>6, <2>7
<1>4. Second(t) * TicksPerSecond <= t
  <2>1. PICK a \in Nat : a = Second(t)
    BY <1>1
  <2>2. d * a <= t
    BY <1>1, <2>1
  <2>3. a * d <= t
    BY <2>2
  <2> QED
    BY <1>0, <2>1, <2>3
<1> QED
  BY <1>1, <1>2, <1>3, <1>4

(* A hash written at instant t outlives a window of d seconds that began   *)
(* at second s.                                                            *)
LEMMA Outlives ==
    ASSUME NEW t \in Nat, NEW s \in Nat, NEW d \in Nat, s <= Second(t)
    PROVE  ExpiresAfter(t, d) \in Nat /\ (s + d) * TicksPerSecond <= ExpiresAfter(t, d)
<1>1. PICK u \in Nat \ {0} : u = TicksPerSecond
  BY UnitAssumption
<1>2. PICK slack \in Nat : slack = Slack
  BY LimiterAssumption
<1>3. PICK now \in Nat : now = Second(t)
  BY SecondFacts
<1>4. now * u <= t
  <2>1. Second(t) * TicksPerSecond <= t
    BY SecondFacts
  <2> QED
    BY <1>1, <1>3, <2>1
<1>5. s * u <= now * u
  BY <1>3
<1>6. (s + d) * u = s * u + d * u /\ (d + slack) * u = d * u + slack * u
        /\ slack * u \in Nat /\ d * u \in Nat /\ s * u \in Nat /\ now * u \in Nat
  OBVIOUS
<1>7. t + (d + slack) * u \in Nat /\ (s + d) * u <= t + (d + slack) * u
  BY <1>4, <1>5, <1>6
<1> QED
  BY <1>1, <1>2, <1>7 DEF ExpiresAfter

(* An expired hash began its window at least that window ago.              *)
LEMMA Outlived ==
    ASSUME NEW t \in Nat, NEW s \in Nat, NEW d \in Nat, (s + d) * TicksPerSecond <= t
    PROVE  s + d <= Second(t)
<1>1. PICK n \in Nat : n = s + d
  OBVIOUS
<1>2. PICK u \in Nat \ {0} : u = TicksPerSecond
  BY UnitAssumption
<1>3. PICK v \in Nat : v = n * u
  BY <1>2
<1>4. v <= t /\ v = 0 + n * TicksPerSecond
  BY <1>1, <1>2, <1>3
<1>5. Second(0 + n * TicksPerSecond) = Second(0) + n /\ Second(0) \in Nat
  BY SecondFacts
<1>6. Second(v) <= Second(t) /\ Second(t) \in Nat
  BY <1>4, SecondFacts
<1> QED
  BY <1>1, <1>4, <1>5, <1>6

LEMMA FitsLater ==
    ASSUME NEW k, NEW h, NEW t \in Nat, NEW u \in Nat, t <= u, Fits(k, h, t)
    PROVE  Fits(k, h, u)
<1>1. Second(t) \in Nat /\ Second(u) \in Nat /\ Second(t) <= Second(u)
  BY SecondFacts
<1> QED
  BY <1>1 DEF Fits, WindowHashes, CounterHashes, BucketHashes

(* A script's run leaves a hash that fits, the one it found if it denies.  *)
LEMMA FixedWindowFits ==
    ASSUME NEW l \in Limits, NEW k, k = KeyOf(l), l.algorithm = "fixed_window",
           NEW t \in Nat, NEW h, Fits(k, h, t)
    PROVE  LET run == FixedWindow(h, l, t)
           IN /\ Fits(k, run.hash, t) /\ run.allowed \in BOOLEAN
              /\ ~run.allowed => run.hash = h
<1>1. Second(t) \in Nat
  BY SecondFacts
<1>2. h = Absent \/ (h \in WindowHashes /\ h.start <= Second(t))
  BY DEF Fits, KeyOf
<1> DEFINE new == h = Absent \/ Second(t) - h.start >= l.duration
           count == IF new THEN 0 ELSE h.count
           start == IF new THEN Second(t) ELSE h.start
<1>3. count \in Nat /\ start \in Nat /\ start <= Second(t)
  BY <1>1, <1>2 DEF WindowHashes
<1>4. /\ ExpiresAfter(t, l.duration) \in Nat
      /\ (start + l.duration) * TicksPerSecond <= ExpiresAfter(t, l.duration)
  BY <1>3, Outlives DEF Limits
<1>5. FixedWindow(h, l, t) =
        IF Exhausted(count, l.count)
          THEN Deny(h, count)
          ELSE Allow([count |-> count + 1, start |-> start,
                      expires |-> ExpiresAfter(t, l.duration)], count + 1)
  BY DEF FixedWindow
<1> HIDE DEF count, start
<1>6. CASE Exhausted(count, l.count)
  BY <1>5, <1>6 DEF Deny
<1>7. CASE ~Exhausted(count, l.count)
  <2> DEFINE new1 == [count |-> count + 1, start |-> start,
                      expires |-> ExpiresAfter(t, l.duration)]
  <2>1. new1 \in WindowHashes /\ new1.start <= Second(t)
          /\ (new1.start + l.duration) * TicksPerSecond <= new1.expires
    BY <1>3, <1>4 DEF WindowHashes
  <2>2. FixedWindow(h, l, t) = Allow(new1, count + 1)
    BY <1>5, <1>7
  <2> HIDE DEF new1
  <2>3. Fits(k, new1, t)
    BY <2>1 DEF Fits, KeyOf
  <2> QED
    BY <2>2, <2>3 DEF Allow
<1> QED
  BY <1>6, <1>7

(* The instant now lies in the window that begins at a multiple of d.      *)
LEMMA WindowStart ==
    ASSUME NEW now \in Nat, NEW d \in Nat \ {0}
    PROVE  /\ now % d \in 0 .. d - 1
           /\ \E n \in Nat : now - (now % d) = n * d
           /\ \A n \in Nat : n * d <= now /\ now < n * d + d => now % d = now - n * d
<1>1. PICK q \in Nat, r \in 0 .. d - 1 : now = d * q + r /\ r = now % d
  <2>1. now \div d \in Nat
    BY DivFacts
  <2>3. now % d \in 0 .. d - 1
    OBVIOUS
  <2>2. now = d * (now \div d) + (now % d)
    OBVIOUS
  <2> QED
    BY <2>1, <2>2, <2>3
<1>2. d * q = q * d
  OBVIOUS
<1>3. ASSUME NEW n \in Nat, n * d <= now, now < n * d + d PROVE r = now - n * d
  <2>1. q <= n
    <3>1. SUFFICES ASSUME n + 1 <= q PROVE FALSE
      OBVIOUS
    <3>2. (n + 1) * d <= q * d
      BY <3>1
    <3>3. (n + 1) * d = n * d + d
      OBVIOUS
    <3> QED
      BY <1>1, <1>2, <1>3, <3>2, <3>3
  <2>2. n <= q
    <3>1. SUFFICES ASSUME q + 1 <= n PROVE FALSE
      OBVIOUS
    <3>2. (q + 1) * d <= n * d
      BY <3>1
    <3>3. (q + 1) * d = q * d + d
      OBVIOUS
    <3> QED
      BY <1>1, <1>2, <1>3, <3>2, <3>3
  <2>3. n = q
    BY <2>1, <2>2
  <2> QED
    BY <1>1, <1>2, <2>3
<1>4. now - (now % d) = q * d
  BY <1>1, <1>2
<1>5. \E n \in Nat : now - (now % d) = n * d
  BY <1>4
<1> QED
  BY <1>1, <1>3, <1>5

LEMMA SlidingWindowFits ==
    ASSUME NEW l \in Limits, NEW k, k = KeyOf(l), l.algorithm = "sliding_window_counter",
           NEW t \in Nat, Epoch <= t, NEW h, Fits(k, h, t)
    PROVE  LET run == SlidingWindow(h, l, t)
           IN /\ Fits(k, run.hash, t) /\ run.allowed \in BOOLEAN
              /\ ~run.allowed => run.hash = h
<1>1. Second(t) \in Nat /\ l.duration \in Nat \ {0}
  BY SecondFacts DEF Limits
<1>2. h = Absent \/ (h \in CounterHashes /\ h.start <= Second(t))
  BY DEF Fits, KeyOf
<1> DEFINE elapsed == Second(t) % l.duration
           start == Second(t) - elapsed
           w == Rolled(h, l, start)
<1>3. elapsed \in Nat /\ start \in Int
  BY <1>1
<1>4. start \in Nat /\ start <= Second(t)
  <2>1. Second(t) = l.duration * (Second(t) \div l.duration) + elapsed
    BY <1>1
  <2>2. l.duration * (Second(t) \div l.duration) \in Nat
    BY <1>1, DivFacts
  <2> QED
    BY <1>1, <1>3, <2>1, <2>2
<1>5. w \in [prev : Nat, cur : Nat]
  BY <1>2 DEF Rolled, CounterHashes
<1>6. /\ ExpiresAfter(t, 2 * l.duration) \in Nat
      /\ (start + 2 * l.duration) * TicksPerSecond <= ExpiresAfter(t, 2 * l.duration)
  <2>1. PICK s \in Nat, d \in Nat : s = start /\ d = 2 * l.duration
    BY <1>1, <1>4
  <2>2. ExpiresAfter(t, d) \in Nat /\ (s + d) * TicksPerSecond <= ExpiresAfter(t, d)
    BY <1>4, <2>1, Outlives
  <2> QED
    BY <2>1, <2>2
<1>10. BeginsWindow(start, l.duration)
  <2>0. PICK d \in Nat \ {0}, now \in Nat : d = l.duration /\ now = Second(t)
    BY <1>1
  <2>1. now % d \in 0 .. d - 1 /\ \E n \in Nat : now - (now % d) = n * d
    BY WindowStart
  <2>2. PICK first \in Nat : first = Second(Epoch) /\ first <= now
    BY <2>0, LimiterAssumption, SecondFacts
  <2>3. start = now - (now % d)
    BY <2>0
  <2> HIDE DEF start
  <2>5. PICK r \in 0 .. d - 1 : r = now % d
    BY <2>1
  <2>6. start = now - r
    BY <2>3, <2>5
  <2>7. first < start + d
    BY <2>2, <2>5, <2>6
  <2>8. \E n \in Nat : start = n * d
    BY <2>1, <2>3
  <2>4. (\E n \in Nat : start = n * d) /\ first < start + d
    BY <2>7, <2>8
  <2> QED
    BY <2>0, <2>2, <2>4 DEF BeginsWindow
<1>7. PICK u, v :
        SlidingWindow(h, l, t) =
          IF Exhausted(Weighed(w, l, elapsed), l.count * l.duration)
            THEN Deny(h, u)
            ELSE Allow([prev |-> w.prev, cur |-> w.cur + 1, start |-> start,
                        expires |-> ExpiresAfter(t, 2 * l.duration)], v)
  BY DEF SlidingWindow
<1> HIDE DEF elapsed, start, w
<1>8. CASE Exhausted(Weighed(w, l, elapsed), l.count * l.duration)
  BY <1>7, <1>8 DEF Deny
<1>9. CASE ~Exhausted(Weighed(w, l, elapsed), l.count * l.duration)
  <2> DEFINE new == [prev |-> w.prev, cur |-> w.cur + 1, start |-> start,
                     expires |-> ExpiresAfter(t, 2 * l.duration)]
  <2>1. /\ new \in CounterHashes /\ new.start <= Second(t)
        /\ BeginsWindow(new.start, l.duration)
        /\ (new.start + 2 * l.duration) * TicksPerSecond <= new.expires
    BY <1>4, <1>5, <1>6, <1>10 DEF CounterHashes
  <2>2. SlidingWindow(h, l, t) = Allow(new, v)
    BY <1>7, <1>9
  <2> HIDE DEF new
  <2>3. Fits(k, new, t)
    BY <2>1 DEF Fits, KeyOf
  <2> QED
    BY <2>2, <2>3 DEF Allow
<1> QED
  BY <1>8, <1>9

LEMMA TokenBucketFits ==
    ASSUME NEW l \in Limits, NEW k, k = KeyOf(l), l.algorithm = "token_bucket",
           NEW t \in Nat, NEW h, Fits(k, h, t)
    PROVE  LET run == TokenBucket(h, l, t)
           IN /\ Fits(k, run.hash, t) /\ run.allowed \in BOOLEAN
              /\ ~run.allowed => run.hash = h
<1>1. h = Absent \/ (h \in BucketHashes /\ h.at <= t)
  BY DEF Fits, KeyOf
<1> DEFINE tokens == IF h = Absent THEN l.count * Unit ELSE Refilled(h, l, t)
<1>2. l.count * Unit \in Nat
  BY UnitAssumption DEF Limits
<1>3. tokens \in Nat
  <2>1. CASE h = Absent
    BY <1>2, <2>1
  <2>2. CASE h # Absent
    <3>1. h \in BucketHashes /\ t - h.at \in Nat /\ l.refill \in Nat
      BY <1>1, <2>2 DEF BucketHashes, Limits
    <3>2. (t - h.at) * l.refill \in Nat
      BY <3>1
    <3>3. Refilled(h, l, t) \in Nat
      BY <1>2, <3>1, <3>2 DEF Refilled, Smaller, BucketHashes
    <3> QED
      BY <2>2, <3>3
  <2> QED
    BY <2>1, <2>2
<1>4. ExpiresAfter(t, l.duration) \in Nat
  BY UnitAssumption, LimiterAssumption DEF ExpiresAfter, Limits
<1>5. PICK u, v :
        TokenBucket(h, l, t) =
          IF TooFew(tokens) THEN Deny(h, u)
          ELSE Allow([tokens |-> tokens - Unit, at |-> t,
                      expires |-> ExpiresAfter(t, l.duration)], v)
  BY DEF TokenBucket
<1> HIDE DEF tokens
<1>6. CASE TooFew(tokens)
  BY <1>5, <1>6 DEF Deny
<1>7. CASE ~TooFew(tokens)
  <2> DEFINE new == [tokens |-> tokens - Unit, at |-> t,
                     expires |-> ExpiresAfter(t, l.duration)]
  <2>1. new \in BucketHashes /\ new.at <= t /\ new.expires = ExpiresAfter(new.at, l.duration)
    BY <1>3, <1>4, <1>7, UnitAssumption DEF TooFew, BucketHashes
  <2>2. TokenBucket(h, l, t) = Allow(new, v)
    BY <1>5, <1>7
  <2> HIDE DEF new
  <2>3. Fits(k, new, t)
    BY <2>1 DEF Fits, KeyOf
  <2> QED
    BY <2>2, <2>3 DEF Allow
<1> QED
  BY <1>6, <1>7

LEMMA ScriptFits ==
    ASSUME NEW l \in Limits, NEW k, k = KeyOf(l), NEW t \in Nat, Epoch <= t,
           NEW h, Fits(k, h, t)
    PROVE  LET run == Script(h, l, t)
           IN /\ Fits(k, run.hash, t) /\ run.allowed \in BOOLEAN
              /\ ~run.allowed => run.hash = h
<1>1. CASE l.algorithm = "fixed_window"
  BY <1>1, FixedWindowFits DEF Script
<1>2. CASE l.algorithm = "sliding_window_counter"
  BY <1>2, SlidingWindowFits DEF Script
<1>3. CASE l.algorithm = "token_bucket"
  BY <1>3, TokenBucketFits DEF Script
<1> QED
  BY <1>1, <1>2, <1>3 DEF Limits, Algorithms

(* A limit that lets messages through lets the next one through when the   *)
(* hash is gone, or when nothing was counted for the quiet time.           *)
LEMMA FixedWindowQuiet ==
    ASSUME NEW l \in Limits, l.algorithm = "fixed_window", l.count > 0, NEW t \in Nat,
           NEW h, \/ h = Absent
                  \/ h \in WindowHashes /\ h.start + l.duration <= Second(t)
    PROVE  FixedWindow(h, l, t).allowed
<1>1. Second(t) \in Nat
  BY SecondFacts
<1>2. h = Absent \/ Second(t) - h.start >= l.duration
  BY <1>1 DEF WindowHashes, Limits
<1>3. ~Exhausted(0, l.count)
  BY DEF Exhausted, Limits
<1> QED
  BY <1>2, <1>3 DEF FixedWindow, Allow

LEMMA SlidingWindowQuiet ==
    ASSUME NEW l \in Limits, l.algorithm = "sliding_window_counter", l.count > 0,
           NEW t \in Nat,
           NEW h, \/ h = Absent
                  \/ h \in CounterHashes /\ h.start + 2 * l.duration <= Second(t)
    PROVE  SlidingWindow(h, l, t).allowed
<1>1. Second(t) \in Nat /\ l.duration \in Nat \ {0}
  BY SecondFacts DEF Limits
<1> DEFINE elapsed == Second(t) % l.duration
           start == Second(t) - elapsed
<1>2. elapsed \in 0 .. (l.duration - 1)
  BY <1>1
<1>3. Rolled(h, l, start) = [prev |-> 0, cur |-> 0]
  <2>1. CASE h = Absent
    BY <2>1 DEF Rolled
  <2>2. CASE h # Absent
    <3>1. h \in CounterHashes /\ start > h.start + l.duration /\ start > h.start
      BY <1>1, <1>2, <2>2 DEF CounterHashes
    <3>2. start \in Int /\ h.start \in Nat
      BY <1>1, <1>2, <3>1 DEF CounterHashes
    <3> HIDE DEF start
    <3>3. ~(start <= h.start) /\ start # h.start + l.duration
      BY <1>1, <3>1, <3>2
    <3> QED
      BY <2>2, <3>3 DEF Rolled
  <2> QED
    BY <2>1, <2>2
<1>4. Weighed([prev |-> 0, cur |-> 0], l, elapsed) = 0
  BY <1>1, <1>2 DEF Weighed
<1>5. l.count * l.duration > 0
  BY <1>1 DEF Limits
<1>6. ~Exhausted(Weighed(Rolled(h, l, start), l, elapsed), l.count * l.duration)
  BY <1>1, <1>3, <1>4, <1>5 DEF Exhausted, Limits
<1>7. PICK new, u, v :
        SlidingWindow(h, l, t) =
          IF Exhausted(Weighed(Rolled(h, l, start), l, elapsed), l.count * l.duration)
            THEN Deny(h, u) ELSE Allow(new, v)
  BY DEF SlidingWindow
<1> HIDE DEF elapsed, start
<1> QED
  BY <1>6, <1>7 DEF Allow

LEMMA TokenBucketQuiet ==
    ASSUME NEW l \in Limits, l.algorithm = "token_bucket", l.count > 0, NEW t \in Nat,
           NEW h, \/ h = Absent
                  \/ h \in BucketHashes /\ h.at <= t /\ (t - h.at) * l.refill >= Unit
    PROVE  TokenBucket(h, l, t).allowed
<1>1. l.count * Unit >= Unit /\ l.count * Unit \in Nat
  BY UnitAssumption DEF Limits
<1> DEFINE tokens == IF h = Absent THEN l.count * Unit ELSE Refilled(h, l, t)
<1>2. tokens >= Unit /\ tokens \in Int
  <2>1. CASE h = Absent
    BY <1>1, <2>1
  <2>2. CASE h # Absent
    <3>1. PICK x : x = (t - h.at) * l.refill
      OBVIOUS
    <3>2. h.tokens \in Nat /\ x \in Int /\ x >= Unit
      BY <2>2, <3>1 DEF BucketHashes, Limits
    <3>3. Refilled(h, l, t) = Smaller(l.count * Unit, h.tokens + x)
      BY <3>1 DEF Refilled
    <3> QED
      BY <1>1, <2>2, <3>2, <3>3, UnitAssumption DEF Smaller
  <2> QED
    BY <2>1, <2>2
<1>3. ~TooFew(tokens)
  BY <1>2, UnitAssumption DEF TooFew
<1>4. PICK new, u, v :
        TokenBucket(h, l, t) = IF TooFew(tokens) THEN Deny(h, u) ELSE Allow(new, v)
  BY DEF TokenBucket
<1> HIDE DEF tokens
<1> QED
  BY <1>3, <1>4 DEF Allow

LEMMA QuietAllowed ==
    ASSUME NEW l \in Limits, l.count > 0, NEW now \in Nat, NEW h, Fits(KeyOf(l), h, now),
           NEW t, t = now + QuietTime(l),
           NEW live, live = IF h # Absent /\ t < h.expires THEN h ELSE Absent
    PROVE  Script(live, l, t).allowed
<1>0. l.duration \in Nat \ {0} /\ l.refill \in Nat /\ TicksPerSecond \in Nat \ {0}
        /\ Unit \in Nat \ {0} /\ Slack \in Nat
  BY UnitAssumption, LimiterAssumption DEF Limits
<1>1. live = Absent \/ (live = h /\ h # Absent /\ t < h.expires)
  OBVIOUS
<1>2. CASE l.algorithm = "fixed_window"
  <2>1. t = now + l.duration * TicksPerSecond
    BY <1>2 DEF QuietTime
  <2>2. t \in Nat /\ Second(t) = Second(now) + l.duration /\ Second(now) \in Nat
    <3>1. PICK d \in Nat : d = l.duration
      BY <1>0
    <3>2. t = now + d * TicksPerSecond
      BY <2>1, <3>1
    <3>3. d * TicksPerSecond \in Nat
      BY <1>0
    <3> QED
      BY <3>1, <3>2, <3>3, SecondFacts
  <2>3. h = Absent \/ (h \in WindowHashes /\ h.start <= Second(now))
    BY <1>2 DEF Fits, KeyOf
  <2>4. live = Absent \/ (live \in WindowHashes /\ live.start + l.duration <= Second(t))
    BY <1>0, <1>1, <2>2, <2>3 DEF WindowHashes
  <2> QED
    BY <1>2, <2>2, <2>4, FixedWindowQuiet DEF Script
<1>3. CASE l.algorithm = "sliding_window_counter"
  <2>1. t = now + (2 * l.duration) * TicksPerSecond
    BY <1>3 DEF QuietTime
  <2>2. 2 * l.duration \in Nat
    BY <1>0
  <2>3. t \in Nat /\ Second(t) = Second(now) + 2 * l.duration /\ Second(now) \in Nat
    <3>1. PICK d \in Nat : d = 2 * l.duration
      BY <2>2
    <3>2. t = now + d * TicksPerSecond
      BY <2>1, <3>1
    <3>3. d * TicksPerSecond \in Nat
      BY <1>0
    <3>4. Second(now) \in Nat /\ Second(now + d * TicksPerSecond) = Second(now) + d
      BY SecondFacts
    <3>5. t \in Nat
      BY <3>2, <3>3
    <3> QED
      BY <3>1, <3>2, <3>4, <3>5
  <2>4. h = Absent \/ (h \in CounterHashes /\ h.start <= Second(now))
    BY <1>3 DEF Fits, KeyOf
  <2>5. live = Absent \/ (live \in CounterHashes /\ live.start + 2 * l.duration <= Second(t))
    BY <1>0, <1>1, <2>3, <2>4 DEF CounterHashes
  <2> QED
    BY <1>3, <2>3, <2>5, SlidingWindowQuiet DEF Script
<1>4. CASE l.algorithm = "token_bucket"
  <2>1. h = Absent \/ (h \in BucketHashes /\ h.at <= now
                         /\ h.expires = ExpiresAfter(h.at, l.duration))
    BY <1>4 DEF Fits, KeyOf
  <2>2. CASE l.refill = 0
    <3>1. t = now + (l.duration + Slack) * TicksPerSecond
      BY <1>4, <2>2 DEF QuietTime
    <3>2. t \in Nat
      BY <1>0, <3>1
    <3>3. h # Absent => h.expires <= t
      BY <1>0, <2>1, <3>1 DEF ExpiresAfter, BucketHashes
    <3>4. live = Absent
      BY <1>1, <2>1, <3>2, <3>3 DEF BucketHashes
    <3> QED
      BY <1>4, <3>2, <3>4, TokenBucketQuiet DEF Script
  <2>3. CASE l.refill # 0
    <3>1. t = now + Ceil(Unit, l.refill)
      BY <1>4, <2>3 DEF QuietTime
    <3>2. PICK c \in Nat : c = Ceil(Unit, l.refill) /\ c * l.refill >= Unit
      BY <1>0, <2>3, CeilFacts
    <3>3. t \in Nat /\ t = now + c
      BY <3>1, <3>2
    <3>4. ASSUME live # Absent
          PROVE  /\ live \in BucketHashes /\ live.at <= t
                 /\ (t - live.at) * l.refill >= Unit
      <4>1. live \in BucketHashes /\ live.at <= now /\ live.at \in Nat
        BY <1>1, <2>1, <3>4 DEF BucketHashes
      <4>2. t - live.at >= c /\ t - live.at \in Nat /\ live.at <= t
        BY <3>3, <4>1
      <4>3. (t - live.at) * l.refill >= c * l.refill
        BY <1>0, <4>2
      <4>4. (t - live.at) * l.refill \in Nat /\ c * l.refill \in Nat
        BY <1>0, <4>2
      <4> QED
        BY <1>0, <3>2, <4>1, <4>2, <4>3, <4>4
    <3> QED
      BY <1>4, <3>3, <3>4, TokenBucketQuiet DEF Script
  <2> QED
    BY <2>2, <2>3
<1> QED
  BY <1>2, <1>3, <1>4 DEF Limits, Algorithms
-----------------------------------------------------------------------------
(* A hash whose window is over, or whose bucket is full, has the effect of *)
(* no hash.                                                                *)
LEMMA SameForm ==
    ASSUME NEW h, NEW g, NEW b, NEW u, NEW new, NEW v
    PROVE  SameEffect(IF b THEN Deny(h, u) ELSE Allow(new, v),
                      IF b THEN Deny(g, u) ELSE Allow(new, v))
<1>1. CASE b
  BY <1>1 DEF SameEffect, Deny
<1>2. CASE ~b
  BY <1>2 DEF SameEffect, Allow
<1> QED
  BY <1>1, <1>2

LEMMA FixedWindowForgotten ==
    ASSUME NEW l \in Limits, NEW t \in Nat,
           NEW h \in WindowHashes, h.start + l.duration <= Second(t)
    PROVE  SameEffect(FixedWindow(h, l, t), FixedWindow(Absent, l, t))
<1>1. Second(t) - h.start >= l.duration
  BY SecondFacts DEF WindowHashes, Limits
<1>2. PICK hash : hash = [count |-> 0 + 1, start |-> Second(t),
                          expires |-> ExpiresAfter(t, l.duration)]
  OBVIOUS
<1>3. ASSUME NEW x \in {h, Absent}
      PROVE  FixedWindow(x, l, t) =
               IF Exhausted(0, l.count) THEN Deny(x, 0) ELSE Allow(hash, 0 + 1)
  BY <1>1, <1>2, <1>3 DEF FixedWindow
<1> QED
  BY <1>3, SameForm

(* The start of the window now, and a hash rolled into it.                 *)
Elapsed(l, t) == Second(t) % l.duration
WindowOf(l, t) == Second(t) - Elapsed(l, t)
RolledTo(h, l, t) == Rolled(h, l, WindowOf(l, t))

LEMMA RolledForgotten ==
    ASSUME NEW l \in Limits, NEW t \in Nat,
           NEW h \in CounterHashes, h.start + 2 * l.duration <= Second(t)
    PROVE  RolledTo(h, l, t) = [prev |-> 0, cur |-> 0]
<1>1. PICK d \in Nat \ {0}, now \in Nat, s \in Nat :
        d = l.duration /\ now = Second(t) /\ s = h.start
  BY SecondFacts DEF Limits, CounterHashes
<1>2. PICK r \in 0 .. d - 1 : r = now % d
  BY WindowStart
<1>3. WindowOf(l, t) = now - r
  BY <1>1, <1>2 DEF WindowOf, Elapsed
<1>4. PICK start \in Int : start = WindowOf(l, t)
  BY <1>2, <1>3
<1>5. ~(start <= s) /\ start # s + d
  BY <1>1, <1>2, <1>3, <1>4
<1> QED
  BY <1>1, <1>4, <1>5 DEF RolledTo, Rolled

LEMMA SlidingWindowForm ==
    ASSUME NEW l, NEW t, NEW w
    PROVE  \E u, new, v : \A h : RolledTo(h, l, t) = w =>
             SlidingWindow(h, l, t) =
               IF Exhausted(Weighed(w, l, Elapsed(l, t)), l.count * l.duration)
                 THEN Deny(h, u) ELSE Allow(new, v)
<1>1. PICK more : more = [w EXCEPT !.cur = w.cur + 1]
  OBVIOUS
<1>2. PICK new : new = [prev |-> w.prev, cur |-> w.cur + 1, start |-> WindowOf(l, t),
                        expires |-> ExpiresAfter(t, 2 * l.duration)]
  OBVIOUS
<1>3. PICK u, v : u = Ceil(Weighed(w, l, Elapsed(l, t)), l.duration)
                    /\ v = Ceil(Weighed(more, l, Elapsed(l, t)), l.duration)
  OBVIOUS
<1>4. ASSUME NEW h, RolledTo(h, l, t) = w
      PROVE  SlidingWindow(h, l, t) =
               IF Exhausted(Weighed(w, l, Elapsed(l, t)), l.count * l.duration)
                 THEN Deny(h, u) ELSE Allow(new, v)
  BY <1>1, <1>2, <1>3, <1>4 DEF SlidingWindow, RolledTo, WindowOf, Elapsed
<1> QED
  BY <1>4

LEMMA SlidingWindowForgotten ==
    ASSUME NEW l \in Limits, NEW t \in Nat,
           NEW h \in CounterHashes, h.start + 2 * l.duration <= Second(t)
    PROVE  SameEffect(SlidingWindow(h, l, t), SlidingWindow(Absent, l, t))
<1>1. RolledTo(h, l, t) = [prev |-> 0, cur |-> 0]
  BY RolledForgotten
<1>2. RolledTo(Absent, l, t) = [prev |-> 0, cur |-> 0]
  BY DEF RolledTo, Rolled
<1>3. PICK w : w = [prev |-> 0, cur |-> 0]
  OBVIOUS
<1>4. PICK u, new, v : \A x : RolledTo(x, l, t) = w =>
        SlidingWindow(x, l, t) =
          IF Exhausted(Weighed(w, l, Elapsed(l, t)), l.count * l.duration)
            THEN Deny(x, u) ELSE Allow(new, v)
  BY SlidingWindowForm
<1> QED
  BY <1>1, <1>2, <1>3, <1>4, SameForm

(* A bucket that is full by the time its hash expires: with a slower refill*)
(* the sender gets a whole bucket too early (MCRateSlowBucket).            *)
FullInTime(l) ==
    l.algorithm = "token_bucket" =>
        l.count * Unit <= ((l.duration + Slack) * TicksPerSecond) * l.refill

LEMMA TokenBucketForgotten ==
    ASSUME NEW l \in Limits, l.algorithm = "token_bucket", FullInTime(l), NEW t \in Nat,
           NEW h \in BucketHashes, h.expires = ExpiresAfter(h.at, l.duration), h.expires <= t
    PROVE  SameEffect(TokenBucket(h, l, t), TokenBucket(Absent, l, t))
<1>1. PICK full \in Nat, refill \in Nat :
        full = l.count * Unit /\ refill = l.refill
  BY UnitAssumption DEF Limits
<1>2. PICK life \in Nat : life = (l.duration + Slack) * TicksPerSecond
  BY UnitAssumption, LimiterAssumption DEF Limits
<1>3. h.at \in Nat /\ h.tokens \in Nat /\ h.at + life <= t
  BY <1>2 DEF BucketHashes, ExpiresAfter
<1>4. full <= life * refill
  BY <1>1, <1>2 DEF FullInTime
<1>5. PICK age \in Nat : age = t - h.at
  BY <1>2, <1>3
<1>6. life <= age
  BY <1>2, <1>3, <1>5
<1>7. life * refill <= age * refill /\ age * refill \in Nat /\ life * refill \in Nat
  BY <1>6
<1>8. Refilled(h, l, t) = full
  <2>1. Refilled(h, l, t) = Smaller(full, h.tokens + age * refill)
    BY <1>1, <1>5 DEF Refilled
  <2>2. full <= h.tokens + age * refill
    BY <1>3, <1>4, <1>7
  <2> QED
    BY <1>3, <1>7, <2>1, <2>2 DEF Smaller
<1>9. h # Absent
  BY DEF BucketHashes, Absent
<1>10. PICK u, v, new :
         \A x \in {h, Absent} : TokenBucket(x, l, t) =
            IF TooFew(full) THEN Deny(x, u) ELSE Allow(new, v)
  <2>1. PICK new : new = [tokens |-> full - Unit, at |-> t,
                          expires |-> ExpiresAfter(t, l.duration)]
    OBVIOUS
  <2>2. PICK u, v : u = AtLeast0(Ceil(full - full, Unit))
                      /\ v = AtLeast0(Ceil(full - (full - Unit), Unit))
    OBVIOUS
  <2>3. ASSUME NEW x \in {h, Absent}
        PROVE  TokenBucket(x, l, t) = IF TooFew(full) THEN Deny(x, u) ELSE Allow(new, v)
    BY <1>1, <1>8, <1>9, <2>1, <2>2, <2>3 DEF TokenBucket
  <2> QED
    BY <2>3
<1> QED
  BY <1>10, SameForm

LEMMA ForgottenHarmless ==
    ASSUME NEW l \in Limits, FullInTime(l), NEW t \in Nat, NEW h, h # Absent,
           Fits(KeyOf(l), h, t), h.expires <= t
    PROVE  SameEffect(Script(h, l, t), Script(Absent, l, t))
<1>1. CASE l.algorithm = "fixed_window"
  <2>1. /\ h \in WindowHashes
        /\ (h.start + l.duration) * TicksPerSecond <= h.expires
    BY <1>1 DEF Fits, KeyOf
  <2>2. PICK s \in Nat, d \in Nat : s = h.start /\ d = l.duration
    BY <2>1 DEF WindowHashes, Limits
  <2>3. (s + d) * TicksPerSecond <= t
    <3>1. PICK e \in Nat : e = h.expires
      BY <2>1 DEF WindowHashes
    <3>2. PICK v \in Nat : v = (s + d) * TicksPerSecond
      BY UnitAssumption
    <3> QED
      BY <2>1, <2>2, <3>1, <3>2
  <2>4. s + d <= Second(t)
    BY <2>3, Outlived
  <2> QED
    BY <1>1, <2>1, <2>2, <2>4, FixedWindowForgotten DEF Script
<1>2. CASE l.algorithm = "sliding_window_counter"
  <2>1. /\ h \in CounterHashes
        /\ (h.start + 2 * l.duration) * TicksPerSecond <= h.expires
    BY <1>2 DEF Fits, KeyOf
  <2>2. PICK s \in Nat, d \in Nat : s = h.start /\ d = 2 * l.duration
    BY <2>1 DEF CounterHashes, Limits
  <2>3. (s + d) * TicksPerSecond <= t
    <3>1. PICK e \in Nat : e = h.expires
      BY <2>1 DEF CounterHashes
    <3>2. PICK v \in Nat : v = (s + d) * TicksPerSecond
      BY UnitAssumption
    <3> QED
      BY <2>1, <2>2, <3>1, <3>2
  <2>4. s + d <= Second(t)
    BY <2>3, Outlived
  <2> QED
    BY <1>2, <2>1, <2>2, <2>4, SlidingWindowForgotten DEF Script
<1>3. CASE l.algorithm = "token_bucket"
  <2>1. h \in BucketHashes /\ h.expires = ExpiresAfter(h.at, l.duration)
    BY <1>3 DEF Fits, KeyOf
  <2> QED
    BY <1>3, <2>1, TokenBucketForgotten DEF Script
<1> QED
  BY <1>1, <1>2, <1>3 DEF Limits, Algorithms

(* get_usage against the scripts of the windows.                           *)
LEMMA FixedUsageAgrees ==
    ASSUME NEW l \in Limits, l.algorithm = "fixed_window", NEW t \in Nat, NEW h,
           Fits(KeyOf(l), h, t)
    PROVE  (GetUsage(h, l, t) >= l.count) <=> ~FixedWindow(h, l, t).allowed
<1>1. PICK count : count = IF h = Absent \/ Second(t) - h.start >= l.duration
                             THEN 0 ELSE h.count
  OBVIOUS
<1>2. GetUsage(h, l, t) = count
  BY <1>1 DEF GetUsage, FixedUsage
<1>3. PICK new, v : FixedWindow(h, l, t) =
        IF Exhausted(count, l.count) THEN Deny(h, count) ELSE Allow(new, v)
  BY <1>1 DEF FixedWindow
<1>4. CASE Exhausted(count, l.count)
  BY <1>2, <1>3, <1>4 DEF Deny, Exhausted
<1>5. CASE ~Exhausted(count, l.count)
  BY <1>2, <1>3, <1>5 DEF Allow, Exhausted
<1> QED
  BY <1>4, <1>5

(* The usage weighs the window it has rolled the hash into itself, as the  *)
(* script does, provided that the first instant lies beyond the duration:  *)
(* a window that starts at zero is no window to get_usage.                 *)
LEMMA SlidingUsageRolls ==
    ASSUME NEW l \in Limits, NEW t \in Nat, l.duration <= Second(Epoch),
           NEW h \in CounterHashes, h.start <= Second(t), BeginsWindow(h.start, l.duration)
    PROVE  \/ SlidingUsage(h, l, Second(t)) =
                Ceil(Weighed(RolledTo(h, l, t), l, Elapsed(l, t)), l.duration)
           \/ /\ SlidingUsage(h, l, Second(t)) = 0
              /\ RolledTo(h, l, t) = [prev |-> 0, cur |-> 0]
<1>1. PICK d \in Nat \ {0}, now \in Nat, s \in Nat, first \in Nat :
        d = l.duration /\ now = Second(t) /\ s = h.start /\ first = Second(Epoch)
  BY SecondFacts, LimiterAssumption DEF Limits, CounterHashes
<1>2. PICK n \in Nat : s = n * d
  BY <1>1 DEF BeginsWindow
<1>3. s > 0 /\ s <= now
  BY <1>1 DEF BeginsWindow
<1>4. PICK age \in Nat : age = now - s
  BY <1>3
<1>5. Elapsed(l, t) = now % d /\ WindowOf(l, t) = now - (now % d)
  BY <1>1 DEF Elapsed, WindowOf
<1>6. h # Absent
  BY DEF CounterHashes, Absent
<1>7. CASE age < d
  <2>1. now % d = age
    <3>1. n * d <= now /\ now < n * d + d /\ now - n * d = age
      BY <1>2, <1>3, <1>4, <1>7
    <3> QED
      BY <3>1, WindowStart
  <2>2. age % d = age
    <3>1. 0 * d <= age /\ age < 0 * d + d /\ age - 0 * d = age
      BY <1>7
    <3> QED
      BY <3>1, WindowStart
  <2>3. WindowOf(l, t) = s /\ Elapsed(l, t) = age
    BY <1>4, <1>5, <2>1
  <2>4. RolledTo(h, l, t) = [prev |-> h.prev, cur |-> h.cur]
    BY <1>1, <1>6, <2>3 DEF RolledTo, Rolled
  <2>5. ~(s <= 0 \/ age >= 2 * d)
    BY <1>3, <1>7
  <2>6. SlidingUsage(h, l, now) = Ceil(Weighed([prev |-> h.prev, cur |-> h.cur], l, age), d)
    BY <1>1, <1>4, <1>7, <2>2, <2>5 DEF SlidingUsage
  <2> QED
    BY <1>1, <2>3, <2>4, <2>6
<1>8. CASE d <= age /\ age < 2 * d
  <2>0. PICK e \in Nat : e = age - d
    BY <1>8
  <2>1. now % d = e
    <3>0. PICK m \in Nat : m = n + 1
      OBVIOUS
    <3>1. m * d = n * d + d
      BY <3>0
    <3>2. m * d <= now /\ now < m * d + d /\ now - m * d = e
      BY <1>2, <1>3, <1>4, <1>8, <2>0, <3>1
    <3> QED
      BY <3>2, WindowStart
  <2>2. age % d = e
    <3>1. 1 * d <= age /\ age < 1 * d + d /\ age - 1 * d = e
      BY <1>8, <2>0
    <3> QED
      BY <3>1, WindowStart
  <2>3. WindowOf(l, t) = s + d /\ Elapsed(l, t) = e
    BY <1>4, <1>5, <2>0, <2>1
  <2>4. RolledTo(h, l, t) = [prev |-> h.cur, cur |-> 0]
    <3>1. PICK start \in Nat : start = WindowOf(l, t) /\ start = s + d
      BY <2>3
    <3>2. ~(start <= s)
      BY <3>1
    <3> QED
      BY <1>1, <1>6, <3>1, <3>2 DEF RolledTo, Rolled
  <2>5. ~(s <= 0 \/ age >= 2 * d) /\ ~(age < d)
    BY <1>3, <1>8
  <2>6. SlidingUsage(h, l, now) = Ceil(Weighed([prev |-> h.cur, cur |-> 0], l, e), d)
    BY <1>1, <1>4, <2>2, <2>5 DEF SlidingUsage
  <2> QED
    BY <1>1, <2>3, <2>4, <2>6
<1>9. CASE age >= 2 * d
  <2>1. s + 2 * d <= now
    BY <1>4, <1>9
  <2>2. RolledTo(h, l, t) = [prev |-> 0, cur |-> 0]
    BY <1>1, <2>1, RolledForgotten
  <2>3. SlidingUsage(h, l, now) = 0
    BY <1>1, <1>4, <1>9 DEF SlidingUsage
  <2> QED
    BY <1>1, <2>2, <2>3
<1> QED
  BY <1>7, <1>8, <1>9

LEMMA SlidingUsageAgrees ==
    ASSUME NEW l \in Limits, l.algorithm = "sliding_window_counter", NEW t \in Nat, NEW h,
           Fits(KeyOf(l), h, t), l.duration <= Second(Epoch),
           ~SlidingWindow(h, l, t).allowed
    PROVE  GetUsage(h, l, t) >= l.count
<1>1. PICK d \in Nat \ {0}, count \in Nat : d = l.duration /\ count = l.count
  BY DEF Limits
<1>2. PICK w : w = RolledTo(h, l, t)
  OBVIOUS
<1>3. Exhausted(Weighed(w, l, Elapsed(l, t)), count * d)
  <2>1. PICK u, new, v :
          SlidingWindow(h, l, t) =
            IF Exhausted(Weighed(w, l, Elapsed(l, t)), l.count * l.duration)
              THEN Deny(h, u) ELSE Allow(new, v)
    BY <1>2, SlidingWindowForm
  <2>2. SUFFICES ASSUME ~Exhausted(Weighed(w, l, Elapsed(l, t)), l.count * l.duration)
                 PROVE  FALSE
    BY <1>1
  <2> QED
    BY <2>1, <2>2 DEF Allow
<1>4. PICK e \in 0 .. d - 1 : e = Elapsed(l, t)
  BY <1>1, SecondFacts, WindowStart DEF Elapsed
<1>5. w = [prev |-> 0, cur |-> 0] => count = 0
  <2>1. Weighed([prev |-> 0, cur |-> 0], l, e) = 0
    BY <1>1, <1>4 DEF Weighed
  <2>2. count # 0 => count * d > 0
    OBVIOUS
  <2> QED
    BY <1>3, <1>4, <2>1, <2>2 DEF Exhausted
<1>6. CASE h = Absent
  <2>1. w = [prev |-> 0, cur |-> 0]
    BY <1>2, <1>6 DEF RolledTo, Rolled
  <2>2. GetUsage(h, l, t) = 0
    BY <1>6 DEF GetUsage
  <2> QED
    BY <1>1, <1>5, <2>1, <2>2
<1>7. CASE h # Absent
  <2>1. h \in CounterHashes /\ h.start <= Second(t) /\ BeginsWindow(h.start, l.duration)
    BY <1>7 DEF Fits, KeyOf
  <2>2. GetUsage(h, l, t) = SlidingUsage(h, l, Second(t))
    BY <1>7 DEF GetUsage
  <2>3. CASE SlidingUsage(h, l, Second(t)) = 0 /\ w = [prev |-> 0, cur |-> 0]
    BY <1>1, <1>5, <2>2, <2>3
  <2>4. CASE SlidingUsage(h, l, Second(t)) = Ceil(Weighed(w, l, Elapsed(l, t)), d)
    <3>1. w \in [prev : Nat, cur : Nat]
      BY <1>2, <2>1 DEF RolledTo, Rolled, CounterHashes
    <3>2. PICK x \in Nat : x = Weighed(w, l, e)
      <4>1. w.cur * d \in Nat /\ w.prev * (d - e) \in Nat
        BY <1>4, <3>1
      <4> QED
        BY <1>1, <4>1 DEF Weighed
    <3>3. count * d <= x
      BY <1>3, <1>4, <3>2 DEF Exhausted
    <3>4. PICK c \in Nat : c = Ceil(x, d) /\ c * d >= x
      BY <3>2, CeilFacts
    <3>5. c >= count
      <4>1. SUFFICES ASSUME c + 1 <= count PROVE FALSE
        BY <3>4
      <4>2. (c + 1) * d <= count * d
        BY <4>1
      <4>3. (c + 1) * d = c * d + d
        OBVIOUS
      <4> QED
        BY <3>3, <3>4, <4>2, <4>3
    <3> QED
      BY <1>1, <1>4, <2>2, <2>4, <3>2, <3>4, <3>5
  <2> QED
    BY <1>1, <1>2, <2>1, <2>3, <2>4, SlidingUsageRolls
<1> QED
  BY <1>6, <1>7
-----------------------------------------------------------------------------
(* The inductive invariant: types, and every hash fits its key.            *)
StoreType == store \in [Keys -> Hashes] /\ \A k \in Keys : Fits(k, store[k], clock)
Checking == [pc : {"evalsha", "eval"}, quota : Adapted[policy], pos : Nat]
CheckType ==
    /\ DOMAIN check = Clients /\ check = [c \in Clients |-> check[c]]
    /\ \A c \in Clients :
         \/ check[c] = Idle
         \/ check[c] \in Checking /\ check[c].pos \in DOMAIN check[c].quota
GrantedType == granted \in [Keys -> [Epoch .. MaxClock -> Nat]]

IInv ==
    /\ policy \in Policies /\ clock \in Epoch .. MaxClock /\ loaded \in BOOLEAN
    /\ StoreType /\ CheckType /\ GrantedType
    /\ faults \in Nat /\ resets \in Nat

LEMMA IInvImpliesTypeOK == IInv => TypeOK
BY DEF IInv, TypeOK, StoreType, CheckType, GrantedType, Checking

(* Scaled quotas are quotas of the same keys.                              *)
LEMMA AdaptedQuotas ==
    ASSUME NEW p \in Policies, NEW q \in p.quotas, NEW m \in Multipliers[p]
    PROVE  /\ Scaled(q, m) \in Adapted[p] /\ Scaled(q, m) \in Seq(Limits)
           /\ DOMAIN Scaled(q, m) = DOMAIN q /\ DOMAIN q = 1 .. Len(q)
           /\ \A i \in DOMAIN q :
                /\ q[i] \in Limits /\ Scaled(q, m)[i] = ScaledLimit(q[i], m)
                /\ Scaled(q, m)[i] \in Limits /\ KeyOf(Scaled(q, m)[i]) \in Keys
<1>1. p.quotas \subseteq Seq(Limits) /\ p.adaptive \in AdaptiveConfigs
  BY LimiterAssumption
<1>2. q \in Seq(Limits)
  BY <1>1
<1>3. m \in Nat
  BY <1>1, MultiplierType DEF Multipliers
<1>4. Scaled(q, m) \in Adapted[p]
  BY DEF Adapted
<1>5. DOMAIN Scaled(q, m) = DOMAIN q /\ DOMAIN q = 1 .. Len(q)
  BY <1>2 DEF Scaled
<1>6. ASSUME NEW i \in DOMAIN q
      PROVE  /\ q[i] \in Limits /\ Scaled(q, m)[i] = ScaledLimit(q[i], m)
             /\ Scaled(q, m)[i] \in Limits /\ KeyOf(Scaled(q, m)[i]) \in Keys
  <2>1. q[i] \in Limits /\ Scaled(q, m)[i] = ScaledLimit(q[i], m)
    BY <1>2 DEF Scaled
  <2>2. Scaled(q, m)[i] \in Limits /\ KeyOf(Scaled(q, m)[i]) = KeyOf(q[i])
    BY <1>3, <2>1, ScaledWellFormed
  <2>3. KeyOf(q[i]) \in Keys
    BY DEF Keys, LimitsIn
  <2> QED
    BY <2>1, <2>2, <2>3
<1>7. Scaled(q, m) \in Seq(Limits)
  BY <1>2, <1>5, <1>6 DEF Scaled
<1> QED
  BY <1>4, <1>5, <1>6, <1>7

LEMMA AdaptedLimit ==
    ASSUME NEW p \in Policies, NEW q \in Adapted[p], NEW i \in DOMAIN q
    PROVE  /\ q \in Seq(Limits) /\ q[i] \in Limits /\ KeyOf(q[i]) \in Keys
           /\ DOMAIN q = 1 .. Len(q) /\ Len(q) \in Nat
<1>1. PICK b \in p.quotas, m \in Multipliers[p] : q = Scaled(b, m)
  BY DEF Adapted
<1>2. q \in Seq(Limits) /\ q[i] \in Limits /\ KeyOf(q[i]) \in Keys
  BY <1>1, AdaptedQuotas
<1> QED
  BY <1>2

LEMMA InitEstablishes == Init => IInv
<1> SUFFICES ASSUME Init PROVE IInv
  OBVIOUS
<1>1. store = [k \in Keys |-> Absent] /\ Absent \in Hashes
  BY DEF Init, Hashes
<1>2. StoreType
  BY <1>1 DEF StoreType, Fits
<1>3. CheckType
  BY DEF Init, CheckType
<1>4. GrantedType
  BY DEF Init, GrantedType
<1> QED
  BY <1>2, <1>3, <1>4, LimiterAssumption DEF Init, IInv

(* What the runs of one command leave behind.                              *)
LEMMA RunsFacts ==
    ASSUME NEW l \in Limits, NEW k, k = KeyOf(l), clock \in Nat, Epoch <= clock,
           NEW h, Fits(k, h, clock),
           NEW o \in {"ok", "lost", "late", "twice"}
    PROVE  LET runs == RunsOf(o, h, l)
               yes == Cardinality({i \in DOMAIN runs : runs[i].allowed})
           IN /\ yes \in Nat
              /\ yes > 0 => Fits(k, runs[1].hash, clock)
<1> DEFINE one == Script(h, l, clock)
           two == Script(one.hash, l, clock)
           runs == RunsOf(o, h, l)
<1>1. Fits(k, one.hash, clock)
  BY ScriptFits
<1>2. Fits(k, two.hash, clock)
  BY <1>1, ScriptFits
<1>3. runs \in {<< >>, <<one>>, <<two, one>>}
  BY DEF RunsOf
<1> HIDE DEF one, two, runs
<1>4. PICK n \in Nat : DOMAIN runs = 1 .. n
  <2>1. DOMAIN << >> = 1 .. 0 /\ DOMAIN <<one>> = 1 .. 1 /\ DOMAIN <<two, one>> = 1 .. 2
    OBVIOUS
  <2> QED
    BY <1>3, <2>1
<1> DEFINE Y == {i \in DOMAIN runs : runs[i].allowed}
<1>5. Cardinality(Y) \in Nat
  <2>1. IsFiniteSet(1 .. n)
    BY FS_Interval
  <2>2. Y \subseteq 1 .. n
    BY <1>4
  <2> QED
    BY <2>1, <2>2, FS_Subset, FS_CardinalityType
<1>6. Cardinality(Y) > 0 => Y # {}
  BY FS_EmptySet
<1>7. Cardinality(Y) > 0 => Fits(k, runs[1].hash, clock)
  <2>1. CASE runs = << >>
    BY <1>6, <2>1
  <2>2. CASE runs = <<one>>
    BY <1>1, <2>2
  <2>3. CASE runs = <<two, one>>
    BY <1>2, <2>3
  <2> QED
    BY <1>3, <2>1, <2>2, <2>3
<1> QED
  BY <1>5, <1>7 DEF runs

LEMMA RunScriptStep ==
    ASSUME IInv, NEW c \in Clients, RunScript(c)
    PROVE  IInv'
<1> USE DEF IInv
<1>1. check[c].pc \in {"evalsha", "eval"}
  BY DEF RunScript
<1>2. check[c] \in Checking /\ check[c].pos \in DOMAIN check[c].quota
  BY <1>1 DEF CheckType, Idle
<1>3. clock \in Nat /\ Epoch <= clock
  BY LimiterAssumption
<1> DEFINE l == check[c].quota[check[c].pos]
           k == KeyOf(l)
<1>4. l \in Limits /\ k \in Keys /\ DOMAIN check[c].quota = 1 .. Len(check[c].quota)
        /\ Len(check[c].quota) \in Nat
  BY <1>2, AdaptedLimit DEF Checking
<1>5. Fits(k, Live(k, clock), clock)
  BY <1>4 DEF StoreType, Live, Fits
<1>6. PICK o \in Outcomes :
        LET runs == RunsOf(o, Live(k, clock), l)
            yes == Cardinality({i \in DOMAIN runs : runs[i].allowed})
        IN /\ faults' = IF o = "ok" THEN faults ELSE faults + 1
           /\ store' = IF yes > 0 THEN [store EXCEPT ![k] = runs[1].hash] ELSE store
           /\ granted' = [granted EXCEPT ![k] =
                 [t \in DOMAIN granted[k] |->
                     granted[k][t] + (IF t < clock THEN 0 ELSE yes)]]
           /\ check' = [check EXCEPT ![c] =
                IF o \in {"lost", "late"}
                  THEN IF check[c].pc = "evalsha" THEN [check[c] EXCEPT !.pc = "eval"] ELSE Idle
                  ELSE IF runs[1].allowed THEN Advanced(c) ELSE Idle]
  BY DEF RunScript
<1>15. o \in {"ok", "lost", "late", "twice"}
  BY DEF Outcomes
<1> DEFINE runs == RunsOf(o, Live(k, clock), l)
           yes == Cardinality({i \in DOMAIN runs : runs[i].allowed})
<1>7. yes \in Nat /\ (yes > 0 => Fits(k, runs[1].hash, clock))
  BY <1>3, <1>4, <1>5, <1>15, RunsFacts
<1>8. UNCHANGED <<policy, clock, loaded, resets>>
  BY DEF RunScript
<1>9. store' = IF yes > 0 THEN [store EXCEPT ![k] = runs[1].hash] ELSE store
  BY <1>6
<1>16. faults' \in Nat
  <2>1. faults' = faults \/ faults' = faults + 1
    BY <1>6
  <2> QED
    BY <2>1
<1>10. granted' = [granted EXCEPT ![k] =
                 [t \in DOMAIN granted[k] |->
                     granted[k][t] + (IF t < clock THEN 0 ELSE yes)]]
  BY <1>6
<1>11. PICK next : check' = [check EXCEPT ![c] = next]
         /\ next \in {[check[c] EXCEPT !.pc = "eval"], Idle, Advanced(c)}
  BY <1>6
<1> HIDE DEF l, k, yes, runs
<1>12. StoreType'
  <2>1. CASE yes > 0
    <3>1. runs[1].hash \in Hashes
      BY <1>7, <2>1 DEF Fits, Hashes, WindowHashes, CounterHashes, BucketHashes
    <3> QED
      BY <1>4, <1>7, <1>8, <1>9, <2>1, <3>1 DEF StoreType
  <2>2. CASE ~(yes > 0)
    BY <1>8, <1>9, <2>2 DEF StoreType
  <2> QED
    BY <2>1, <2>2
<1>13. GrantedType'
  <2>1. granted[k] \in [Epoch .. MaxClock -> Nat]
    BY <1>4 DEF GrantedType
  <2>2. \A n \in Nat, t \in Epoch .. MaxClock : n + (IF t < clock THEN 0 ELSE yes) \in Nat
    BY <1>7
  <2>3. [t \in DOMAIN granted[k] |-> granted[k][t] + (IF t < clock THEN 0 ELSE yes)]
          \in [Epoch .. MaxClock -> Nat]
    BY <2>1, <2>2
  <2> QED
    BY <1>4, <1>10, <2>3 DEF GrantedType
<1>14. CheckType'
  <2>1. next = Idle \/ (next \in Checking /\ next.pos \in DOMAIN next.quota)
    <3>1. CASE next = [check[c] EXCEPT !.pc = "eval"]
      BY <1>2, <3>1 DEF Checking
    <3>2. CASE next = Advanced(c) /\ next # Idle
      <4>1. /\ next = [check[c] EXCEPT !.pc = Call, !.pos = check[c].pos + 1]
            /\ check[c].pos < Len(check[c].quota)
        BY <3>2 DEF Advanced
      <4>2. Call \in {"evalsha", "eval"}
        BY DEF Call
      <4>5. PICK pc \in {"evalsha", "eval"} : pc = Call
        BY <4>2
      <4>6. PICK n \in Nat : n = check[c].pos + 1
        BY <1>2 DEF Checking
      <4>7. next = [check[c] EXCEPT !.pc = pc, !.pos = n]
        BY <4>1, <4>5, <4>6
      <4>3. next \in Checking /\ next.pos = check[c].pos + 1 /\ next.quota = check[c].quota
        BY <1>2, <4>6, <4>7 DEF Checking
      <4>4. check[c].pos \in 1 .. Len(check[c].quota)
        BY <1>2, <1>4
      <4> QED
        BY <1>4, <4>1, <4>3, <4>4
    <3> QED
      BY <1>11, <3>1, <3>2
  <2>2. Checking' = Checking
    BY <1>8 DEF Checking
  <2>3. check'[c] = next /\ DOMAIN check' = Clients
          /\ \A d \in Clients : d # c => check'[d] = check[d]
    BY <1>11 DEF CheckType
  <2>4. check' = [d \in Clients |-> check'[d]]
    BY <1>11 DEF CheckType
  <2> QED
    BY <2>1, <2>2, <2>3, <2>4 DEF CheckType
<1> QED
  BY <1>8, <1>12, <1>13, <1>14, <1>16

LEMMA StepPreserves == IInv /\ [Next]_vars => IInv'
<1> SUFFICES ASSUME IInv, [Next]_vars PROVE IInv'
  OBVIOUS
<1> USE DEF IInv
<1>1. ASSUME NEW c \in Clients, NEW q \in policy.quotas, NEW m \in Multipliers[policy],
             Begin(c, q, m)
      PROVE  IInv'
  <2>1. UNCHANGED <<policy, store, clock, loaded, faults, resets, granted>> /\ q # << >>
    BY <1>1 DEF Begin
  <2>2. PICK next : next = [pc |-> Call, quota |-> Scaled(q, m), pos |-> 1]
    OBVIOUS
  <2>3. check' = [check EXCEPT ![c] = next]
    BY <1>1, <2>2 DEF Begin
  <2>4. q \in Seq(Limits)
    BY LimiterAssumption
  <2>5. 1 \in DOMAIN q
    BY <2>1, <2>4
  <2>6. Call \in {"evalsha", "eval"} /\ Scaled(q, m) \in Adapted[policy]
          /\ DOMAIN Scaled(q, m) = DOMAIN q
    BY AdaptedQuotas DEF Call
  <2>7. next \in Checking /\ next.pos \in DOMAIN next.quota
    BY <2>2, <2>5, <2>6 DEF Checking
  <2>8. Checking' = Checking
    BY <2>1 DEF Checking
  <2>9. CheckType'
    BY <2>3, <2>7, <2>8 DEF CheckType
  <2> QED
    BY <2>1, <2>9 DEF StoreType, GrantedType
<1>2. ASSUME NEW k \in Keys, ResetLimit(k) PROVE IInv'
  <2>1. /\ UNCHANGED <<policy, clock, loaded, check, faults>> /\ resets' = resets + 1
        /\ store' = [store EXCEPT ![k] = Absent]
        /\ granted' = [granted EXCEPT ![k] = [t \in DOMAIN granted[k] |-> 0]]
    BY <1>2 DEF ResetLimit
  <2>2. StoreType'
    BY <2>1 DEF StoreType, Fits, Hashes
  <2>3. [t \in DOMAIN granted[k] |-> 0] \in [Epoch .. MaxClock -> Nat]
    BY DEF GrantedType
  <2>4. GrantedType'
    BY <2>1, <2>3 DEF GrantedType
  <2> QED
    BY <2>1, <2>2, <2>4 DEF CheckType, Checking
<1>3. ASSUME Tick PROVE IInv'
  <2>1. UNCHANGED <<policy, store, loaded, check, faults, resets, granted>>
          /\ clock' = clock + 1 /\ clock < MaxClock
    BY <1>3 DEF Tick
  <2>2. clock \in Nat /\ clock' \in Nat /\ clock <= clock' /\ clock' \in Epoch .. MaxClock
    BY <2>1, LimiterAssumption
  <2>3. \A k \in Keys : Fits(k, store[k], clock')
    BY <2>2, FitsLater DEF StoreType
  <2> QED
    BY <2>1, <2>2, <2>3 DEF StoreType, CheckType, Checking, GrantedType
<1>4. CASE LoadScripts
  BY <1>4 DEF LoadScripts, StoreType, CheckType, Checking, GrantedType
<1>5. CASE UNCHANGED vars
  BY <1>5 DEF vars, StoreType, CheckType, Checking, GrantedType
<1>6. ASSUME NEW k \in {KeyOf(l) : l \in LimitsIn(policy.quotas)} PROVE k \in Keys
  BY DEF Keys, LimitsIn
<1> QED
  BY <1>1, <1>2, <1>3, <1>4, <1>5, <1>6, RunScriptStep DEF Next

(* The inductive invariant holds at every step.                            *)
THEOREM IInvInductive == Spec => []IInv
<1>1. Init => IInv
  BY InitEstablishes
<1>2. IInv /\ [Next]_vars => IInv'
  BY StepPreserves
<1> QED
  BY <1>1, <1>2, PTL DEF Spec

(* Types of every variable, for any configurations, clients and faults.    *)
THEOREM TypeCorrect == Spec => []TypeOK
<1>1. IInv => TypeOK
  BY IInvImpliesTypeOK
<1> QED
  BY <1>1, IInvInductive, PTL

(* For any quotas, multipliers, lengths of a tick, faults and resets, a    *)
(* sender who keeps quiet for the quiet time of a limit passes it again.   *)
THEOREM QuietSenderAllowedAlways == Spec => []QuietSenderAllowed
<1>1. IInv => QuietSenderAllowed
  <2> SUFFICES ASSUME IInv, NEW base \in LimitsIn(policy.quotas),
                      NEW m \in Multipliers[policy], base.count > 0
               PROVE  LET l == ScaledLimit(base, m)
                          t == clock + QuietTime(l)
                      IN Script(Live(KeyOf(l), t), l, t).allowed
    BY DEF QuietSenderAllowed
  <2>0. PICK q \in policy.quotas : \E i \in DOMAIN q : base = q[i]
    BY DEF LimitsIn
  <2>1. PICK i \in DOMAIN q : base = q[i]
    BY <2>0
  <2>2. base \in Limits /\ policy.adaptive \in AdaptiveConfigs
    BY <2>1, AdaptedQuotas, LimiterAssumption DEF IInv
  <2>3. m \in Nat
    BY <2>2, MultiplierType DEF Multipliers, IInv
  <2>4. PICK l : l = ScaledLimit(base, m)
    OBVIOUS
  <2>5. l \in Limits /\ l.count > 0 /\ KeyOf(l) = KeyOf(base)
    BY <2>2, <2>3, <2>4, ScaledWellFormed
  <2>6. KeyOf(l) \in Keys
    BY <2>1, <2>5, AdaptedQuotas DEF IInv, Keys, LimitsIn
  <2>7. clock \in Nat /\ Fits(KeyOf(l), store[KeyOf(l)], clock)
    BY <2>6, LimiterAssumption DEF IInv, StoreType
  <2>8. PICK t : t = clock + QuietTime(l)
    OBVIOUS
  <2>9. Script(Live(KeyOf(l), t), l, t).allowed
    BY <2>5, <2>7, <2>8, QuietAllowed DEF Live
  <2> QED
    BY <2>4, <2>8, <2>9
<1> QED
  BY <1>1, IInvInductive, PTL

(* For any configurations whose buckets fill up while their hashes live:   *)
(* the expiry of a hash changes no answer.                                 *)
THEOREM ExpiryHarmlessAlways ==
    ASSUME \A p \in Policies : \A l \in LimitsIn(Adapted[p]) : FullInTime(l)
    PROVE  Spec => []ExpiryHarmless
<1>1. IInv => ExpiryHarmless
  <2> SUFFICES ASSUME IInv, NEW k \in Keys, store[k] # Absent, clock >= store[k].expires,
                      NEW l \in LimitsOf(k)
               PROVE  SameEffect(Script(store[k], l, clock), Script(Absent, l, clock))
    BY DEF ExpiryHarmless
  <2>1. policy \in Policies /\ clock \in Nat /\ Fits(k, store[k], clock)
    BY LimiterAssumption DEF IInv, StoreType
  <2>2. l \in LimitsIn(Adapted[policy]) /\ KeyOf(l) = k
    BY DEF LimitsOf
  <2>3. PICK q \in Adapted[policy] : \E i \in DOMAIN q : l = q[i]
    BY <2>2 DEF LimitsIn
  <2>4. l \in Limits
    BY <2>1, <2>3, AdaptedLimit
  <2>5. store[k].expires <= clock
    BY <2>1 DEF Fits, WindowHashes, CounterHashes, BucketHashes
  <2> QED
    BY <2>1, <2>2, <2>4, <2>5, ForgottenHarmless
<1> QED
  BY <1>1, IInvInductive, PTL

(* For any configurations whose durations have passed since the epoch of   *)
(* the clock: while a window denies, get_usage says "exceeded", and for a  *)
(* fixed window only then.                                                 *)
THEOREM UsageAgreesAlways ==
    ASSUME \A k \in Keys : k.duration <= Second(Epoch)
    PROVE  Spec => []UsageAgrees
<1>1. IInv => UsageAgrees
  <2> SUFFICES ASSUME IInv,
                      NEW k \in KeysInUse("fixed_window") \cup KeysInUse("sliding_window_counter"),
                      NEW l \in LimitsOf(k)
               PROVE  LET h == Live(k, clock)
                          denied == ~Script(h, l, clock).allowed
                          exceeded == GetUsage(h, l, clock) >= l.count
                      IN /\ denied => exceeded
                         /\ exceeded /\ k.algorithm = "fixed_window" => denied
    BY DEF UsageAgrees
  <2>1. policy \in Policies /\ clock \in Nat
    BY LimiterAssumption DEF IInv
  <2>2. l \in LimitsIn(Adapted[policy]) /\ KeyOf(l) = k
    BY DEF LimitsOf
  <2>3. PICK q \in Adapted[policy] : \E i \in DOMAIN q : l = q[i]
    BY <2>2 DEF LimitsIn
  <2>4. l \in Limits /\ k \in Keys
    BY <2>1, <2>2, <2>3, AdaptedLimit
  <2>5. PICK h : h = Live(k, clock)
    OBVIOUS
  <2>6. Fits(KeyOf(l), h, clock)
    BY <2>2, <2>4, <2>5 DEF IInv, StoreType, Live, Fits
  <2>7. CASE k.algorithm = "fixed_window"
    <3>1. l.algorithm = "fixed_window"
      BY <2>2, <2>7 DEF KeyOf
    <3>2. (GetUsage(h, l, clock) >= l.count) <=> ~Script(h, l, clock).allowed
      BY <2>1, <2>4, <2>6, <3>1, FixedUsageAgrees DEF Script
    <3> QED
      BY <2>5, <3>2
  <2>8. CASE k.algorithm = "sliding_window_counter"
    <3>1. l.algorithm = "sliding_window_counter" /\ l.duration <= Second(Epoch)
      BY <2>2, <2>4, <2>8 DEF KeyOf
    <3>2. ~Script(h, l, clock).allowed => GetUsage(h, l, clock) >= l.count
      BY <2>1, <2>4, <2>6, <3>1, SlidingUsageAgrees DEF Script
    <3> QED
      BY <2>5, <2>8, <3>2
  <2>9. k.algorithm \in {"fixed_window", "sliding_window_counter"}
    BY DEF KeysInUse, KeyOf
  <2> QED
    BY <2>7, <2>8, <2>9
<1> QED
  BY <1>1, IInvInductive, PTL
=============================================================================
