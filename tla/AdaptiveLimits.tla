---------------------------- MODULE AdaptiveLimits ----------------------------
(***************************************************************************)
(* Limits and their adaptive scaling: _resolve_adaptive_multiplier and     *)
(* _apply_adaptive_limits of src/policyd_py/policy/handler.py.  Multipliers*)
(* are percentages, where the code uses doubles.  Refill rates are in units*)
(* of tokens per tick, Unit to a token, and rounded down to such units.    *)
(***************************************************************************)
EXTENDS Integers, Sequences, FiniteSets

CONSTANTS TicksPerSecond, Unit

Algorithms == {"fixed_window", "sliding_window_counter", "token_bucket"}

Limits == [algorithm : Algorithms, count : Nat, duration : Nat \ {0}, refill : Nat]

Whole == 100

(* The section of the configuration on adaptive limits.                    *)
AdaptiveConfigs ==
    [enable : BOOLEAN, authenticated : Nat, unauthenticated : Nat, local : Nat,
     external : Nat, trusted : Nat, minimum : Nat, maximum : Nat]

ASSUME UnitAssumption == TicksPerSecond \in Nat \ {0} /\ Unit \in Nat \ {0}

(* What the multiplier of a message depends on: whether its sender is      *)
(* authenticated or on a trusted list, and where its domain is from.       *)
Signals == [sasl : BOOLEAN, domain : {"local", "external", "none"}, trusted : BOOLEAN]

Factors(a, s) ==
    {IF s.sasl THEN a.authenticated ELSE a.unauthenticated}
      \cup (CASE s.domain = "local" -> {a.local}
              [] s.domain = "external" -> {a.external}
              [] OTHER -> {})
      \cup (IF s.trusted THEN {a.trusted} ELSE {})

Larger(m, n) == IF m < n THEN n ELSE m
Smaller(m, n) == IF m < n THEN m ELSE n

(* The strongest of the factors that relax, or else of those that tighten; *)
(* a factor of zero counts for nothing.                                    *)
Relaxing(S) == {f \in S : f > Whole}
Tightening(S) == {f \in S : 0 < f /\ f < Whole}
Strongest(S) ==
    CASE Relaxing(S) # {} -> CHOOSE f \in Relaxing(S) : \A g \in Relaxing(S) : g <= f
      [] Relaxing(S) = {} /\ Tightening(S) # {} ->
           CHOOSE f \in Tightening(S) : \A g \in Tightening(S) : f <= g
      [] OTHER -> Whole

Clamped(a, f) == Smaller(a.maximum, Larger(a.minimum, f))

Multiplier(a, s) == IF a.enable THEN Clamped(a, Strongest(Factors(a, s))) ELSE Whole

Ceil(n, d) == (n + d - 1) \div d

(* Slip: the scaled count is rounded down and may be zero.                 *)
ScaledCountRoundedDown(n, m) == (n * m) \div Whole

ScaledCount(n, m) == Larger(1, Ceil(n * m, Whole))

(* A bucket refills at least one token in the duration of its limit.       *)
ScaledRefill(l, m) ==
    IF l.algorithm = "token_bucket" /\ l.refill > 0
      THEN Larger((l.refill * m) \div Whole, Unit \div (l.duration * TicksPerSecond))
      ELSE l.refill

ScaledLimit(l, m) ==
    IF m = Whole THEN l
    ELSE [l EXCEPT !.count = ScaledCount(l.count, m), !.refill = ScaledRefill(l, m)]

Scaled(quota, m) == [i \in DOMAIN quota |-> ScaledLimit(quota[i], m)]
=============================================================================
