---------------------------- MODULE MCRateLimiter ----------------------------
(* Instances of RateLimiter for TLC: limits of a few messages and seconds. *)
EXTENDS RateLimiter, TLC

CONSTANTS c1, c2

Limit(a, n, d, r) == [algorithm |-> a, count |-> n, duration |-> d, refill |-> r]

\* An authenticated sender's limits are relaxed, that of others tightened;
\* a trusted sender's factor is cut to that of an authenticated one.
Adaptive ==
    [enable |-> TRUE, authenticated |-> 150, unauthenticated |-> 50, local |-> 100,
     external |-> 0, trusted |-> 200, minimum |-> 25, maximum |-> 150]
NotAdaptive == [Adaptive EXCEPT !.enable = FALSE]

\* Scaled to one message and to two, and to one and three, which share a key.
FixedPolicy == [quotas |-> {<<Limit("fixed_window", 1, 2, 0)>>}, adaptive |-> Adaptive]
SlidingPolicy ==
    [quotas |-> {<<Limit("sliding_window_counter", 2, 2, 0)>>}, adaptive |-> Adaptive]
BucketPolicy == [quotas |-> {<<Limit("token_bucket", 2, 4, 2)>>}, adaptive |-> Adaptive]

\* A second limit behind the first, which alone denies some messages.
ChainedPolicy ==
    [quotas |-> {<<Limit("sliding_window_counter", 2, 2, 0), Limit("fixed_window", 1, 1, 0)>>},
     adaptive |-> NotAdaptive]

\* A quarter of a token in a tick, as the quota spells out: full after four
\* ticks, of which the time to live covers two.
SlowBucketPolicy ==
    [quotas |-> {<<Limit("token_bucket", 2, 1, 1)>>}, adaptive |-> NotAdaptive]

MCPolicies == {FixedPolicy, SlidingPolicy, ChainedPolicy, BucketPolicy}
SlowPolicies == {SlowBucketPolicy}

ClientSymmetry == Permutations(Clients)
=============================================================================
