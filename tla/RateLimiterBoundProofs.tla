------------------------- MODULE RateLimiterBoundProofs -------------------------
(***************************************************************************)
(* The bounds that RateLimiter promises (QuotaBound), for any              *)
(* configuration, number of clients, faults and resets.                    *)
(***************************************************************************)
EXTENDS RateLimiterProofs, WellFoundedInduction

(* A finite set of naturals has a largest element: the smallest of the sets*)
(* of what is not less than some element is that of the largest.           *)
LEMMA LargestExists ==
    ASSUME NEW S \in SUBSET Nat, IsFiniteSet(S), S # {}
    PROVE  Largest(S) \in S /\ \A m \in S : m <= Largest(S)
<1> DEFINE Above(x) == {y \in S : x <= y}
           Segments == {Above(x) : x \in S}
<1>1. IsWellFoundedOn(StrictSubsetOrdering(S), FiniteSubsetsOf(S))
  BY FS_StrictSubsetOrderingWellFounded
<1>2. FiniteSubsetsOf(S) = SUBSET S
  BY FS_FiniteSubsetsOfFinite
<1>3. Segments \subseteq SUBSET S /\ Segments # {}
  OBVIOUS
<1>4. PICK A \in Segments : \A B \in Segments : ~(<<B, A>> \in StrictSubsetOrdering(S))
  <2>1. PICK R, P, T : R = StrictSubsetOrdering(S) /\ P = SUBSET S /\ T = Segments
    OBVIOUS
  <2> HIDE DEF Segments
  <2>2. IsWellFoundedOn(R, P) /\ T \subseteq P /\ T # {}
    BY <1>1, <1>2, <1>3, <2>1
  <2>3. \E A \in T : \A B \in T : ~(<<B, A>> \in R)
    BY <2>2, WFMin
  <2> QED
    BY <2>1, <2>3
<1>5. PICK x \in S : A = Above(x)
  OBVIOUS
<1>6. ASSUME NEW y \in S, ~(y <= x) PROVE FALSE
  <2>0. x \in Nat /\ y \in Nat /\ \A z \in S : z \in Nat
    OBVIOUS
  <2>1. Above(y) \subseteq Above(x) /\ x \in Above(x) /\ x \notin Above(y)
    <3>1. \A z \in S : y <= z => x <= z
      BY <1>6, <2>0
    <3>2. x <= x
      BY <2>0
    <3> QED
      BY <1>6, <3>1, <3>2, Zenon
  <2>2. Above(y) \in Segments /\ Above(y) \in SUBSET S /\ Above(x) \in SUBSET S
    OBVIOUS
  <2>3. <<Above(y), Above(x)>> \in StrictSubsetOrdering(S)
    BY <2>1, <2>2 DEF StrictSubsetOrdering
  <2> QED
    BY <1>4, <1>5, <2>2, <2>3
<1>7. \A y \in S : y <= x
  BY <1>6
<1> QED
  BY <1>7 DEF Largest

(* The image of a finite set is finite.                                    *)
LEMMA ImageFinite ==
    ASSUME NEW S, IsFiniteSet(S), NEW f, DOMAIN f = S, NEW T, T = {f[x] : x \in S}
    PROVE  IsFiniteSet(T)
<1>1. PICK g : g = [x \in S |-> f[x]]
  OBVIOUS
<1>2. g \in [S -> T] /\ \A t \in T : \E x \in S : g[x] = t
  BY <1>1
<1>3. g \in Surjection(S, T)
  BY <1>2 DEF Surjection
<1> QED
  BY <1>3, FS_Surjection

(* A configuration has finitely many limits, scaled or not.                *)
LEMMA SignalsFinite == IsFiniteSet(Signals)
<1>1. PICK D : D = {"local", "external", "none"}
  OBVIOUS
<1>2. IsFiniteSet({"local"}) /\ IsFiniteSet({TRUE})
  BY FS_Singleton
<1>3. IsFiniteSet({"local"} \cup {"external"}) /\ IsFiniteSet({TRUE} \cup {FALSE})
  BY <1>2, FS_AddElement
<1>4. IsFiniteSet(({"local"} \cup {"external"}) \cup {"none"})
  BY <1>3, FS_AddElement
<1>5. D = ({"local"} \cup {"external"}) \cup {"none"} /\ BOOLEAN = {TRUE} \cup {FALSE}
  BY <1>1
<1>6. IsFiniteSet(D) /\ IsFiniteSet(BOOLEAN)
  BY <1>3, <1>4, <1>5
<1>7. IsFiniteSet(BOOLEAN \X D)
  BY <1>6, FS_Product
<1>8. PICK E : E = BOOLEAN \X D
  OBVIOUS
<1>9. IsFiniteSet(E \X BOOLEAN)
  BY <1>6, <1>7, <1>8, FS_Product
<1>10. PICK f : f = [x \in E \X BOOLEAN |->
                       [sasl |-> x[1][1], domain |-> x[1][2], trusted |-> x[2]]]
  OBVIOUS
<1>11. \A s \in Signals : \E x \in E \X BOOLEAN : f[x] = s
  <2> SUFFICES ASSUME NEW s \in Signals PROVE \E x \in E \X BOOLEAN : f[x] = s
    OBVIOUS
  <2>1. s = [sasl |-> s.sasl, domain |-> s.domain, trusted |-> s.trusted]
          /\ s.sasl \in BOOLEAN /\ s.domain \in D /\ s.trusted \in BOOLEAN
    BY <1>1 DEF Signals
  <2>2. <<<<s.sasl, s.domain>>, s.trusted>> \in E \X BOOLEAN
    BY <1>8, <2>1
  <2>3. f[<<<<s.sasl, s.domain>>, s.trusted>>] = s
    BY <1>10, <2>1, <2>2
  <2> QED
    BY <2>2, <2>3
<1>12. PICK T : T = {f[x] : x \in E \X BOOLEAN}
  OBVIOUS
<1>13. IsFiniteSet(T)
  BY <1>9, <1>10, <1>12, ImageFinite
<1>14. Signals \in SUBSET T
  BY <1>11, <1>12
<1> QED
  BY <1>13, <1>14, FS_Subset

LEMMA LimitsFinite ==
    ASSUME NEW quotas \in SUBSET Seq(Limits), IsFiniteSet(quotas)
    PROVE  IsFiniteSet(LimitsIn(quotas))
<1>1. PICK f : f = [q \in quotas |-> {q[i] : i \in DOMAIN q}]
  OBVIOUS
<1>2. PICK T : T = {f[q] : q \in quotas}
  OBVIOUS
<1>3. IsFiniteSet(T)
  <2>1. DOMAIN f = quotas
    BY <1>1
  <2> QED
    BY <1>2, <2>1, ImageFinite
<1>4. ASSUME NEW q \in quotas PROVE IsFiniteSet(f[q])
  <2>1. DOMAIN q = 1 .. Len(q) /\ Len(q) \in Nat
    OBVIOUS
  <2>2. IsFiniteSet(DOMAIN q)
    BY <2>1, FS_Interval
  <2>3. f[q] = {q[i] : i \in DOMAIN q}
    BY <1>1
  <2> QED
    BY <2>2, <2>3, ImageFinite
<1>5. IsFiniteSet(UNION T)
  BY <1>2, <1>3, <1>4, FS_UNION
<1>6. LimitsIn(quotas) = UNION T
  BY <1>1, <1>2 DEF LimitsIn
<1> QED
  BY <1>5, <1>6

LEMMA AdaptedFinite ==
    ASSUME NEW p \in Policies
    PROVE  IsFiniteSet(LimitsIn(Adapted[p])) /\ LimitsIn(Adapted[p]) \subseteq Limits
<1>1. p.quotas \in SUBSET Seq(Limits) /\ IsFiniteSet(p.quotas)
  BY LimiterAssumption, FiniteAssumption
<1>2. IsFiniteSet(Multipliers[p])
  <2>1. PICK f : f = [s \in Signals |-> Multiplier(p.adaptive, s)]
    OBVIOUS
  <2>2. Multipliers[p] = {f[s] : s \in Signals}
    BY <2>1 DEF Multipliers
  <2> QED
    BY <2>1, <2>2, SignalsFinite, ImageFinite
<1>3. PICK Q, M : Q = p.quotas /\ M = Multipliers[p]
  OBVIOUS
<1>4. IsFiniteSet(Q \X M)
  BY <1>1, <1>2, <1>3, FS_Product
<1>5. PICK f : f = [x \in Q \X M |-> Scaled(x[1], x[2])]
  OBVIOUS
<1>6. Adapted[p] = {f[x] : x \in Q \X M}
  <2>1. Adapted[p] = {Scaled(q, m) : q \in Q, m \in M}
    BY <1>3 DEF Adapted
  <2>2. \A q \in Q, m \in M : <<q, m>> \in Q \X M /\ f[<<q, m>>] = Scaled(q, m)
    BY <1>5
  <2>3. \A x \in Q \X M : x[1] \in Q /\ x[2] \in M /\ f[x] = Scaled(x[1], x[2])
    BY <1>5
  <2>4. ASSUME NEW y \in Adapted[p] PROVE \E x \in Q \X M : y = f[x]
    <3>1. PICK q \in Q, m \in M : y = Scaled(q, m)
      BY <2>1
    <3> QED
      BY <2>2, <3>1
  <2>5. \A x \in Q \X M : f[x] \in Adapted[p]
    BY <2>1, <2>3
  <2> QED
    BY <2>4, <2>5
<1>7. IsFiniteSet(Adapted[p])
  BY <1>4, <1>5, <1>6, ImageFinite
<1>8. Adapted[p] \in SUBSET Seq(Limits)
  BY <1>3, AdaptedQuotas DEF Adapted
<1>9. IsFiniteSet(LimitsIn(Adapted[p]))
  BY <1>7, <1>8, LimitsFinite
<1>10. LimitsIn(Adapted[p]) \subseteq Limits
  BY AdaptedLimit DEF LimitsIn
<1> QED
  BY <1>9, <1>10

(* The counts and refill rates of the limits that share a key have a       *)
(* largest one.                                                            *)
LEMMA TopFacts ==
    ASSUME policy \in Policies, NEW k, LimitsOf(k) # {}
    PROVE  /\ TopCount(k) \in Nat /\ TopRefill(k) \in Nat
           /\ \A l \in LimitsOf(k) : l.count <= TopCount(k) /\ l.refill <= TopRefill(k)
           /\ \E l \in LimitsOf(k) : l.count = TopCount(k)
<1>1. IsFiniteSet(LimitsOf(k)) /\ LimitsOf(k) \subseteq Limits
  <2>1. LimitsOf(k) \in SUBSET LimitsIn(Adapted[policy])
    BY DEF LimitsOf
  <2> QED
    BY <2>1, AdaptedFinite, FS_Subset
<1>2. PICK S : S = LimitsOf(k)
  OBVIOUS
<1>3. PICK f, g : f = [l \in S |-> l.count] /\ g = [l \in S |-> l.refill]
  OBVIOUS
<1>4. PICK C, R : C = {f[l] : l \in S} /\ R = {g[l] : l \in S}
  OBVIOUS
<1>5. IsFiniteSet(C) /\ IsFiniteSet(R)
  BY <1>1, <1>2, <1>3, <1>4, ImageFinite
<1>6. C = {l.count : l \in LimitsOf(k)} /\ R = {l.refill : l \in LimitsOf(k)}
  BY <1>2, <1>3, <1>4
<1>7. C \in SUBSET Nat /\ R \in SUBSET Nat /\ C # {} /\ R # {}
  BY <1>1, <1>6 DEF Limits
<1>8. /\ Largest(C) \in C /\ \A n \in C : n <= Largest(C)
      /\ Largest(R) \in R /\ \A n \in R : n <= Largest(R)
  BY <1>5, <1>7, LargestExists
<1>9. TopCount(k) = Largest(C) /\ TopRefill(k) = Largest(R)
  BY <1>6 DEF TopCount, TopRefill
<1> QED
  BY <1>6, <1>7, <1>8, <1>9

(* The key of a limit of the configuration is that of its scaled forms.    *)
LEMMA InUseHasLimits ==
    ASSUME policy \in Policies, NEW a, NEW k \in KeysInUse(a)
    PROVE  /\ LimitsOf(k) # {} /\ k \in Keys
           /\ k.algorithm = a /\ k.duration \in Nat \ {0}
<1>1. PICK l \in LimitsIn(policy.quotas) : l.algorithm = a /\ k = KeyOf(l)
  BY DEF KeysInUse
<1>2. PICK q \in policy.quotas : \E i \in DOMAIN q : l = q[i]
  BY DEF LimitsIn
<1>3. PICK i \in DOMAIN q : l = q[i]
  BY <1>2
<1>4. PICK s : s \in Signals
  <2>1. [sasl |-> TRUE, domain |-> "none", trusted |-> TRUE] \in Signals
    BY DEF Signals
  <2> QED
    BY <2>1
<1>5. PICK m \in Multipliers[policy] : TRUE
  BY <1>4 DEF Multipliers
<1>6. l \in Limits /\ Scaled(q, m)[i] = ScaledLimit(l, m) /\ Scaled(q, m) \in Adapted[policy]
        /\ DOMAIN Scaled(q, m) = DOMAIN q /\ policy.adaptive \in AdaptiveConfigs
  BY <1>3, AdaptedQuotas, LimiterAssumption
<1>7. m \in Nat
  BY <1>6, MultiplierType DEF Multipliers
<1>8. KeyOf(ScaledLimit(l, m)) = k
  BY <1>1, <1>6, <1>7, ScaledWellFormed
<1>9. ScaledLimit(l, m) \in LimitsIn(Adapted[policy])
  BY <1>6 DEF LimitsIn
<1>10. ScaledLimit(l, m) \in LimitsOf(k)
  BY <1>8, <1>9 DEF LimitsOf
<1>11. k \in Keys
  BY <1>1 DEF Keys
<1> QED
  BY <1>1, <1>6, <1>10, <1>11 DEF KeyOf, Limits
-----------------------------------------------------------------------------
(* What the history of a key counts.  Counted(P, n): P counts the messages *)
(* before each second (or tick), of which the last is in second n; Plus    *)
(* counts some more in second n.                                           *)
Counted(P, n) ==
    /\ P \in [Int -> Nat]
    /\ \A r, s \in Int : r <= s => P[r] <= P[s]
    /\ \A s \in Int : n < s => P[s] = P[n + 1]

Plus(P, n, more) == [s \in Int |-> P[s] + (IF n < s THEN more ELSE 0)]

LEMMA PlusCounted ==
    ASSUME NEW P, NEW n \in Int, NEW more \in Nat, Counted(P, n)
    PROVE  Counted(Plus(P, n, more), n)
<1> DEFINE Q == Plus(P, n, more)
<1>1. \A s \in Int : Q[s] = (IF n < s THEN P[s] + more ELSE P[s]) /\ P[s] \in Nat
  BY DEF Counted, Plus
<1>2. \A s \in Int : Q[s] \in Nat
  BY <1>1
<1>3. Q \in [Int -> Nat]
  BY <1>2 DEF Plus
<1>4. \A r, s \in Int : r <= s => P[r] <= P[s]
  BY DEF Counted
<1> HIDE DEF Q
<1>5. \A r, s \in Int : r <= s => Q[r] <= Q[s]
  <2> SUFFICES ASSUME NEW r \in Int, NEW s \in Int, r <= s PROVE Q[r] <= Q[s]
    OBVIOUS
  <2>1. P[r] <= P[s] /\ P[r] \in Nat /\ P[s] \in Nat
    BY <1>1, <1>4
  <2>2. Q[r] = (IF n < r THEN P[r] + more ELSE P[r])
          /\ Q[s] = (IF n < s THEN P[s] + more ELSE P[s])
    BY <1>1
  <2> QED
    BY <2>1, <2>2
<1>6. \A s \in Int : n < s => P[s] = P[n + 1]
  BY DEF Counted
<1>7. \A s \in Int : n < s => Q[s] = Q[n + 1]
  BY <1>1, <1>6
<1> QED
  BY <1>3, <1>5, <1>7 DEF Counted, Q

History(g, t) ==
    /\ g \in [Epoch .. MaxClock -> Nat]
    /\ \A u, v \in Epoch .. MaxClock : u <= v => g[u] <= g[v]
    /\ \A u \in Epoch .. MaxClock : t <= u => g[u] = g[t]

SoFar(g, t) == IF t < Epoch THEN 0 ELSE g[Smaller(t, MaxClock)]
Before(g, width) == [s \in Int |-> SoFar(g, s * width - 1)]

More(g, t, n) == [u \in DOMAIN g |-> g[u] + (IF u < t THEN 0 ELSE n)]

(* The stretches of "width" ticks after that of instant t are those that   *)
(* begin after t.                                                          *)
LEMMA Stretches ==
    ASSUME NEW t \in Nat, NEW width \in Nat \ {0}
    PROVE  /\ \A s \in Int : s * width - 1 \in Int
           /\ \A s \in Int : (t \div width < s) <=> (t <= s * width - 1)
           /\ \A r, s \in Int : r <= s => r * width - 1 <= s * width - 1
<1>1. PICK q \in Nat : q = t \div width /\ width * q <= t /\ t < width * q + width
  BY DivFacts
<1>2. \A r, s \in Int : r <= s => r * width <= s * width
  OBVIOUS
<1>3. \A s \in Int : s * width \in Int
  OBVIOUS
<1>4. q * width <= t /\ t < (q + 1) * width
  <2>1. width * q = q * width /\ (q + 1) * width = q * width + width
    OBVIOUS
  <2> QED
    BY <1>1, <2>1
<1>5. ASSUME NEW s \in Int PROVE (q < s) <=> (t <= s * width - 1)
  <2>1. q < s => (q + 1) * width <= s * width
    BY <1>2
  <2>2. s <= q => s * width <= q * width
    BY <1>2
  <2>3. PICK a, b, c \in Int : a = s * width /\ b = q * width /\ c = (q + 1) * width
    BY <1>3
  <2> QED
    BY <1>4, <2>1, <2>2, <2>3
<1>6. \A r, s \in Int : r <= s => r * width - 1 <= s * width - 1
  <2> SUFFICES ASSUME NEW r \in Int, NEW s \in Int, r <= s
               PROVE  r * width - 1 <= s * width - 1
    OBVIOUS
  <2>1. PICK a, b \in Int : a = r * width /\ b = s * width
    BY <1>3
  <2> QED
    BY <1>2, <2>1
<1> QED
  BY <1>1, <1>3, <1>5, <1>6

LEMMA SoFarFacts ==
    ASSUME NEW t \in Epoch .. MaxClock, NEW g, History(g, t)
    PROVE  /\ \A u \in Int : SoFar(g, u) \in Nat
           /\ \A u, v \in Int : u <= v => SoFar(g, u) <= SoFar(g, v)
           /\ \A u \in Int : t <= u => SoFar(g, u) = g[t]
<1>1. Epoch \in Nat /\ MaxClock \in Nat /\ Epoch <= MaxClock
  BY LimiterAssumption
<1>2. \A u \in Int : ~(u < Epoch) => Smaller(u, MaxClock) \in Epoch .. MaxClock
  BY <1>1 DEF Smaller
<1>3. \A u \in Int : SoFar(g, u) \in Nat
  BY <1>2 DEF SoFar, History
<1>4. ASSUME NEW u \in Int, NEW v \in Int, u <= v PROVE SoFar(g, u) <= SoFar(g, v)
  <2>1. CASE u < Epoch
    <3>1. SoFar(g, u) = 0 /\ SoFar(g, v) \in Nat
      BY <1>3, <2>1 DEF SoFar
    <3> QED
      BY <3>1
  <2>2. CASE ~(u < Epoch)
    <3>1. ~(v < Epoch)
      BY <1>1, <1>4, <2>2
    <3>2. Smaller(u, MaxClock) <= Smaller(v, MaxClock)
      BY <1>1, <1>4 DEF Smaller
    <3>3. g[Smaller(u, MaxClock)] <= g[Smaller(v, MaxClock)]
      BY <1>2, <2>2, <3>1, <3>2 DEF History
    <3> QED
      BY <2>2, <3>1, <3>3 DEF SoFar
  <2> QED
    BY <2>1, <2>2
<1>5. ASSUME NEW u \in Int, t <= u PROVE SoFar(g, u) = g[t]
  <2>1. ~(u < Epoch)
    BY <1>1, <1>5
  <2>2. Smaller(u, MaxClock) \in Epoch .. MaxClock /\ t <= Smaller(u, MaxClock)
    BY <1>1, <1>5 DEF Smaller
  <2>3. g[Smaller(u, MaxClock)] = g[t]
    BY <2>2 DEF History
  <2> QED
    BY <2>1, <2>3 DEF SoFar
<1> QED
  BY <1>3, <1>4, <1>5

LEMMA HistoryCounted ==
    ASSUME NEW t \in Epoch .. MaxClock, NEW g, History(g, t), NEW width \in Nat \ {0}
    PROVE  Counted(Before(g, width), t \div width)
<1>1. t \in Nat
  BY LimiterAssumption
<1>2. PICK n \in Nat : n = t \div width
  BY <1>1, DivFacts
<1>3. \A s \in Int : Before(g, width)[s] = SoFar(g, s * width - 1) /\ s * width - 1 \in Int
  BY <1>1, Stretches DEF Before
<1>4. \A s \in Int : Before(g, width)[s] \in Nat
  BY <1>3, SoFarFacts
<1>5. Before(g, width) \in [Int -> Nat]
  BY <1>4 DEF Before
<1>6. ASSUME NEW r \in Int, NEW s \in Int, r <= s
      PROVE  Before(g, width)[r] <= Before(g, width)[s]
  <2>1. r * width - 1 <= s * width - 1
    BY <1>1, <1>6, Stretches
  <2>2. PICK a, b \in Int : a = r * width - 1 /\ b = s * width - 1
    BY <1>3
  <2>3. Before(g, width)[r] = SoFar(g, a) /\ Before(g, width)[s] = SoFar(g, b)
    BY <1>3, <2>2
  <2>4. a <= b
    BY <2>1, <2>2
  <2>5. SoFar(g, a) <= SoFar(g, b)
    BY <2>4, SoFarFacts
  <2> QED
    BY <2>3, <2>5
<1>7. ASSUME NEW s \in Int, n < s PROVE Before(g, width)[s] = g[t]
  <2>1. t <= s * width - 1
    BY <1>1, <1>2, <1>7, Stretches
  <2>2. PICK a \in Int : a = s * width - 1
    BY <1>3
  <2> QED
    BY <1>3, <2>1, <2>2, SoFarFacts
<1>8. n + 1 \in Int /\ n < n + 1
  OBVIOUS
<1> QED
  BY <1>2, <1>5, <1>6, <1>7, <1>8 DEF Counted

(* A grant adds to every count after it.                                   *)
LEMMA MoreHistory ==
    ASSUME NEW t \in Epoch .. MaxClock, NEW g, History(g, t), NEW n \in Nat,
           NEW width \in Nat \ {0}
    PROVE  /\ History(More(g, t, n), t)
           /\ Before(More(g, t, n), width) = Plus(Before(g, width), t \div width, n)
<1>0. Epoch \in Nat /\ MaxClock \in Nat /\ Epoch <= MaxClock /\ t \in Nat
  BY LimiterAssumption
<1>1. PICK f : f = More(g, t, n)
  OBVIOUS
<1>2. \A u \in Epoch .. MaxClock : f[u] = (IF u < t THEN g[u] ELSE g[u] + n) /\ g[u] \in Nat
  BY <1>1 DEF More, History
<1>3. \A u \in Epoch .. MaxClock : f[u] \in Nat
  BY <1>2
<1>4. f \in [Epoch .. MaxClock -> Nat]
  BY <1>1, <1>3 DEF More, History
<1>5. ASSUME NEW u \in Epoch .. MaxClock, NEW v \in Epoch .. MaxClock, u <= v
      PROVE  f[u] <= f[v]
  <2>1. g[u] <= g[v]
    BY <1>5 DEF History
  <2> QED
    BY <1>2, <1>5, <2>1
<1>6. ASSUME NEW u \in Epoch .. MaxClock, t <= u PROVE f[u] = f[t]
  <2>1. g[u] = g[t]
    BY <1>6 DEF History
  <2> QED
    BY <1>0, <1>2, <1>6, <2>1
<1>7. History(f, t)
  BY <1>4, <1>5, <1>6 DEF History
<1>8. ASSUME NEW u \in Int
      PROVE  SoFar(f, u) = SoFar(g, u) + (IF t <= u THEN n ELSE 0)
  <2>1. CASE u < Epoch
    BY <1>0, <2>1 DEF SoFar
  <2>2. CASE ~(u < Epoch)
    <3>1. PICK v \in Epoch .. MaxClock : v = Smaller(u, MaxClock)
      BY <1>0, <2>2 DEF Smaller
    <3>2. (t <= u) <=> ~(v < t)
      BY <1>0, <3>1 DEF Smaller
    <3>3. SoFar(f, u) = f[v] /\ SoFar(g, u) = g[v]
      BY <2>2, <3>1 DEF SoFar
    <3> QED
      BY <1>2, <3>2, <3>3
  <2> QED
    BY <2>1, <2>2
<1>9. PICK q \in Nat : q = t \div width
  BY <1>0, DivFacts
<1>10. ASSUME NEW s \in Int
       PROVE  SoFar(f, s * width - 1) = SoFar(g, s * width - 1) + (IF q < s THEN n ELSE 0)
  <2>1. PICK u \in Int : u = s * width - 1
    BY <1>0, Stretches
  <2>2. (q < s) <=> (t <= u)
    BY <1>0, <1>9, <2>1, Stretches
  <2> QED
    BY <1>8, <2>1, <2>2
<1>11. Before(f, width) = Plus(Before(g, width), q, n)
  BY <1>10 DEF Before, Plus
<1> QED
  BY <1>1, <1>7, <1>9, <1>11
-----------------------------------------------------------------------------
(* The fixed window.  The hash counts what was granted since its window    *)
(* began, all of it within that window; before it began, the messages of   *)
(* any stretch of the duration that the window cuts off are at most "top". *)
FixedWindowTally(P, start, count, d, top) ==
    /\ P[start + d] - P[start] = count /\ count <= top
    /\ \A s \in Int : start + d <= s => P[s] = P[start + d]
    /\ \A s \in Int : s <= start /\ start <= s + d => P[start] - P[s] <= top

FixedTally(P, h, d, top) ==
    /\ IF h = Absent THEN \A s \in Int : P[s] = 0
                     ELSE FixedWindowTally(P, h.start, h.count, d, top)
    /\ \A s \in Int : P[s + d] - P[s] <= 2 * top

(* A stretch that sees the latest grant meets the current window and what  *)
(* came before it; any other is as it was.                                 *)
LEMMA FixedStretch ==
    ASSUME NEW P, NEW Q, NEW now \in Nat, Counted(P, now), Q = Plus(P, now, 1),
           NEW d \in Nat \ {0}, NEW top \in Nat,
           NEW start \in Nat, start <= now, NEW count \in Nat,
           FixedWindowTally(Q, start, count, d, top),
           \A s \in Int : P[s + d] - P[s] <= 2 * top
    PROVE  \A s \in Int : Q[s + d] - Q[s] <= 2 * top
<1> SUFFICES ASSUME NEW s \in Int PROVE Q[s + d] - Q[s] <= 2 * top
  OBVIOUS
<1>1. Counted(Q, now)
  BY PlusCounted
<1>2. \A r \in Int : Q[r] \in Nat /\ P[r] \in Nat
  BY <1>1 DEF Counted
<1>3. \A r, v \in Int : r <= v => Q[r] <= Q[v]
  BY <1>1 DEF Counted
<1>4. \A r \in Int : Q[r] = P[r] + (IF now < r THEN 1 ELSE 0)
  BY DEF Plus
<1>5. s + d \in Int /\ start + d \in Int /\ Q[s] \in Nat /\ Q[s + d] \in Nat
        /\ Q[start] \in Nat /\ Q[start + d] \in Nat
  BY <1>2
<1>6. Q[start + d] - Q[start] <= top
  BY <1>2 DEF FixedWindowTally
<1>7. CASE s + d <= now \/ now < s
  <2>1. P[s + d] - P[s] <= 2 * top /\ P[s] \in Nat /\ P[s + d] \in Nat
    BY <1>2
  <2>2. Q[s + d] - Q[s] = P[s + d] - P[s]
    BY <1>4, <1>5, <1>7, <2>1
  <2> QED
    BY <2>1, <2>2
<1>8. CASE s <= now /\ now < s + d /\ s <= start
  <2>1. start <= s + d
    BY <1>8
  <2>2. Q[start] - Q[s] <= top
    BY <1>8, <2>1 DEF FixedWindowTally
  <2>3. Q[s + d] <= Q[start + d]
    BY <1>3, <1>5, <1>8
  <2> QED
    BY <1>5, <1>6, <2>2, <2>3
<1>9. CASE start < s
  <2>1. start + d <= s + d /\ Q[start] <= Q[s]
    BY <1>3, <1>9
  <2>2. Q[s + d] = Q[start + d]
    BY <1>5, <2>1 DEF FixedWindowTally
  <2> QED
    BY <1>5, <1>6, <2>1, <2>2
<1> QED
  BY <1>5, <1>7, <1>8, <1>9

(* A message that begins a window: nothing was granted in it, and what was *)
(* granted in the last "duration" seconds is in one window.                *)
LEMMA FixedBegins ==
    ASSUME NEW P, NEW now \in Nat, Counted(P, now), NEW d \in Nat \ {0},
           NEW top \in Nat \ {0}, NEW h,
           h = Absent \/ (h.start \in Nat /\ h.count \in Nat /\ h.start + d <= now),
           FixedTally(P, h, d, top)
    PROVE  FixedWindowTally(Plus(P, now, 1), now, 1, d, top)
<1>1. PICK Q : Q = Plus(P, now, 1)
  OBVIOUS
<1>2. \A r \in Int : Q[r] = P[r] + (IF now < r THEN 1 ELSE 0) /\ P[r] \in Nat
  BY <1>1 DEF Plus, Counted
<1>3. \A r, v \in Int : r <= v => P[r] <= P[v]
  BY DEF Counted
<1>4. /\ \A s \in Int : now <= s => P[s] = P[now]
      /\ \A s \in Int : now <= s + d => P[now] - P[s] <= top
  <2>1. CASE h = Absent
    BY <2>1 DEF FixedTally
  <2>2. CASE h # Absent
    <3>1. PICK st \in Nat, count \in Nat : st = h.start /\ count = h.count /\ st + d <= now
      BY <2>2
    <3>2. FixedWindowTally(P, st, count, d, top)
      BY <2>2, <3>1 DEF FixedTally
    <3>3. \A s \in Int : st + d <= s => P[s] = P[st + d]
      BY <3>2 DEF FixedWindowTally
    <3>4. P[st + d] - P[st] <= top /\ P[st] \in Nat /\ P[st + d] \in Nat
      BY <1>2, <3>2 DEF FixedWindowTally
    <3>5. P[now] = P[st + d]
      BY <3>1, <3>3
    <3>6. ASSUME NEW s \in Int, now <= s PROVE P[s] = P[now]
      BY <3>1, <3>3, <3>5, <3>6
    <3>7. ASSUME NEW s \in Int, now <= s + d PROVE P[now] - P[s] <= top
      <4>1. P[st] <= P[s] /\ P[s] \in Nat
        BY <1>2, <1>3, <3>1, <3>7
      <4> QED
        BY <3>4, <3>5, <4>1
    <3> QED
      BY <3>6, <3>7
  <2> QED
    BY <2>1, <2>2
<1>5. Q[now + d] - Q[now] = 1
  <2>1. Q[now + d] = P[now + d] + 1 /\ Q[now] = P[now] /\ P[now + d] = P[now]
    BY <1>2, <1>4
  <2> QED
    BY <1>2, <2>1
<1>6. ASSUME NEW s \in Int, now + d <= s PROVE Q[s] = Q[now + d]
  <2>1. P[s] = P[now] /\ P[now + d] = P[now]
    BY <1>4, <1>6
  <2> QED
    BY <1>2, <1>6, <2>1
<1>7. ASSUME NEW s \in Int, s <= now, now <= s + d PROVE Q[now] - Q[s] <= top
  <2>1. Q[now] = P[now] /\ Q[s] = P[s]
    BY <1>2, <1>7
  <2> QED
    BY <1>4, <1>7, <2>1
<1> QED
  BY <1>1, <1>5, <1>6, <1>7 DEF FixedWindowTally

(* A message in the current window.                                        *)
LEMMA FixedContinues ==
    ASSUME NEW P, NEW now \in Nat, Counted(P, now), NEW d \in Nat \ {0}, NEW top \in Nat,
           NEW start \in Nat, start <= now, now < start + d, NEW count \in Nat, count < top,
           FixedWindowTally(P, start, count, d, top)
    PROVE  FixedWindowTally(Plus(P, now, 1), start, count + 1, d, top)
<1>1. PICK Q : Q = Plus(P, now, 1)
  OBVIOUS
<1>2. \A r \in Int : Q[r] = P[r] + (IF now < r THEN 1 ELSE 0) /\ P[r] \in Nat
  BY <1>1 DEF Plus, Counted
<1>3. Q[start + d] - Q[start] = count + 1
  BY <1>2 DEF FixedWindowTally
<1>4. ASSUME NEW s \in Int, start + d <= s PROVE Q[s] = Q[start + d]
  <2>1. P[s] = P[start + d]
    BY <1>4 DEF FixedWindowTally
  <2> QED
    BY <1>2, <1>4, <2>1
<1>5. ASSUME NEW s \in Int, s <= start, start <= s + d PROVE Q[start] - Q[s] <= top
  <2>1. P[start] - P[s] <= top
    BY <1>5 DEF FixedWindowTally
  <2> QED
    BY <1>2, <1>5, <2>1
<1> QED
  BY <1>1, <1>3, <1>4, <1>5 DEF FixedWindowTally

(* What a script may see of the hash h at instant t: nothing, once it has  *)
(* expired.                                                                *)
MaySee(seen, h, t) == seen = h \/ (seen = Absent /\ h # Absent /\ h.expires <= t)

LEMMA FixedRun ==
    ASSUME NEW l \in Limits, l.algorithm = "fixed_window", NEW t \in Nat,
           NEW h, Fits(KeyOf(l), h, t), NEW seen, MaySee(seen, h, t),
           NEW P, Counted(P, Second(t)), NEW top \in Nat, l.count <= top,
           FixedTally(P, h, l.duration, top), FixedWindow(seen, l, t).allowed
    PROVE  FixedTally(Plus(P, Second(t), 1), FixedWindow(seen, l, t).hash, l.duration, top)
<1>1. PICK now \in Nat, d \in Nat \ {0}, limit \in Nat :
        now = Second(t) /\ d = l.duration /\ limit = l.count
  BY SecondFacts DEF Limits
<1>2. h = Absent \/ (h \in WindowHashes /\ h.start <= now
                       /\ (h.start + d) * TicksPerSecond <= h.expires)
  BY <1>1 DEF Fits, KeyOf
<1>3. PICK Q : Q = Plus(P, now, 1)
  OBVIOUS
<1>4. \A s \in Int : P[s + d] - P[s] <= 2 * top
  BY <1>1 DEF FixedTally
<1> DEFINE new == seen = Absent \/ now - seen.start >= d
           count == IF new THEN 0 ELSE seen.count
           start == IF new THEN now ELSE seen.start
<1>5. PICK hash, v :
        /\ FixedWindow(seen, l, t) = IF Exhausted(count, limit) THEN Deny(seen, count)
                                                                ELSE Allow(hash, v)
        /\ hash = [count |-> count + 1, start |-> start, expires |-> ExpiresAfter(t, d)]
  BY <1>1 DEF FixedWindow
<1>6. ~Exhausted(count, limit)
  <2> HIDE DEF count
  <2> QED
    BY <1>5 DEF Deny
<1>7. FixedWindow(seen, l, t).hash = hash
  <2> HIDE DEF count
  <2> QED
    BY <1>5, <1>6 DEF Allow
<1>8. hash.count = count + 1 /\ hash.start = start /\ hash # Absent
  <2> HIDE DEF count, start
  <2> QED
    BY <1>5 DEF Absent
<1>9. SUFFICES start \in Nat /\ start <= now /\ count + 1 \in Nat
                 /\ FixedWindowTally(Q, start, count + 1, d, top)
  <2> HIDE DEF count, start
  <2>1. PICK st \in Nat, n \in Nat : st = start /\ n = count + 1
    BY <1>9
  <2>2. st <= now /\ FixedWindowTally(Q, st, n, d, top)
    BY <1>9, <2>1
  <2>3. \A s \in Int : Q[s + d] - Q[s] <= 2 * top
    BY <1>1, <1>3, <1>4, <2>2, FixedStretch
  <2> QED
    BY <1>1, <1>3, <1>7, <1>8, <1>9, <2>3 DEF FixedTally
<1>10. CASE new
  <2>1. start = now /\ count = 0
    BY <1>10
  <2>2. limit > 0
    BY <1>1, <1>6, <2>1 DEF Exhausted
  <2>3. top \in Nat \ {0}
    BY <1>1, <2>2
  <2>4. h = Absent \/ (h.start \in Nat /\ h.count \in Nat /\ h.start + d <= now)
    <3>1. SUFFICES ASSUME h # Absent PROVE h.start + d <= now
      BY <1>2 DEF WindowHashes
    <3>2. h \in WindowHashes
      BY <1>2, <3>1
    <3>3. PICK st \in Nat, e \in Nat : st = h.start /\ e = h.expires
      BY <3>2 DEF WindowHashes
    <3>4. CASE seen = h
      BY <1>10, <3>1, <3>3, <3>4
    <3>5. CASE seen # h
      <4>1. e <= t
        BY <3>3, <3>5 DEF MaySee
      <4>2. PICK w \in Nat : w = (st + d) * TicksPerSecond
        BY UnitAssumption
      <4>3. w <= e
        BY <1>2, <3>1, <3>3, <4>2
      <4>4. (st + d) * TicksPerSecond <= t
        BY <4>1, <4>2, <4>3
      <4> QED
        BY <1>1, <3>3, <4>4, Outlived
    <3> QED
      BY <3>4, <3>5
  <2>5. FixedWindowTally(Q, now, 1, d, top)
    BY <1>1, <1>3, <2>3, <2>4, FixedBegins
  <2> QED
    BY <2>1, <2>5
<1>11. CASE ~new
  <2>1. seen = h /\ h # Absent /\ start = h.start /\ count = h.count
    BY <1>11 DEF MaySee
  <2>2. PICK st \in Nat, n \in Nat : st = h.start /\ n = h.count
    BY <1>2, <2>1 DEF WindowHashes
  <2>3. st <= now /\ now < st + d
    BY <1>2, <1>11, <2>1, <2>2
  <2>4. n < top
    BY <1>1, <1>6, <2>1, <2>2 DEF Exhausted
  <2>5. FixedWindowTally(P, st, n, d, top)
    BY <1>1, <2>1, <2>2 DEF FixedTally
  <2>6. FixedWindowTally(Q, st, n + 1, d, top)
    BY <1>1, <1>3, <2>3, <2>4, <2>5, FixedContinues
  <2> QED
    BY <2>1, <2>2, <2>3, <2>6
<1> QED
  BY <1>10, <1>11
-----------------------------------------------------------------------------
(* The sliding window counter.  The hash counts what its window and the one*)
(* before it granted; nothing was granted since its window ended; and while*)
(* the window lasts, both together exceed "top" by no more than the weight *)
(* that the previous one has lost.                                         *)
SlidingWindowTally(P, start, prev, cur, d) ==
    /\ P[start + d] - P[start] = cur /\ P[start] - P[start - d] = prev
    /\ \A s \in Int : start + d <= s => P[s] = P[start + d]

Within(prev, cur, age, d, top) ==
    (cur + prev) * d <= top * d + (d - 1) + prev * age

SlidingTally(P, h, now, d, top) ==
    IF h = Absent
      THEN \A s \in Int : P[s] = 0
      ELSE /\ SlidingWindowTally(P, h.start, h.prev, h.cur, d) /\ h.cur <= top
           /\ now < h.start + d => Within(h.prev, h.cur, now - h.start, d, top)

LEMMA Multiples ==
    ASSUME NEW m \in Nat, NEW n \in Nat, NEW d \in Nat \ {0}, m * d < n * d
    PROVE  m * d + d <= n * d
<1>1. m < n
  <2>1. n <= m => n * d <= m * d
    OBVIOUS
  <2>2. m * d \in Nat /\ n * d \in Nat
    OBVIOUS
  <2> QED
    BY <2>1, <2>2
<1>2. (m + 1) * d <= n * d
  BY <1>1
<1>3. (m + 1) * d = m * d + d
  OBVIOUS
<1> QED
  BY <1>2, <1>3

(* The window now, and where that of a hash lies before it.                *)
LEMMA WindowNow ==
    ASSUME NEW now \in Nat, NEW d \in Nat \ {0}
    PROVE  /\ now % d \in Nat /\ now % d <= d - 1
           /\ now - (now % d) \in Nat
           /\ \A m \in Nat : m * d <= now =>
                \/ m * d = now - (now % d)
                \/ m * d + d = now - (now % d)
                \/ m * d + 2 * d <= now - (now % d)
<1>1. PICK e \in Nat : e = now % d /\ e <= d - 1 /\ \E n \in Nat : now - e = n * d
  <2>1. now % d \in 0 .. d - 1 /\ \E n \in Nat : now - (now % d) = n * d
    BY WindowStart
  <2> QED
    BY <2>1
<1>2. PICK n \in Nat : now - e = n * d
  BY <1>1
<1>3. PICK w \in Nat : w = n * d
  OBVIOUS
<1>4. ASSUME NEW m \in Nat, m * d <= now
      PROVE  m * d = w \/ m * d + d = w \/ m * d + 2 * d <= w
  <2>1. PICK s \in Nat : s = m * d
    OBVIOUS
  <2>2. w < s => w + d <= s
    BY <1>3, <2>1, Multiples
  <2>3. s < w => s + d <= w
    BY <1>3, <2>1, Multiples
  <2>4. s <= w
    BY <1>1, <1>2, <1>3, <1>4, <2>1, <2>2
  <2>5. s + d < w => s + 2 * d <= w
    <3>1. PICK r \in Nat : r = m + 1
      OBVIOUS
    <3>2. r * d = s + d
      BY <2>1, <3>1
    <3>3. r * d < n * d => r * d + d <= n * d
      BY Multiples
    <3> QED
      BY <1>3, <2>1, <3>2, <3>3
  <2> QED
    BY <1>3, <2>1, <2>3, <2>4, <2>5
<1> QED
  BY <1>1, <1>2, <1>3, <1>4

LEMMA SlidingRolls ==
    ASSUME NEW P, NEW now \in Nat, Counted(P, now), NEW l \in Limits,
           NEW d \in Nat \ {0}, d = l.duration,
           NEW w \in Nat, w = now - (now % d), NEW top \in Nat,
           NEW h, \/ h = Absent
                  \/ /\ h \in CounterHashes /\ h.start <= now
                     /\ \E m \in Nat : h.start = m * d,
           SlidingTally(P, h, now, d, top),
           NEW seen, \/ seen = h
                     \/ seen = Absent /\ h # Absent /\ h.start + 2 * d <= now
    PROVE  LET r == Rolled(seen, l, w)
           IN r.prev \in Nat /\ r.cur \in Nat /\ SlidingWindowTally(P, w, r.prev, r.cur, d)
<1>1. \A s \in Int : P[s] \in Nat
  BY DEF Counted
<1>2. \A r, v \in Int : r <= v => P[r] <= P[v]
  BY DEF Counted
<1>3. ASSUME \A s \in Int : w - d <= s => P[s] = P[w]
      PROVE  SlidingWindowTally(P, w, 0, 0, d)
  <2>1. P[w - d] = P[w] /\ P[w + d] = P[w]
    BY <1>3
  <2>2. \A s \in Int : w + d <= s => P[s] = P[w]
    BY <1>3
  <2> QED
    BY <1>1, <2>1, <2>2 DEF SlidingWindowTally
<1>4. CASE h = Absent
  <2>1. \A s \in Int : P[s] = 0
    BY <1>4 DEF SlidingTally
  <2>2. Rolled(seen, l, w) = [prev |-> 0, cur |-> 0]
    BY <1>4 DEF Rolled
  <2> QED
    BY <1>3, <2>1, <2>2
<1>5. CASE h # Absent
  <2>1. PICK st \in Nat, prev \in Nat, cur \in Nat :
          st = h.start /\ prev = h.prev /\ cur = h.cur /\ st <= now
    BY <1>5 DEF CounterHashes
  <2>2. st = w \/ st + d = w \/ st + 2 * d <= w
    BY <1>5, <2>1, WindowNow
  <2>3. SlidingWindowTally(P, st, prev, cur, d)
    BY <1>5, <2>1 DEF SlidingTally
  <2>4. \A s \in Int : st + d <= s => P[s] = P[st + d]
    BY <2>3 DEF SlidingWindowTally
  <2>5. CASE seen = h /\ st = w
    <3>1. Rolled(seen, l, w) = [prev |-> prev, cur |-> cur]
      BY <1>5, <2>1, <2>5 DEF Rolled
    <3> QED
      BY <2>3, <2>5, <3>1
  <2>6. CASE seen = h /\ st + d = w
    <3>1. ~(w <= st) /\ w = st + d
      BY <2>6
    <3>2. Rolled(seen, l, w) = [prev |-> cur, cur |-> 0]
      BY <1>5, <2>1, <2>6, <3>1 DEF Rolled
    <3>3. P[w + d] = P[w] /\ w - d = st /\ P[w] - P[st] = cur
      BY <2>3, <2>4, <2>6 DEF SlidingWindowTally
    <3>4. \A s \in Int : w + d <= s => P[s] = P[w + d]
      BY <2>4, <2>6, <3>3
    <3> QED
      BY <1>1, <3>2, <3>3, <3>4 DEF SlidingWindowTally
  <2>7. CASE st + 2 * d <= w
    <3>1. ~(w <= st) /\ w # st + d
      BY <2>7
    <3>2. Rolled(seen, l, w) = [prev |-> 0, cur |-> 0]
      BY <1>5, <2>1, <2>7, <3>1 DEF Rolled
    <3>3. \A s \in Int : w - d <= s => P[s] = P[w]
      BY <2>4, <2>7
    <3> QED
      BY <1>3, <3>2, <3>3
  <2>8. CASE seen # h
    <3>1. st + 2 * d <= now
      BY <2>1, <2>8
    <3>2. now - w <= d - 1
      <4>1. PICK e \in Nat : e = now % d /\ e <= d - 1
        BY WindowNow
      <4> QED
        BY <4>1
    <3>3. st + 2 * d <= w
      BY <2>2, <3>1, <3>2
    <3> QED
      BY <2>7, <3>3
  <2> QED
    BY <2>2, <2>5, <2>6, <2>7, <2>8
<1> QED
  BY <1>4, <1>5

LEMMA SlidingRun ==
    ASSUME NEW l \in Limits, l.algorithm = "sliding_window_counter", NEW t \in Nat,
           NEW h, Fits(KeyOf(l), h, t), NEW seen, MaySee(seen, h, t),
           NEW P, Counted(P, Second(t)), NEW top \in Nat, l.count <= top,
           SlidingTally(P, h, Second(t), l.duration, top), SlidingWindow(seen, l, t).allowed
    PROVE  SlidingTally(Plus(P, Second(t), 1), SlidingWindow(seen, l, t).hash, Second(t),
                        l.duration, top)
<1>1. PICK now \in Nat, d \in Nat \ {0}, limit \in Nat :
        now = Second(t) /\ d = l.duration /\ limit = l.count
  BY SecondFacts DEF Limits
<1>2. PICK e \in Nat, w \in Nat : e = now % d /\ e <= d - 1 /\ w = now - e
  BY WindowNow
<1>3. h = Absent \/ (/\ h \in CounterHashes /\ h.start <= now
                     /\ (h.start + 2 * d) * TicksPerSecond <= h.expires
                     /\ \E m \in Nat : h.start = m * d)
  BY <1>1 DEF Fits, KeyOf, BeginsWindow
<1>4. seen = h \/ (seen = Absent /\ h # Absent /\ h.start + 2 * d <= now)
  <2>1. SUFFICES ASSUME seen # h PROVE h.start + 2 * d <= now
    BY DEF MaySee
  <2>2. h # Absent /\ h.expires <= t
    BY <2>1 DEF MaySee
  <2>3. PICK st \in Nat, x \in Nat : st = h.start /\ x = h.expires
    BY <1>3, <2>2 DEF CounterHashes
  <2>4. PICK dd \in Nat : dd = 2 * d
    OBVIOUS
  <2>5. PICK y \in Nat : y = (st + dd) * TicksPerSecond
    BY UnitAssumption
  <2>6. y <= x /\ x <= t
    BY <1>3, <2>2, <2>3, <2>4, <2>5
  <2>7. (st + dd) * TicksPerSecond <= t
    BY <2>5, <2>6
  <2>8. st + dd <= Second(t)
    BY <2>7, Outlived
  <2> QED
    BY <1>1, <2>3, <2>4, <2>8
<1>5. PICK r : r = Rolled(seen, l, w)
  OBVIOUS
<1>6. r.prev \in Nat /\ r.cur \in Nat /\ SlidingWindowTally(P, w, r.prev, r.cur, d)
  BY <1>1, <1>2, <1>3, <1>4, <1>5, SlidingRolls
<1>7. PICK prev \in Nat, cur \in Nat : prev = r.prev /\ cur = r.cur
  BY <1>6
<1>8. PICK hash, u, v :
        /\ SlidingWindow(seen, l, t) =
             IF Exhausted(Weighed(r, l, e), limit * d) THEN Deny(seen, u) ELSE Allow(hash, v)
        /\ hash = [prev |-> prev, cur |-> cur + 1, start |-> w,
                   expires |-> ExpiresAfter(t, 2 * d)]
  <2>1. PICK u : u = Ceil(Weighed(r, l, e), d)
    OBVIOUS
  <2>2. PICK v : v = Ceil(Weighed([r EXCEPT !.cur = r.cur + 1], l, e), d)
    OBVIOUS
  <2>3. PICK hash : hash = [prev |-> prev, cur |-> cur + 1, start |-> w,
                            expires |-> ExpiresAfter(t, 2 * d)]
    OBVIOUS
  <2> QED
    BY <1>1, <1>2, <1>5, <1>7, <2>1, <2>2, <2>3 DEF SlidingWindow
<1>9. ~Exhausted(Weighed(r, l, e), limit * d)
  BY <1>8 DEF Deny
<1>10. SlidingWindow(seen, l, t).hash = hash
  BY <1>8, <1>9 DEF Allow
<1>11. cur * d + prev * (d - e) < limit * d
  <2>0. PICK f \in Int : f = d - e
    OBVIOUS
  <2>1. PICK x, y, z \in Int : x = cur * d /\ y = prev * (d - e) /\ z = limit * d
    BY <2>0
  <2>2. Weighed(r, l, e) = cur * d + prev * (d - e)
    BY <1>1, <1>7 DEF Weighed
  <2> QED
    BY <1>9, <2>1, <2>2 DEF Exhausted
<1>12. limit * d <= top * d
  BY <1>1
<1>13. prev * (d - e) = prev * d - prev * e /\ prev * (d - e) >= 0
  BY <1>2
<1>14. PICK x, y, z, b, c \in Int :
         x = cur * d /\ y = prev * d /\ z = prev * e /\ b = limit * d /\ c = top * d
  OBVIOUS
<1>15. x + (y - z) < b /\ b <= c /\ y - z >= 0
  BY <1>11, <1>12, <1>13, <1>14
<1>16. cur < top
  <2>1. top <= cur => top * d <= cur * d
    OBVIOUS
  <2> QED
    BY <1>14, <1>15, <2>1
<1>17. Within(prev, cur + 1, now - w, d, top)
  <2>1. (cur + 1 + prev) * d = x + d + y
    BY <1>14
  <2>2. x + d + y <= c + (d - 1) + z
    BY <1>15
  <2>3. prev * (now - w) = z
    BY <1>2, <1>14
  <2> QED
    BY <1>14, <2>1, <2>2, <2>3 DEF Within
<1>18. PICK Q : Q = Plus(P, now, 1)
  OBVIOUS
<1>19. \A s \in Int : Q[s] = P[s] + (IF now < s THEN 1 ELSE 0) /\ P[s] \in Nat
  BY <1>1, <1>18 DEF Plus, Counted
<1>20. SlidingWindowTally(Q, w, prev, cur + 1, d)
  <2>1. w - d \in Int /\ w + d \in Int /\ ~(now < w) /\ ~(now < w - d) /\ now < w + d
    BY <1>2
  <2>2. Q[w + d] = P[w + d] + 1 /\ Q[w] = P[w] /\ Q[w - d] = P[w - d]
    BY <1>19, <2>1
  <2>3. \A s \in Int : w + d <= s => Q[s] = P[s] + 1
    BY <1>19, <2>1
  <2> QED
    BY <1>6, <1>7, <1>19, <2>1, <2>2, <2>3 DEF SlidingWindowTally
<1>21. hash # Absent /\ hash.prev = prev /\ hash.cur = cur + 1 /\ hash.start = w
  BY <1>8 DEF Absent
<1> QED
  BY <1>1, <1>10, <1>16, <1>17, <1>18, <1>20, <1>21 DEF SlidingTally

(* Time only adds to the weight lost.                                      *)
LEMMA SlidingLater ==
    ASSUME NEW P, NEW now \in Nat, NEW later \in Nat, now <= later, NEW h,
           h = Absent \/ h \in CounterHashes, NEW d \in Nat \ {0}, NEW top \in Nat,
           SlidingTally(P, h, now, d, top)
    PROVE  SlidingTally(P, h, later, d, top)
<1>1. SUFFICES ASSUME h # Absent, later < h.start + d
               PROVE  Within(h.prev, h.cur, later - h.start, d, top)
  BY DEF SlidingTally
<1>2. PICK st \in Nat, prev \in Nat, cur \in Nat :
        st = h.start /\ prev = h.prev /\ cur = h.cur
  BY <1>1 DEF CounterHashes
<1>3. Within(prev, cur, now - st, d, top)
  BY <1>1, <1>2 DEF SlidingTally
<1>4. prev * (now - st) <= prev * (later - st)
  BY <1>2
<1>5. PICK a, b, x, y \in Int :
        a = (cur + prev) * d /\ b = top * d /\ x = prev * (now - st) /\ y = prev * (later - st)
  OBVIOUS
<1>6. a <= b + (d - 1) + x /\ x <= y
  BY <1>3, <1>4, <1>5 DEF Within
<1> QED
  BY <1>2, <1>5, <1>6 DEF Within

(* The bound: the part of the previous window that the last "duration"     *)
(* seconds still cover is at most what it granted.                         *)
LEMMA SlidingMeets ==
    ASSUME NEW P, NEW now \in Nat, Counted(P, now), NEW d \in Nat \ {0}, NEW top \in Nat,
           NEW h, \/ h = Absent
                  \/ /\ h \in CounterHashes /\ h.start <= now
                     /\ \E m \in Nat : h.start = m * d,
           SlidingTally(P, h, now, d, top),
           NEW w \in Nat, NEW e \in Nat, e = now % d, w = now - e
    PROVE  (P[now + 1] - P[now + 1 - d]) * d
             <= top * d + (d - 1) + (P[w] - P[w - d]) * e
<1>0. e <= d - 1
  BY WindowNow
<1>1. \A s \in Int : P[s] \in Nat
  BY DEF Counted
<1>2. \A r, v \in Int : r <= v => P[r] <= P[v]
  BY DEF Counted
<1>3. PICK all, early, first, last \in Nat :
        all = P[now + 1] /\ early = P[now + 1 - d] /\ first = P[w] /\ last = P[w - d]
  BY <1>1
<1>4. last <= early /\ last <= first /\ early <= all /\ first <= all
  <2>1. w - d <= now + 1 - d /\ w - d <= w /\ now + 1 - d <= now + 1 /\ w <= now + 1
    BY <1>0
  <2> QED
    BY <1>2, <1>3, <2>1
<1>5. PICK x, y, z \in Nat : x = (all - early) * d /\ y = top * d /\ z = (first - last) * e
  <2>1. PICK m, n \in Nat : m = all - early /\ n = first - last
    BY <1>4
  <2>2. m * d \in Nat /\ top * d \in Nat /\ n * e \in Nat
    OBVIOUS
  <2> QED
    BY <2>1, <2>2
<1>6. SUFFICES x <= y + (d - 1) + z
  BY <1>3, <1>5
<1>7. CASE h = Absent
  <2>1. all = 0 /\ early = 0
    BY <1>3, <1>7 DEF SlidingTally
  <2> QED
    BY <1>5, <2>1
<1>8. CASE h # Absent
  <2>1. PICK st \in Nat, prev \in Nat, cur \in Nat :
          st = h.start /\ prev = h.prev /\ cur = h.cur /\ st <= now /\ cur <= top
    BY <1>8 DEF CounterHashes, SlidingTally
  <2>2. st = w \/ st + d = w \/ st + 2 * d <= w
    BY <1>8, <2>1, WindowNow
  <2>3. SlidingWindowTally(P, st, prev, cur, d)
    BY <1>8, <2>1 DEF SlidingTally
  <2>4. \A s \in Int : st + d <= s => P[s] = P[st + d]
    BY <2>3 DEF SlidingWindowTally
  <2>5. CASE st = w
    <3>1. Within(prev, cur, e, d, top)
      <4>1. now < st + d /\ now - st = e
        BY <1>0, <2>5
      <4> QED
        BY <1>8, <2>1, <4>1 DEF SlidingTally
    <3>2. first - last = prev /\ P[w + d] - first = cur
      BY <1>3, <2>3, <2>5 DEF SlidingWindowTally
    <3>3. all <= P[w + d] /\ P[w + d] \in Nat
      <4>1. now + 1 <= w + d
        BY <1>0
      <4> QED
        BY <1>1, <1>2, <1>3, <4>1
    <3>4. all - early <= cur + prev /\ all - early \in Nat
      BY <1>4, <3>2, <3>3
    <3>5. (all - early) * d <= (cur + prev) * d
      BY <3>4
    <3>6. prev * e = z
      BY <1>5, <3>2
    <3>7. PICK a \in Int : a = (cur + prev) * d
      OBVIOUS
    <3>8. a <= y + (d - 1) + z
      BY <1>5, <3>1, <3>6, <3>7 DEF Within
    <3>9. x <= a
      BY <1>5, <3>5, <3>7
    <3> QED
      BY <3>8, <3>9
  <2>6. CASE st + d = w
    <3>1. all = first /\ first - last = cur
      BY <1>3, <2>3, <2>4, <2>6 DEF SlidingWindowTally
    <3>2. all - early <= top /\ all - early \in Nat
      BY <1>4, <2>1, <3>1
    <3>3. (all - early) * d <= top * d
      BY <3>2
    <3>4. x <= y
      BY <1>5, <3>3
    <3> QED
      BY <3>4
  <2>7. CASE st + 2 * d <= w
    <3>1. st + d <= now + 1 - d /\ st + d <= now + 1
      BY <1>0, <2>7
    <3>2. all = early
      BY <1>3, <2>4, <3>1
    <3>3. x = 0
      BY <1>5, <3>2
    <3> QED
      BY <1>5, <3>3
  <2> QED
    BY <2>2, <2>5, <2>6, <2>7
<1> QED
  BY <1>7, <1>8
-----------------------------------------------------------------------------
(* The token bucket, of capacity "full", refilled at "rate".  What was     *)
(* granted since tick s, and what may be granted at once, fits into the    *)
(* capacity and the refill since s.                                        *)
Available(h, t, full, rate) ==
    IF h = Absent THEN full ELSE Smaller(full, h.tokens + (t - h.at) * rate)

BucketTally(P, h, t, full, rate) ==
    /\ \A s \in Int : s <= t =>
          (P[t + 1] - P[s]) * Unit + Available(h, t, full, rate) <= full + (t - s) * rate
    /\ \A s, v \in Int : s <= v /\ v <= t =>
          (P[v + 1] - P[s]) * Unit <= full + (v - s) * rate

LEMMA AvailableFacts ==
    ASSUME NEW t \in Nat, NEW h, h = Absent \/ (h \in BucketHashes /\ h.at <= t),
           NEW full \in Nat, NEW rate \in Nat
    PROVE  /\ Available(h, t, full, rate) \in Nat /\ Available(h, t, full, rate) <= full
           /\ Available(h, t + 1, full, rate) <= Available(h, t, full, rate) + rate
<1>1. CASE h = Absent
  BY <1>1 DEF Available
<1>2. CASE h # Absent
  <2>1. PICK n \in Nat, at \in Nat : n = h.tokens /\ at = h.at /\ at <= t
    BY <1>2 DEF BucketHashes
  <2>2. PICK age \in Nat : age = t - at
    BY <2>1
  <2>3. PICK x, y \in Nat : x = age * rate /\ y = (age + 1) * rate /\ y = x + rate
    <3>1. (age + 1) * rate = age * rate + rate /\ age * rate \in Nat
      BY <2>2
    <3> QED
      BY <3>1
  <2>4. t + 1 - at = age + 1
    BY <2>1, <2>2
  <2>5. /\ Available(h, t, full, rate) = Smaller(full, n + x)
        /\ Available(h, t + 1, full, rate) = Smaller(full, n + y)
    BY <1>2, <2>1, <2>2, <2>3, <2>4 DEF Available
  <2> QED
    BY <2>3, <2>5 DEF Smaller
<1> QED
  BY <1>1, <1>2

(* A tick refills the bucket by its rate.                                  *)
LEMMA BucketLater ==
    ASSUME NEW t \in Nat, NEW P, Counted(P, t),
           NEW h, h = Absent \/ (h \in BucketHashes /\ h.at <= t),
           NEW full \in Nat, NEW rate \in Nat, BucketTally(P, h, t, full, rate)
    PROVE  BucketTally(P, h, t + 1, full, rate)
<1>1. PICK now, later \in Nat :
        now = Available(h, t, full, rate) /\ later = Available(h, t + 1, full, rate)
        /\ later <= now + rate /\ later <= full
  <2>1. h = Absent \/ (h \in BucketHashes /\ h.at <= t + 1)
    BY DEF BucketHashes
  <2>2. t + 1 \in Nat
    OBVIOUS
  <2>3. Available(h, t + 1, full, rate) \in Nat /\ Available(h, t + 1, full, rate) <= full
    BY <2>1, <2>2, AvailableFacts
  <2> QED
    BY <2>3, AvailableFacts
<1>2. \A s \in Int : P[s] \in Nat
  BY DEF Counted
<1>3. P[t + 2] = P[t + 1]
  BY DEF Counted
<1>4. ASSUME NEW s \in Int, s <= t + 1
      PROVE  (P[t + 1 + 1] - P[s]) * Unit + later <= full + (t + 1 - s) * rate
  <2>0. t + 1 + 1 = t + 2
    OBVIOUS
  <2>1. CASE s <= t
    <3>1. PICK n, a \in Int : n = P[t + 1] - P[s] /\ a = t - s
      BY <1>2, <2>1
    <3>2. PICK x, y, z \in Int : x = n * Unit /\ y = a * rate /\ z = (a + 1) * rate
                                   /\ z = y + rate
      BY UnitAssumption
    <3>3. x + now <= full + y
      BY <1>1, <2>1, <3>1, <3>2 DEF BucketTally
    <3>4. t + 1 - s = a + 1
      BY <3>1
    <3> QED
      BY <1>1, <1>3, <2>0, <3>1, <3>2, <3>3, <3>4
  <2>2. CASE s = t + 1
    <3>1. P[t + 1 + 1] - P[s] = 0 /\ t + 1 - s = 0
      BY <1>2, <1>3, <2>0, <2>2
    <3> QED
      BY <1>1, <3>1, UnitAssumption
  <2> QED
    BY <1>4, <2>1, <2>2
<1>5. ASSUME NEW s \in Int, NEW v \in Int, s <= v, v <= t + 1
      PROVE  (P[v + 1] - P[s]) * Unit <= full + (v - s) * rate
  <2>1. CASE v <= t
    BY <1>5, <2>1 DEF BucketTally
  <2>2. CASE v = t + 1
    <3>1. PICK n, a \in Int : n = P[v + 1] - P[s] /\ a = v - s
      BY <1>2
    <3>2. PICK x, y \in Int : x = n * Unit /\ y = a * rate
      BY UnitAssumption
    <3>3. x + later <= full + y
      BY <1>4, <1>5, <2>2, <3>1, <3>2
    <3> QED
      BY <1>1, <3>1, <3>2, <3>3
  <2> QED
    BY <1>5, <2>1, <2>2
<1> QED
  BY <1>1, <1>4, <1>5 DEF BucketTally

(* A message takes a token that was available.                             *)
LEMMA BucketTakes ==
    ASSUME NEW t \in Nat, NEW P, Counted(P, t),
           NEW h, NEW full \in Nat, NEW rate \in Nat, BucketTally(P, h, t, full, rate),
           NEW before \in Nat, before = Available(h, t, full, rate),
           NEW hash, NEW after \in Nat, after = Available(hash, t, full, rate),
           after + Unit <= before
    PROVE  BucketTally(Plus(P, t, 1), hash, t, full, rate)
<1>1. PICK Q : Q = Plus(P, t, 1)
  OBVIOUS
<1>2. \A s \in Int : Q[s] = P[s] + (IF t < s THEN 1 ELSE 0) /\ P[s] \in Nat
  BY <1>1 DEF Plus, Counted
<1>3. PICK unit \in Nat : unit = Unit
  BY UnitAssumption
<1>4. ASSUME NEW s \in Int, s <= t
      PROVE  (Q[t + 1] - Q[s]) * unit + after <= full + (t - s) * rate
  <2>1. PICK n, a \in Int : n = P[t + 1] - P[s] /\ a = t - s
    BY <1>2
  <2>2. Q[t + 1] - Q[s] = n + 1
    BY <1>2, <1>4, <2>1
  <2>3. PICK x, y, z \in Int : x = n * unit /\ y = a * rate /\ z = (n + 1) * unit
                                 /\ z = x + unit
    OBVIOUS
  <2>4. x + before <= full + y
    BY <1>3, <1>4, <2>1, <2>3 DEF BucketTally
  <2> QED
    BY <1>3, <2>1, <2>2, <2>3, <2>4
<1>5. ASSUME NEW s \in Int, NEW v \in Int, s <= v, v <= t
      PROVE  (Q[v + 1] - Q[s]) * unit <= full + (v - s) * rate
  <2>1. CASE v < t
    <3>1. Q[v + 1] = P[v + 1] /\ Q[s] = P[s]
      BY <1>2, <1>5, <2>1
    <3> QED
      BY <1>3, <1>5, <2>1, <3>1 DEF BucketTally
  <2>2. CASE v = t
    <3>1. PICK n, a \in Int : n = Q[v + 1] - Q[s] /\ a = v - s
      BY <1>2
    <3>2. PICK x, y \in Int : x = n * unit /\ y = a * rate
      OBVIOUS
    <3>3. x + after <= full + y
      BY <1>4, <1>5, <2>2, <3>1, <3>2
    <3> QED
      BY <3>1, <3>2, <3>3
  <2> QED
    BY <1>5, <2>1, <2>2
<1> QED
  BY <1>1, <1>3, <1>4, <1>5 DEF BucketTally

LEMMA BucketRun ==
    ASSUME NEW l \in Limits, l.algorithm = "token_bucket", NEW t \in Nat,
           NEW h, Fits(KeyOf(l), h, t), NEW seen, MaySee(seen, h, t),
           NEW P, Counted(P, t), NEW top \in Nat, NEW rate \in Nat,
           l.count <= top, l.refill <= rate,
           top * Unit <= ((l.duration + Slack) * TicksPerSecond) * rate,
           BucketTally(P, h, t, top * Unit, rate), TokenBucket(seen, l, t).allowed
    PROVE  BucketTally(Plus(P, t, 1), TokenBucket(seen, l, t).hash, t, top * Unit, rate)
<1>1. PICK unit \in Nat \ {0}, count \in Nat, refill \in Nat :
        unit = Unit /\ count = l.count /\ refill = l.refill
  BY UnitAssumption DEF Limits
<1>2. PICK full, size, life \in Nat :
        /\ full = top * unit /\ size = count * unit /\ size <= full
        /\ life = (l.duration + Slack) * TicksPerSecond
  <2>1. count * unit <= top * unit /\ count * unit \in Nat /\ top * unit \in Nat
    BY <1>1
  <2>2. (l.duration + Slack) * TicksPerSecond \in Nat
    BY UnitAssumption, LimiterAssumption DEF Limits
  <2> QED
    BY <2>1, <2>2
<1>3. h = Absent \/ (h \in BucketHashes /\ h.at <= t
                       /\ h.expires = h.at + life)
  BY <1>2 DEF Fits, KeyOf, ExpiresAfter
<1>4. PICK before \in Nat : before = Available(h, t, full, rate) /\ before <= full
  BY <1>3, AvailableFacts
<1>5. PICK tokens : tokens = IF seen = Absent THEN size ELSE Refilled(seen, l, t)
  OBVIOUS
<1>6. tokens \in Int /\ tokens <= before
  <2>1. CASE seen = Absent
    <3>1. CASE h = Absent
      BY <1>2, <1>4, <1>5, <2>1, <3>1 DEF Available
    <3>2. CASE h # Absent
      <4>1. PICK n \in Nat, at \in Nat : n = h.tokens /\ at = h.at /\ at + life <= t
        BY <1>3, <2>1, <3>2 DEF MaySee, BucketHashes
      <4>2. PICK age \in Nat : age = t - at /\ life <= age
        BY <4>1
      <4>3. life * rate <= age * rate
        BY <4>2
      <4>4. PICK x, y \in Nat : x = age * rate /\ y = life * rate
        OBVIOUS
      <4>5. full <= y
        BY <1>1, <1>2, <4>4
      <4>6. Available(h, t, full, rate) = Smaller(full, n + x)
        BY <3>2, <4>1, <4>2, <4>4 DEF Available
      <4>7. before = full
        BY <1>4, <4>3, <4>4, <4>5, <4>6 DEF Smaller
      <4> QED
        BY <1>2, <1>5, <2>1, <4>7
    <3> QED
      BY <3>1, <3>2
  <2>2. CASE seen # Absent
    <3>1. seen = h /\ h # Absent
      BY <2>2 DEF MaySee
    <3>2. PICK n \in Nat, at \in Nat : n = h.tokens /\ at = h.at /\ at <= t
      BY <1>3, <3>1 DEF BucketHashes
    <3>3. PICK age \in Nat : age = t - at
      BY <3>2
    <3>4. age * refill <= age * rate
      BY <1>1
    <3>5. PICK x, y \in Nat : x = age * refill /\ y = age * rate
      OBVIOUS
    <3>6. tokens = Smaller(size, n + x)
      BY <1>1, <1>2, <1>5, <2>2, <3>1, <3>2, <3>3, <3>5 DEF Refilled
    <3>7. before = Smaller(full, n + y)
      BY <1>4, <3>1, <3>2, <3>3, <3>5 DEF Available
    <3> QED
      BY <1>2, <3>4, <3>5, <3>6, <3>7 DEF Smaller
  <2> QED
    BY <2>1, <2>2
<1>7. PICK hash, u, v :
        /\ TokenBucket(seen, l, t) = IF TooFew(tokens) THEN Deny(seen, u) ELSE Allow(hash, v)
        /\ hash = [tokens |-> tokens - unit, at |-> t,
                   expires |-> ExpiresAfter(t, l.duration)]
  <2>1. PICK u : u = AtLeast0(Ceil(size - tokens, unit))
    OBVIOUS
  <2>2. PICK v : v = AtLeast0(Ceil(size - (tokens - unit), unit))
    OBVIOUS
  <2>3. PICK hash : hash = [tokens |-> tokens - unit, at |-> t,
                            expires |-> ExpiresAfter(t, l.duration)]
    OBVIOUS
  <2> QED
    BY <1>1, <1>2, <1>5, <2>1, <2>2, <2>3 DEF TokenBucket
<1>8. ~TooFew(tokens)
  BY <1>7 DEF Deny
<1>9. TokenBucket(seen, l, t).hash = hash
  BY <1>7, <1>8 DEF Allow
<1>10. PICK after \in Nat : after = tokens - unit /\ after + unit <= before
  BY <1>1, <1>6, <1>8 DEF TooFew
<1>11. after = Available(hash, t, full, rate)
  <2>1. hash # Absent /\ hash.tokens = after /\ hash.at = t
    BY <1>7, <1>10 DEF Absent
  <2>2. (t - hash.at) * rate = 0
    BY <2>1
  <2>3. Available(hash, t, full, rate) = Smaller(full, after + 0)
    BY <2>1, <2>2 DEF Available
  <2> QED
    BY <1>1, <1>4, <1>10, <2>3 DEF Smaller
<1> QED
  BY <1>1, <1>2, <1>4, <1>9, <1>10, <1>11, BucketTakes
-----------------------------------------------------------------------------
(* What a command that runs the script of limit l on what it sees of hash h*)
(* may do: grant n messages, one by one, and leave behind the hash of the  *)
(* last run.                                                               *)
Grants(l, h, seen, t, n, hash) ==
    LET one == Script(seen, l, t)
        two == Script(one.hash, l, t)
    IN \/ n = 0 /\ hash = h
       \/ n = 1 /\ one.allowed /\ hash = one.hash
       \/ n = 2 /\ one.allowed /\ two.allowed /\ hash = two.hash

LEMMA AllowedRuns ==
    ASSUME NEW one, NEW two, one.allowed \in BOOLEAN, two.allowed \in BOOLEAN
    PROVE  /\ Cardinality({i \in DOMAIN << >> : << >>[i].allowed}) = 0
           /\ Cardinality({i \in DOMAIN <<one>> : <<one>>[i].allowed})
                = IF one.allowed THEN 1 ELSE 0
           /\ Cardinality({i \in DOMAIN <<two, one>> : <<two, one>>[i].allowed})
                = IF one.allowed THEN IF two.allowed THEN 2 ELSE 1
                                 ELSE IF two.allowed THEN 1 ELSE 0
<1>1. IsFiniteSet({}) /\ Cardinality({}) = 0
  BY FS_EmptySet
<1>2. \A x : IsFiniteSet({x}) /\ Cardinality({x}) = 1
  BY FS_Singleton
<1>3. Cardinality({1} \cup {2}) = 2
  <2>1. PICK S : S = {1}
    OBVIOUS
  <2>2. IsFiniteSet(S) /\ Cardinality(S) = 1 /\ 2 \notin S
    BY <1>2, <2>1
  <2>3. Cardinality(S \cup {2}) = Cardinality(S) + 1
    BY <2>2, FS_AddElement
  <2> QED
    BY <2>1, <2>2, <2>3
<1>4. Cardinality({i \in DOMAIN << >> : << >>[i].allowed}) = 0
  <2>1. {i \in DOMAIN << >> : << >>[i].allowed} = {}
    OBVIOUS
  <2> QED
    BY <1>1, <2>1
<1>5. Cardinality({i \in DOMAIN <<one>> : <<one>>[i].allowed}) = IF one.allowed THEN 1 ELSE 0
  <2>1. {i \in DOMAIN <<one>> : <<one>>[i].allowed} = IF one.allowed THEN {1} ELSE {}
    OBVIOUS
  <2> QED
    BY <1>1, <1>2, <2>1
<1>6. PICK runs : runs = <<two, one>>
  OBVIOUS
<1>7. DOMAIN runs = {1, 2} /\ runs[1] = two /\ runs[2] = one
  BY <1>6
<1>8. Cardinality({i \in DOMAIN runs : runs[i].allowed})
        = IF one.allowed THEN IF two.allowed THEN 2 ELSE 1
                         ELSE IF two.allowed THEN 1 ELSE 0
  <2>1. CASE one.allowed /\ two.allowed
    <3>1. {i \in DOMAIN runs : runs[i].allowed} = {1} \cup {2}
      BY <1>7, <2>1
    <3> QED
      BY <1>3, <2>1, <3>1
  <2>2. CASE one.allowed /\ ~two.allowed
    <3>1. {i \in DOMAIN runs : runs[i].allowed} = {2}
      BY <1>7, <2>2
    <3> QED
      BY <1>2, <2>2, <3>1
  <2>3. CASE ~one.allowed /\ two.allowed
    <3>1. {i \in DOMAIN runs : runs[i].allowed} = {1}
      BY <1>7, <2>3
    <3> QED
      BY <1>2, <2>3, <3>1
  <2>4. CASE ~one.allowed /\ ~two.allowed
    <3>1. {i \in DOMAIN runs : runs[i].allowed} = {}
      BY <1>7, <2>4
    <3> QED
      BY <1>1, <2>4, <3>1
  <2> QED
    BY <2>1, <2>2, <2>3, <2>4
<1> QED
  BY <1>4, <1>5, <1>6, <1>8

LEMMA RunsGrant ==
    ASSUME NEW l \in Limits, clock \in Nat, Epoch <= clock,
           NEW seen, Fits(KeyOf(l), seen, clock), NEW h,
           NEW o \in {"ok", "lost", "late", "twice"},
           NEW runs, runs = RunsOf(o, seen, l),
           NEW yes, yes = Cardinality({i \in DOMAIN runs : runs[i].allowed}),
           NEW hash, hash = IF yes > 0 THEN runs[1].hash ELSE h
    PROVE  yes \in 0 .. 2 /\ Grants(l, h, seen, clock, yes, hash)
<1>1. PICK one, two : one = Script(seen, l, clock) /\ two = Script(one.hash, l, clock)
  OBVIOUS
<1>2. /\ Fits(KeyOf(l), one.hash, clock) /\ one.allowed \in BOOLEAN
      /\ ~one.allowed => one.hash = seen
  BY <1>1, ScriptFits
<1>3. two.allowed \in BOOLEAN /\ (~two.allowed => two.hash = one.hash)
  BY <1>1, <1>2, ScriptFits
<1>4. ~one.allowed => two = one
  BY <1>1, <1>2
<1>5. /\ Cardinality({i \in DOMAIN << >> : << >>[i].allowed}) = 0
      /\ Cardinality({i \in DOMAIN <<one>> : <<one>>[i].allowed})
           = IF one.allowed THEN 1 ELSE 0
      /\ Cardinality({i \in DOMAIN <<two, one>> : <<two, one>>[i].allowed})
           = IF one.allowed THEN IF two.allowed THEN 2 ELSE 1
                            ELSE IF two.allowed THEN 1 ELSE 0
  BY <1>2, <1>3, AllowedRuns
<1>6. CASE o = "lost"
  <2>1. runs = << >>
    BY <1>6 DEF RunsOf
  <2>2. yes = 0
    BY <1>5, <2>1
  <2> QED
    BY <2>2 DEF Grants
<1>7. CASE o \in {"ok", "late"}
  <2>1. runs = <<one>>
    BY <1>1, <1>7 DEF RunsOf
  <2>2. yes = IF one.allowed THEN 1 ELSE 0
    BY <1>5, <2>1
  <2>3. runs[1] = one
    BY <2>1
  <2> QED
    BY <1>1, <2>2, <2>3 DEF Grants
<1>8. CASE o = "twice"
  <2>1. runs = <<two, one>>
    BY <1>1, <1>8 DEF RunsOf
  <2>2. yes = IF one.allowed THEN IF two.allowed THEN 2 ELSE 1 ELSE 0
    BY <1>4, <1>5, <2>1
  <2>3. runs[1] = two
    BY <2>1
  <2>4. CASE one.allowed /\ two.allowed
    BY <1>1, <2>2, <2>3, <2>4 DEF Grants
  <2>5. CASE one.allowed /\ ~two.allowed
    BY <1>1, <1>3, <2>2, <2>3, <2>5 DEF Grants
  <2>6. CASE ~one.allowed
    BY <2>2, <2>6 DEF Grants
  <2> QED
    BY <1>2, <1>3, <2>4, <2>5, <2>6
<1> QED
  BY <1>6, <1>7, <1>8

(* A step of a check grants messages of one limit, and touches nothing but *)
(* that limit's key.                                                       *)
LEMMA RunScriptGrants ==
    ASSUME IInv, NEW c \in Clients, RunScript(c)
    PROVE  \E k \in Keys : \E l \in LimitsOf(k), n \in 0 .. 2 : \E hash :
              /\ l \in Limits /\ k = KeyOf(l) /\ UNCHANGED <<policy, clock>>
              /\ granted' = [granted EXCEPT ![k] = More(granted[k], clock, n)]
              /\ store' = [store EXCEPT ![k] = hash]
              /\ Grants(l, store[k], Live(k, clock), clock, n, hash)
<1> USE DEF IInv
<1>1. check[c].pc \in {"evalsha", "eval"} /\ UNCHANGED <<policy, clock>>
  BY DEF RunScript
<1>2. check[c] \in Checking /\ check[c].pos \in DOMAIN check[c].quota
  BY <1>1 DEF CheckType, Idle
<1>3. clock \in Nat /\ Epoch <= clock
  BY LimiterAssumption
<1> DEFINE l == check[c].quota[check[c].pos]
           k == KeyOf(l)
<1>4. l \in Limits /\ k \in Keys /\ check[c].quota \in Adapted[policy]
  BY <1>2, AdaptedLimit DEF Checking
<1>5. l \in LimitsOf(k)
  BY <1>2, <1>4 DEF LimitsOf, LimitsIn
<1>6. Fits(k, Live(k, clock), clock)
  BY <1>4 DEF StoreType, Live, Fits
<1>7. PICK o \in Outcomes :
        LET runs == RunsOf(o, Live(k, clock), l)
            yes == Cardinality({i \in DOMAIN runs : runs[i].allowed})
        IN /\ store' = IF yes > 0 THEN [store EXCEPT ![k] = runs[1].hash] ELSE store
           /\ granted' = [granted EXCEPT ![k] =
                 [t \in DOMAIN granted[k] |->
                     granted[k][t] + (IF t < clock THEN 0 ELSE yes)]]
  BY DEF RunScript
<1>8. o \in {"ok", "lost", "late", "twice"}
  BY DEF Outcomes
<1>9. PICK runs : runs = RunsOf(o, Live(k, clock), l)
  OBVIOUS
<1>10. PICK yes : yes = Cardinality({i \in DOMAIN runs : runs[i].allowed})
  OBVIOUS
<1>11. PICK hash : hash = IF yes > 0 THEN runs[1].hash ELSE store[k]
  OBVIOUS
<1>12. yes \in 0 .. 2 /\ Grants(l, store[k], Live(k, clock), clock, yes, hash)
  <2>1. PICK limit, seen, h : limit = l /\ seen = Live(k, clock) /\ h = store[k]
    OBVIOUS
  <2>2. /\ limit \in Limits /\ Fits(KeyOf(limit), seen, clock)
        /\ runs = RunsOf(o, seen, limit) /\ hash = IF yes > 0 THEN runs[1].hash ELSE h
    BY <1>4, <1>6, <1>9, <1>11, <2>1
  <2>3. clock \in Nat /\ Epoch <= clock /\ o \in {"ok", "lost", "late", "twice"}
    BY <1>3, <1>8
  <2> HIDE DEF l, k
  <2>4. yes \in 0 .. 2 /\ Grants(limit, h, seen, clock, yes, hash)
    BY <1>10, <2>2, <2>3, RunsGrant
  <2> QED
    BY <2>1, <2>4
<1>13. /\ store' = IF yes > 0 THEN [store EXCEPT ![k] = runs[1].hash] ELSE store
       /\ granted' = [granted EXCEPT ![k] = More(granted[k], clock, yes)]
  BY <1>7, <1>9, <1>10 DEF More
<1> HIDE DEF l, k
<1>14. store' = [store EXCEPT ![k] = hash]
  <2>1. CASE yes > 0
    BY <1>11, <1>13, <2>1
  <2>2. CASE ~(yes > 0)
    BY <1>4, <1>11, <1>13, <2>2 DEF StoreType
  <2> QED
    BY <2>1, <2>2
<1>15. k = KeyOf(l)
  BY DEF k
<1> QED
  BY <1>1, <1>4, <1>5, <1>12, <1>13, <1>14, <1>15
-----------------------------------------------------------------------------
(* The hash and the history of a key agree, whatever the algorithm.  That a*)
(* bucket is full by the time its hash expires is needed for buckets.      *)
Tally(k, h, g, t, top, rate) ==
    /\ k.algorithm = "fixed_window" =>
         FixedTally(Before(g, TicksPerSecond), h, k.duration, top)
    /\ k.algorithm = "sliding_window_counter" =>
         SlidingTally(Before(g, TicksPerSecond), h, Second(t), k.duration, top)
    /\ k.algorithm = "token_bucket"
         /\ top * Unit <= ((k.duration + Slack) * TicksPerSecond) * rate =>
         BucketTally(Before(g, 1), h, t, top * Unit, rate)

LEMMA DivByOne == \A t \in Nat : t \div 1 = t
<1> SUFFICES ASSUME NEW t \in Nat PROVE t \div 1 = t
  OBVIOUS
<1>1. PICK q \in Nat : q = t \div 1 /\ 1 * q <= t /\ t < 1 * q + 1
  BY DivFacts
<1> QED
  BY <1>1

LEMMA TallyRun ==
    ASSUME NEW l \in Limits, NEW t \in Epoch .. MaxClock, NEW k, k = KeyOf(l),
           NEW h, Fits(k, h, t), NEW seen, MaySee(seen, h, t),
           NEW g, History(g, t), NEW top \in Nat, NEW rate \in Nat,
           l.count <= top, l.refill <= rate,
           Tally(k, h, g, t, top, rate), Script(seen, l, t).allowed
    PROVE  Tally(k, Script(seen, l, t).hash, More(g, t, 1), t, top, rate)
<1>0. t \in Nat /\ TicksPerSecond \in Nat \ {0} /\ 1 \in Nat \ {0}
        /\ k.algorithm = l.algorithm /\ k.duration = l.duration
  BY UnitAssumption, LimiterAssumption DEF KeyOf
<1>1. PICK P, Q : P = Before(g, TicksPerSecond) /\ Q = Before(g, 1)
  OBVIOUS
<1>2. Counted(P, Second(t)) /\ Counted(Q, t)
  BY <1>0, <1>1, HistoryCounted, DivByOne DEF Second
<1>3. /\ Before(More(g, t, 1), TicksPerSecond) = Plus(P, Second(t), 1)
      /\ Before(More(g, t, 1), 1) = Plus(Q, t, 1)
  BY <1>0, <1>1, MoreHistory, DivByOne DEF Second
<1>4. CASE l.algorithm = "fixed_window"
  <2>1. FixedTally(P, h, l.duration, top) /\ FixedWindow(seen, l, t).allowed
    BY <1>0, <1>1, <1>4 DEF Tally, Script
  <2>2. FixedTally(Plus(P, Second(t), 1), FixedWindow(seen, l, t).hash, l.duration, top)
    BY <1>0, <1>2, <1>4, <2>1, FixedRun
  <2> QED
    BY <1>0, <1>3, <1>4, <2>2 DEF Tally, Script
<1>5. CASE l.algorithm = "sliding_window_counter"
  <2>1. SlidingTally(P, h, Second(t), l.duration, top) /\ SlidingWindow(seen, l, t).allowed
    BY <1>0, <1>1, <1>5 DEF Tally, Script
  <2>2. SlidingTally(Plus(P, Second(t), 1), SlidingWindow(seen, l, t).hash, Second(t),
                     l.duration, top)
    BY <1>0, <1>2, <1>5, <2>1, SlidingRun
  <2> QED
    BY <1>0, <1>3, <1>5, <2>2 DEF Tally, Script
<1>6. CASE l.algorithm = "token_bucket"
  <2>1. SUFFICES ASSUME top * Unit <= ((l.duration + Slack) * TicksPerSecond) * rate
                 PROVE  BucketTally(Plus(Q, t, 1), Script(seen, l, t).hash, t, top * Unit, rate)
    BY <1>0, <1>3, <1>6 DEF Tally
  <2>2. BucketTally(Q, h, t, top * Unit, rate) /\ TokenBucket(seen, l, t).allowed
    BY <1>0, <1>1, <1>6, <2>1 DEF Tally, Script
  <2>3. BucketTally(Plus(Q, t, 1), TokenBucket(seen, l, t).hash, t, top * Unit, rate)
    BY <1>0, <1>2, <1>6, <2>1, <2>2, BucketRun
  <2> QED
    BY <1>6, <2>3 DEF Script
<1> QED
  BY <1>4, <1>5, <1>6 DEF Limits, Algorithms

LEMMA TallyGrants ==
    ASSUME NEW l \in Limits, NEW t \in Epoch .. MaxClock, NEW k, k = KeyOf(l),
           NEW h, Fits(k, h, t), NEW seen, MaySee(seen, h, t), Fits(k, seen, t),
           NEW g, History(g, t), NEW top \in Nat, NEW rate \in Nat,
           l.count <= top, l.refill <= rate, Tally(k, h, g, t, top, rate),
           NEW n, NEW hash, Grants(l, h, seen, t, n, hash)
    PROVE  Tally(k, hash, More(g, t, n), t, top, rate)
<1>1. PICK one, two : one = Script(seen, l, t) /\ two = Script(one.hash, l, t)
  OBVIOUS
<1>2. \A u \in DOMAIN g : g[u] \in Nat
  BY DEF History
<1>3. CASE n = 0
  <2>1. More(g, t, 0) = g
    BY <1>2 DEF More, History
  <2> QED
    BY <1>3, <2>1 DEF Grants
<1>4. CASE n \in {1, 2}
  <2>1. one.allowed
    BY <1>1, <1>4 DEF Grants
  <2>2. Tally(k, one.hash, More(g, t, 1), t, top, rate)
    BY <1>1, <2>1, TallyRun
  <2>3. CASE n = 1
    BY <1>1, <2>2, <2>3 DEF Grants
  <2>4. CASE n = 2
    <3>1. t \in Nat /\ Epoch <= t
      BY LimiterAssumption
    <3>2. Fits(k, one.hash, t) /\ MaySee(one.hash, one.hash, t)
      BY <1>1, <3>1, ScriptFits DEF MaySee
    <3>3. 1 \in Nat \ {0}
      OBVIOUS
    <3>4. History(More(g, t, 1), t)
      BY <3>3, MoreHistory
    <3>5. PICK f : f = More(g, t, 1)
      OBVIOUS
    <3>6. two.allowed /\ hash = two.hash
      BY <1>1, <2>4 DEF Grants
    <3>7. Tally(k, two.hash, More(f, t, 1), t, top, rate)
      BY <1>1, <2>2, <3>2, <3>4, <3>5, <3>6, TallyRun
    <3>8. More(f, t, 1) = More(g, t, 2)
      <4>1. DOMAIN f = DOMAIN g
        BY <3>5 DEF More
      <4>2. \A u \in DOMAIN g : f[u] + (IF u < t THEN 0 ELSE 1) = g[u] + (IF u < t THEN 0 ELSE 2)
        BY <1>2, <3>5 DEF More
      <4> QED
        BY <4>1, <4>2 DEF More
    <3> QED
      BY <2>4, <3>6, <3>7, <3>8
  <2> QED
    BY <1>4, <2>3, <2>4
<1> QED
  BY <1>3, <1>4 DEF Grants

(* Nothing granted, nothing counted.                                       *)
LEMMA TallyEmpty ==
    ASSUME NEW t \in Epoch .. MaxClock, NEW k, k.duration \in Nat \ {0},
           NEW top \in Nat, NEW rate \in Nat,
           NEW g, g = [u \in Epoch .. MaxClock |-> 0]
    PROVE  History(g, t) /\ Tally(k, Absent, g, t, top, rate)
<1>0. Epoch \in Nat /\ MaxClock \in Nat /\ Epoch <= MaxClock /\ t \in Nat
  BY LimiterAssumption
<1>1. History(g, t)
  BY DEF History
<1>2. \A u \in Int : SoFar(g, u) = 0
  BY <1>0 DEF SoFar, Smaller
<1>3. \A s \in Int : Before(g, TicksPerSecond)[s] = 0 /\ Before(g, 1)[s] = 0
  <2> SUFFICES ASSUME NEW s \in Int
               PROVE  Before(g, TicksPerSecond)[s] = 0 /\ Before(g, 1)[s] = 0
    OBVIOUS
  <2>1. s * TicksPerSecond - 1 \in Int /\ s * 1 - 1 \in Int
    BY UnitAssumption
  <2> QED
    BY <1>2, <2>1 DEF Before
<1>4. FixedTally(Before(g, TicksPerSecond), Absent, k.duration, top)
  <2>1. \A s \in Int : s + k.duration \in Int /\ 0 - 0 <= 2 * top
    OBVIOUS
  <2> QED
    BY <1>3, <2>1 DEF FixedTally
<1>5. SlidingTally(Before(g, TicksPerSecond), Absent, Second(t), k.duration, top)
  BY <1>3 DEF SlidingTally
<1>6. BucketTally(Before(g, 1), Absent, t, top * Unit, rate)
  <2>1. PICK full \in Nat : full = top * Unit
    BY UnitAssumption
  <2>2. ASSUME NEW s \in Int, NEW v \in Int, s <= v PROVE full <= full + (v - s) * rate
    <3>1. PICK a \in Nat : a = v - s
      BY <2>2
    <3>2. a * rate \in Nat
      OBVIOUS
    <3> QED
      BY <3>1, <3>2
  <2>3. (0 - 0) * Unit = 0
    BY UnitAssumption
  <2>4. PICK Q : Q = Before(g, 1)
    OBVIOUS
  <2>5. \A s \in Int : Q[s] = 0
    BY <1>3, <2>4
  <2>6. Available(Absent, t, full, rate) = full
    BY DEF Available
  <2>7. ASSUME NEW s \in Int, s <= t
        PROVE  (Q[t + 1] - Q[s]) * Unit + full <= full + (t - s) * rate
    <3>1. Q[t + 1] - Q[s] = 0 - 0
      BY <1>0, <2>5
    <3> QED
      BY <1>0, <2>2, <2>3, <2>7, <3>1
  <2>8. ASSUME NEW s \in Int, NEW v \in Int, s <= v
        PROVE  (Q[v + 1] - Q[s]) * Unit <= full + (v - s) * rate
    <3>1. Q[v + 1] - Q[s] = 0 - 0
      BY <2>5
    <3>2. PICK z \in Int : z = (v - s) * rate
      <4>1. PICK a \in Int : a = v - s
        OBVIOUS
      <4> QED
        BY <4>1
    <3>3. full <= full + z
      BY <2>2, <2>8, <3>2
    <3> QED
      BY <2>3, <3>1, <3>2, <3>3
  <2> QED
    BY <2>1, <2>4, <2>6, <2>7, <2>8 DEF BucketTally
<1> QED
  BY <1>1, <1>4, <1>5, <1>6 DEF Tally

(* A tick.                                                                 *)
LEMMA TallyLater ==
    ASSUME NEW t \in Epoch .. MaxClock, t + 1 \in Epoch .. MaxClock,
           NEW k, k.duration \in Nat \ {0}, NEW h, Fits(k, h, t), NEW g, History(g, t),
           NEW top \in Nat, NEW rate \in Nat, Tally(k, h, g, t, top, rate)
    PROVE  History(g, t + 1) /\ Tally(k, h, g, t + 1, top, rate)
<1>0. t \in Nat /\ t + 1 \in Nat /\ t <= t + 1 /\ 1 \in Nat \ {0}
        /\ TicksPerSecond \in Nat \ {0}
  BY LimiterAssumption, UnitAssumption
<1>1. History(g, t + 1)
  <2>1. ASSUME NEW u \in Epoch .. MaxClock, t + 1 <= u PROVE g[u] = g[t + 1]
    <3>1. t <= u /\ u \in Epoch .. MaxClock
      BY <1>0, <2>1, LimiterAssumption
    <3>2. g[u] = g[t] /\ g[t + 1] = g[t]
      BY <1>0, <3>1 DEF History
    <3> QED
      BY <3>2
  <2> QED
    BY <2>1 DEF History
<1>2. CASE k.algorithm = "fixed_window"
  BY <1>1, <1>2 DEF Tally
<1>3. CASE k.algorithm = "sliding_window_counter"
  <2>1. PICK now, later \in Nat : now = Second(t) /\ later = Second(t + 1) /\ now <= later
    BY <1>0, SecondFacts
  <2>2. h = Absent \/ h \in CounterHashes
    BY <1>3 DEF Fits
  <2>3. SlidingTally(Before(g, TicksPerSecond), h, now, k.duration, top)
    BY <1>3, <2>1 DEF Tally
  <2>4. SlidingTally(Before(g, TicksPerSecond), h, later, k.duration, top)
    <3>1. PICK P : P = Before(g, TicksPerSecond)
      OBVIOUS
    <3>2. PICK d \in Nat \ {0} : d = k.duration
      OBVIOUS
    <3>3. SlidingTally(P, h, later, d, top)
      BY <2>1, <2>2, <2>3, <3>1, <3>2, SlidingLater
    <3> QED
      BY <3>1, <3>2, <3>3
  <2> QED
    BY <1>1, <1>3, <2>1, <2>4 DEF Tally
<1>4. CASE k.algorithm = "token_bucket"
  <2>1. SUFFICES ASSUME top * Unit <= ((k.duration + Slack) * TicksPerSecond) * rate
                 PROVE  BucketTally(Before(g, 1), h, t + 1, top * Unit, rate)
    BY <1>1, <1>4 DEF Tally
  <2>6. PICK full \in Nat : full = top * Unit
    BY UnitAssumption
  <2>2. PICK Q : Q = Before(g, 1) /\ full = top * Unit
    BY <2>6
  <2>3. BucketTally(Q, h, t, full, rate)
    BY <1>4, <2>1, <2>2 DEF Tally
  <2>4. Counted(Q, t)
    BY <1>0, <2>2, HistoryCounted, DivByOne
  <2>5. h = Absent \/ (h \in BucketHashes /\ h.at <= t)
    BY <1>4 DEF Fits
  <2> QED
    BY <1>0, <2>2, <2>3, <2>4, <2>5, BucketLater
<1>5. CASE k.algorithm \notin Algorithms
  BY <1>1, <1>5 DEF Tally, Algorithms
<1> QED
  BY <1>2, <1>3, <1>4, <1>5 DEF Algorithms
-----------------------------------------------------------------------------
(* What refills a bucket: its rate, or that its hash, which may be gone in  *)
(* "life" ticks, comes back full, whichever is faster.                     *)
LifeOf(k) == (k.duration + Slack) * TicksPerSecond
DueRefill(k) == Larger(TopRefill(k), Ceil(TopCount(k) * Unit, LifeOf(k)))

LEMMA DueFacts ==
    ASSUME policy \in Policies, NEW k, k.duration \in Nat \ {0}, LimitsOf(k) # {}
    PROVE  /\ TopCount(k) \in Nat /\ DueRefill(k) \in Nat
           /\ \A l \in LimitsOf(k) : l.count <= TopCount(k) /\ l.refill <= DueRefill(k)
           /\ TopCount(k) * Unit <= LifeOf(k) * DueRefill(k)
           /\ TopCount(k) * Unit <= LifeOf(k) * TopRefill(k) => DueRefill(k) = TopRefill(k)
<1>1. PICK life \in Nat \ {0} : life = LifeOf(k)
  BY UnitAssumption, LimiterAssumption DEF LifeOf
<1>2. PICK top, rate \in Nat : top = TopCount(k) /\ rate = TopRefill(k)
  BY TopFacts
<1>3. PICK full \in Nat : full = top * Unit
  BY UnitAssumption
<1>4. PICK c \in Nat : c = Ceil(full, life) /\ full <= c * life
  BY CeilFacts
<1>5. DueRefill(k) = Larger(rate, c)
  BY <1>1, <1>2, <1>3, <1>4 DEF DueRefill
<1>6. PICK r \in Nat : r = DueRefill(k) /\ rate <= r /\ c <= r /\ (r = rate \/ (r = c /\ rate < c))
  <2>1. PICK r : r = DueRefill(k)
    OBVIOUS
  <2>2. r = IF rate < c THEN c ELSE rate
    BY <1>5, <2>1 DEF Larger
  <2>3. CASE rate < c
    <3>1. r = c
      BY <2>2, <2>3
    <3> QED
      BY <2>1, <2>3, <3>1
  <2>4. CASE ~(rate < c)
    <3>1. r = rate
      BY <2>2, <2>4
    <3>2. r \in Nat /\ rate <= r /\ c <= r /\ r = rate
      BY <2>4, <3>1
    <3> QED
      BY <2>1, <3>2
  <2> QED
    BY <2>3, <2>4
<1>7. full <= life * r
  <2>1. c * life <= life * r
    BY <1>6
  <2> QED
    BY <1>4, <2>1
<1>8. full <= life * rate => r = rate
  <2>1. SUFFICES ASSUME full <= life * rate, r = c, rate < c PROVE FALSE
    BY <1>6
  <2>2. PICK n \in Nat : c = rate + 1 + n
    <3>1. c - rate - 1 \in Nat /\ c = rate + 1 + (c - rate - 1)
      BY <2>1
    <3> QED
      BY <3>1
  <2>3. full + life - 1 \in Nat /\ Ceil(full, life) = (full + life - 1) \div life
    BY DEF Ceil
  <2>4. life * c <= full + life - 1
    BY <1>4, <2>3, DivFacts
  <2>5. life * c = life * rate + life + life * n
    BY <2>2
  <2>6. PICK x, y \in Nat : x = life * rate /\ y = life * n
    OBVIOUS
  <2> QED
    BY <2>1, <2>4, <2>5, <2>6
<1>9. \A l \in LimitsOf(k) : l.count <= top /\ l.refill <= rate /\ l.refill \in Nat
  <2>1. ASSUME NEW l \in LimitsOf(k) PROVE l.refill \in Nat
    <3>1. PICK q \in Adapted[policy] : \E i \in DOMAIN q : l = q[i]
      BY DEF LimitsOf, LimitsIn
    <3> QED
      BY <3>1, AdaptedLimit DEF Limits
  <2> QED
    BY <1>2, <2>1, TopFacts
<1> QED
  BY <1>1, <1>2, <1>3, <1>6, <1>7, <1>8, <1>9

(* The inductive invariant of the bounds.                                  *)
TallyInv ==
    \A k \in Keys :
        /\ History(granted[k], clock)
        /\ LimitsOf(k) # {} =>
             Tally(k, store[k], granted[k], clock, TopCount(k), DueRefill(k))

LEMMA KeyDuration == \A k \in Keys : k.duration \in Nat \ {0}
<1> SUFFICES ASSUME NEW k \in Keys PROVE k.duration \in Nat \ {0}
  OBVIOUS
<1>1. PICK p \in Policies : \E l \in LimitsIn(p.quotas) : k = KeyOf(l)
  BY DEF Keys
<1>2. PICK l \in LimitsIn(p.quotas) : k = KeyOf(l)
  BY <1>1
<1>3. PICK q \in p.quotas : \E i \in DOMAIN q : l = q[i]
  BY <1>2 DEF LimitsIn
<1>4. q \in Seq(Limits)
  BY LimiterAssumption
<1>5. l \in Limits
  BY <1>3, <1>4
<1> QED
  BY <1>2, <1>5 DEF KeyOf, Limits

LEMMA TallyInit == Init => TallyInv
<1> SUFFICES ASSUME Init, NEW k \in Keys
             PROVE  /\ History(granted[k], clock)
                    /\ LimitsOf(k) # {} =>
                         Tally(k, store[k], granted[k], clock, TopCount(k), DueRefill(k))
  BY DEF TallyInv
<1>1. policy \in Policies /\ clock \in Epoch .. MaxClock /\ store[k] = Absent
        /\ granted[k] = [u \in Epoch .. MaxClock |-> 0]
  BY LimiterAssumption DEF Init
<1>2. k.duration \in Nat \ {0}
  BY KeyDuration
<1>3. 0 \in Nat
  OBVIOUS
<1>4. History(granted[k], clock)
  BY <1>1, <1>2, <1>3, TallyEmpty
<1>5. ASSUME LimitsOf(k) # {}
      PROVE  Tally(k, Absent, granted[k], clock, TopCount(k), DueRefill(k))
  <2>1. PICK top, rate \in Nat : top = TopCount(k) /\ rate = DueRefill(k)
    BY <1>1, <1>2, <1>5, DueFacts
  <2>2. Tally(k, Absent, granted[k], clock, top, rate)
    BY <1>1, <1>2, <2>1, TallyEmpty
  <2> QED
    BY <2>1, <2>2
<1> QED
  BY <1>1, <1>4, <1>5

LEMMA TallyRunScript ==
    ASSUME IInv, TallyInv, NEW c \in Clients, RunScript(c)
    PROVE  TallyInv'
<1>1. PICK k \in Keys : \E l \in LimitsOf(k), n \in 0 .. 2 : \E hash :
              /\ l \in Limits /\ k = KeyOf(l) /\ UNCHANGED <<policy, clock>>
              /\ granted' = [granted EXCEPT ![k] = More(granted[k], clock, n)]
              /\ store' = [store EXCEPT ![k] = hash]
              /\ Grants(l, store[k], Live(k, clock), clock, n, hash)
  BY RunScriptGrants
<1>2. PICK l \in LimitsOf(k), n \in 0 .. 2 : \E hash :
              /\ l \in Limits /\ k = KeyOf(l) /\ UNCHANGED <<policy, clock>>
              /\ granted' = [granted EXCEPT ![k] = More(granted[k], clock, n)]
              /\ store' = [store EXCEPT ![k] = hash]
              /\ Grants(l, store[k], Live(k, clock), clock, n, hash)
  BY <1>1
<1>3. PICK hash :
              /\ l \in Limits /\ k = KeyOf(l) /\ UNCHANGED <<policy, clock>>
              /\ granted' = [granted EXCEPT ![k] = More(granted[k], clock, n)]
              /\ store' = [store EXCEPT ![k] = hash]
              /\ Grants(l, store[k], Live(k, clock), clock, n, hash)
  BY <1>2
<1>4. policy \in Policies /\ clock \in Epoch .. MaxClock /\ n \in Nat
  BY DEF IInv
<1>5. PICK top, rate \in Nat :
        top = TopCount(k) /\ rate = DueRefill(k) /\ l.count <= top /\ l.refill <= rate
  BY <1>4, KeyDuration, DueFacts
<1>6. PICK t, h, g, seen :
        t = clock /\ h = store[k] /\ g = granted[k] /\ seen = Live(k, clock)
  OBVIOUS
<1>7. Fits(k, h, t) /\ History(g, t) /\ Tally(k, h, g, t, top, rate)
  BY <1>5, <1>6 DEF IInv, StoreType, TallyInv
<1>8. MaySee(seen, h, t) /\ Fits(k, seen, t)
  <2>1. h # Absent => h.expires \in Nat
    BY <1>7 DEF Fits, WindowHashes, CounterHashes, BucketHashes
  <2>2. clock \in Nat
    BY <1>4, LimiterAssumption
  <2>3. seen = h \/ (seen = Absent /\ h # Absent /\ ~(t < h.expires))
    BY <1>6 DEF Live
  <2> QED
    BY <1>6, <1>7, <2>1, <2>2, <2>3 DEF MaySee, Fits
<1>9. Tally(k, hash, More(g, t, n), t, top, rate)
  BY <1>3, <1>4, <1>5, <1>6, <1>7, <1>8, TallyGrants
<1>10. History(More(g, t, n), t)
  <2>1. 1 \in Nat \ {0}
    OBVIOUS
  <2> QED
    BY <1>4, <1>6, <1>7, <2>1, MoreHistory
<1>11. /\ \A j \in Keys : LimitsOf(j)' = LimitsOf(j)
       /\ \A j \in Keys : TopCount(j)' = TopCount(j) /\ DueRefill(j)' = DueRefill(j)
  BY <1>3 DEF LimitsOf, TopCount, TopRefill, DueRefill
<1>12. k \in DOMAIN granted /\ k \in DOMAIN store
  BY DEF IInv, StoreType, GrantedType
<1>13. store'[k] = hash /\ granted'[k] = More(g, t, n) /\ clock' = t
  BY <1>3, <1>6, <1>12
<1>14. ASSUME NEW j \in Keys
       PROVE  /\ History(granted'[j], clock')
              /\ LimitsOf(j)' # {} =>
                   Tally(j, store'[j], granted'[j], clock', TopCount(j)', DueRefill(j)')
  <2>1. CASE j = k
    BY <1>5, <1>9, <1>10, <1>11, <1>13, <2>1
  <2>2. CASE j # k
    <3>1. store'[j] = store[j] /\ granted'[j] = granted[j] /\ clock' = clock
      BY <1>3, <2>2 DEF IInv, StoreType, GrantedType
    <3> QED
      BY <1>11, <3>1 DEF TallyInv
  <2> QED
    BY <2>1, <2>2
<1>15. Keys' = Keys
  OBVIOUS
<1> QED
  BY <1>14 DEF TallyInv

LEMMA TallyStep == IInv /\ TallyInv /\ [Next]_vars => TallyInv'
<1> SUFFICES ASSUME IInv, TallyInv, [Next]_vars PROVE TallyInv'
  OBVIOUS
<1>1. ASSUME UNCHANGED <<policy, store, clock, granted>> PROVE TallyInv'
  BY <1>1 DEF TallyInv, LimitsOf, TopCount, TopRefill, DueRefill
<1>2. ASSUME NEW c \in Clients, NEW q \in policy.quotas, NEW m \in Multipliers[policy],
             Begin(c, q, m)
      PROVE  TallyInv'
  BY <1>1, <1>2 DEF Begin
<1>3. ASSUME NEW k \in Keys, ResetLimit(k) PROVE TallyInv'
  <2>1. /\ UNCHANGED <<policy, clock>> /\ store' = [store EXCEPT ![k] = Absent]
        /\ granted' = [granted EXCEPT ![k] = [t \in DOMAIN granted[k] |-> 0]]
    BY <1>3 DEF ResetLimit
  <2>2. policy \in Policies /\ clock \in Epoch .. MaxClock /\ k.duration \in Nat \ {0}
    BY KeyDuration DEF IInv
  <2>3. k \in DOMAIN granted /\ k \in DOMAIN store /\ DOMAIN granted[k] = Epoch .. MaxClock
    BY DEF IInv, StoreType, GrantedType
  <2>4. PICK g : g = [t \in Epoch .. MaxClock |-> 0]
    OBVIOUS
  <2>5. store'[k] = Absent /\ granted'[k] = g /\ clock' = clock
    BY <2>1, <2>3, <2>4
  <2>6. 0 \in Nat
    OBVIOUS
  <2>7. History(g, clock)
    BY <2>2, <2>4, <2>6, TallyEmpty
  <2>8. ASSUME LimitsOf(k) # {}
        PROVE  Tally(k, Absent, g, clock, TopCount(k), DueRefill(k))
    <3>1. PICK top, rate \in Nat : top = TopCount(k) /\ rate = DueRefill(k)
      BY <2>2, <2>8, DueFacts
    <3>2. Tally(k, Absent, g, clock, top, rate)
      BY <2>2, <2>4, TallyEmpty
    <3> QED
      BY <3>1, <3>2
  <2>9. \A j \in Keys : LimitsOf(j)' = LimitsOf(j) /\ TopCount(j)' = TopCount(j)
                           /\ DueRefill(j)' = DueRefill(j)
    BY <2>1 DEF LimitsOf, TopCount, TopRefill, DueRefill
  <2>10. ASSUME NEW j \in Keys
         PROVE  /\ History(granted'[j], clock')
                /\ LimitsOf(j)' # {} =>
                     Tally(j, store'[j], granted'[j], clock', TopCount(j)', DueRefill(j)')
    <3>1. CASE j = k
      BY <2>5, <2>7, <2>8, <2>9, <3>1
    <3>2. CASE j # k
      <4>1. store'[j] = store[j] /\ granted'[j] = granted[j] /\ clock' = clock
        BY <2>1, <3>2 DEF IInv, StoreType, GrantedType
      <4> QED
        BY <2>9, <4>1 DEF TallyInv
    <3> QED
      BY <3>1, <3>2
  <2> QED
    BY <2>10 DEF TallyInv
<1>4. ASSUME Tick PROVE TallyInv'
  <2>1. UNCHANGED <<policy, store, granted>> /\ clock' = clock + 1 /\ clock < MaxClock
    BY <1>4 DEF Tick
  <2>2. policy \in Policies /\ clock \in Epoch .. MaxClock /\ clock + 1 \in Epoch .. MaxClock
    BY <2>1, LimiterAssumption DEF IInv
  <2>3. \A j \in Keys : LimitsOf(j)' = LimitsOf(j) /\ TopCount(j)' = TopCount(j)
                           /\ DueRefill(j)' = DueRefill(j)
    BY <2>1 DEF LimitsOf, TopCount, TopRefill, DueRefill
  <2>4. ASSUME NEW j \in Keys
        PROVE  /\ History(granted'[j], clock')
               /\ LimitsOf(j)' # {} =>
                    Tally(j, store'[j], granted'[j], clock', TopCount(j)', DueRefill(j)')
    <3>1. PICK t, h, g : t = clock /\ h = store[j] /\ g = granted[j]
      OBVIOUS
    <3>2. /\ j.duration \in Nat \ {0} /\ Fits(j, h, t) /\ History(g, t)
          /\ t \in Epoch .. MaxClock /\ t + 1 \in Epoch .. MaxClock
      BY <2>2, <3>1, KeyDuration DEF IInv, StoreType, TallyInv
    <3>3. ASSUME NEW top \in Nat, NEW rate \in Nat, Tally(j, h, g, t, top, rate)
          PROVE  History(g, t + 1) /\ Tally(j, h, g, t + 1, top, rate)
      BY <3>2, <3>3, TallyLater
    <3>4. History(g, t + 1)
      BY <3>2, LimiterAssumption DEF History
    <3>5. ASSUME LimitsOf(j) # {}
          PROVE  Tally(j, h, g, t + 1, TopCount(j), DueRefill(j))
      <4>1. PICK top, rate \in Nat : top = TopCount(j) /\ rate = DueRefill(j)
        BY <2>2, <3>2, <3>5, DueFacts
      <4>2. Tally(j, h, g, t, top, rate)
        BY <3>1, <3>5, <4>1 DEF TallyInv
      <4> QED
        BY <3>3, <4>1, <4>2
    <3>6. store'[j] = h /\ granted'[j] = g /\ clock' = t + 1
      BY <2>1, <3>1
    <3> QED
      BY <2>3, <3>4, <3>5, <3>6
  <2> QED
    BY <2>4 DEF TallyInv
<1>5. CASE LoadScripts
  BY <1>1, <1>5 DEF LoadScripts
<1>6. CASE UNCHANGED vars
  BY <1>1, <1>6 DEF vars
<1>7. ASSUME NEW k \in {KeyOf(l) : l \in LimitsIn(policy.quotas)} PROVE k \in Keys
  BY DEF Keys, IInv
<1> QED
  BY <1>2, <1>3, <1>4, <1>5, <1>6, <1>7, TallyRunScript DEF Next
-----------------------------------------------------------------------------
(* For any configurations, clients, faults and resets: the hash of every   *)
(* key agrees with the messages that were granted.                         *)
THEOREM TallyInductive == Spec => [](IInv /\ TallyInv)
<1>1. Init => IInv /\ TallyInv
  BY InitEstablishes, TallyInit
<1>2. IInv /\ TallyInv /\ [Next]_vars => (IInv /\ TallyInv)'
  BY StepPreserves, TallyStep
<1> QED
  BY <1>1, <1>2, PTL DEF Spec

LEMMA UpToSoFar == \A k, t : UpTo(k, t) = SoFar(granted[k], t)
BY DEF UpTo, SoFar

LEMMA InSecondsBefore ==
    ASSUME NEW k, NEW s \in Int, NEW n \in Int
    PROVE  InSeconds(k, s, n) =
             Before(granted[k], TicksPerSecond)[s + n] - Before(granted[k], TicksPerSecond)[s]
BY UpToSoFar DEF InSeconds, Granted, Before

LEMMA GrantedBefore ==
    ASSUME NEW k, NEW s \in Int, NEW t \in Int
    PROVE  Granted(k, s, t) = Before(granted[k], 1)[t + 1] - Before(granted[k], 1)[s]
<1>1. (t + 1) * 1 - 1 = t /\ s * 1 - 1 = s - 1
  OBVIOUS
<1> QED
  BY <1>1, UpToSoFar DEF Granted, Before

(* What the invariant says of a key in use.                                *)
LEMMA TallyInUse ==
    ASSUME IInv, TallyInv, NEW a, NEW k \in KeysInUse(a)
    PROVE  /\ k.algorithm = a /\ k.duration \in Nat \ {0}
           /\ clock \in Nat /\ clock \in Epoch .. MaxClock
           /\ Fits(k, store[k], clock) /\ History(granted[k], clock)
           /\ TopCount(k) \in Nat /\ DueRefill(k) \in Nat
           /\ Tally(k, store[k], granted[k], clock, TopCount(k), DueRefill(k))
<1>1. policy \in Policies /\ clock \in Epoch .. MaxClock /\ clock \in Nat
  BY LimiterAssumption DEF IInv
<1>2. LimitsOf(k) # {} /\ k \in Keys /\ k.algorithm = a /\ k.duration \in Nat \ {0}
  BY <1>1, InUseHasLimits
<1>3. TopCount(k) \in Nat /\ DueRefill(k) \in Nat
  BY <1>1, <1>2, DueFacts
<1> QED
  BY <1>1, <1>2, <1>3 DEF IInv, StoreType, TallyInv

LEMMA FixedBounded == IInv /\ TallyInv => FixedWindowBound
<1> SUFFICES ASSUME IInv, TallyInv, NEW k \in KeysInUse("fixed_window"),
                    NEW s \in Second(Epoch) .. Second(clock)
             PROVE  InSeconds(k, s, k.duration) <= 2 * TopCount(k)
  BY DEF FixedWindowBound
<1>1. PICK d \in Nat \ {0} : d = k.duration
  BY TallyInUse
<1>2. s \in Int /\ s + d \in Int
  BY TallyInUse, SecondFacts, LimiterAssumption
<1>3. PICK P : P = Before(granted[k], TicksPerSecond)
  OBVIOUS
<1>4. FixedTally(P, store[k], d, TopCount(k))
  BY <1>1, <1>3, TallyInUse DEF Tally
<1>5. P[s + d] - P[s] <= 2 * TopCount(k)
  BY <1>2, <1>4 DEF FixedTally
<1> QED
  BY <1>1, <1>2, <1>3, <1>5, InSecondsBefore

LEMMA SlidingBounded == IInv /\ TallyInv => SlidingWindowBound
<1> SUFFICES ASSUME IInv, TallyInv, NEW k \in KeysInUse("sliding_window_counter")
             PROVE  LET d == k.duration
                        e == Second(clock) % d
                        previous == InSeconds(k, Second(clock) - e - d, d)
                    IN InSeconds(k, Second(clock) - d + 1, d) * d
                         <= TopCount(k) * d + (d - 1) + previous * e
  BY DEF SlidingWindowBound
<1>1. PICK d \in Nat \ {0} : d = k.duration
  BY TallyInUse
<1>2. PICK now \in Nat : now = Second(clock)
  BY TallyInUse, SecondFacts
<1>3. PICK e \in Nat : e = now % d
  BY <1>1, <1>2
<1>4. PICK w \in Nat : w = now - e
  BY <1>1, <1>2, <1>3, WindowNow
<1>5. PICK top \in Nat : top = TopCount(k)
  BY TallyInUse
<1>6. PICK P : P = Before(granted[k], TicksPerSecond)
  OBVIOUS
<1>7. Counted(P, now)
  BY <1>2, <1>6, TallyInUse, HistoryCounted, UnitAssumption DEF Second
<1>8. PICK h : h = store[k]
  OBVIOUS
<1>9. SlidingTally(P, h, now, d, top)
  BY <1>1, <1>2, <1>5, <1>6, <1>8, TallyInUse DEF Tally
<1>10. \/ h = Absent
       \/ /\ h \in CounterHashes /\ h.start <= now
          /\ \E m \in Nat : h.start = m * d
  BY <1>1, <1>2, <1>8, TallyInUse DEF Fits, BeginsWindow
<1>11. (P[now + 1] - P[now + 1 - d]) * d
          <= top * d + (d - 1) + (P[w] - P[w - d]) * e
  BY <1>3, <1>4, <1>7, <1>9, <1>10, SlidingMeets
<1>12. now - d + 1 \in Int /\ w - d \in Int /\ d \in Int
         /\ now - d + 1 + d = now + 1 /\ now - d + 1 = now + 1 - d /\ w - d + d = w
  OBVIOUS
<1>13. InSeconds(k, now - d + 1, d) = P[now + 1] - P[now + 1 - d]
  BY <1>6, <1>12, InSecondsBefore
<1>14. InSeconds(k, w - d, d) = P[w] - P[w - d]
  BY <1>6, <1>12, InSecondsBefore
<1>15. InSeconds(k, now - d + 1, d) * d
          <= top * d + (d - 1) + InSeconds(k, now - e - d, d) * e
  BY <1>4, <1>11, <1>13, <1>14
<1> QED
  BY <1>1, <1>2, <1>3, <1>5, <1>15

(* What every bucket keeps, however slow.                                  *)
SlowBucketBound ==
    \A k \in KeysInUse("token_bucket") :
        \A s \in Epoch .. clock : \A t \in s .. clock :
            Granted(k, s, t) * Unit <= TopCount(k) * Unit + (t - s) * DueRefill(k)

LEMMA BucketBounded == IInv /\ TallyInv => SlowBucketBound
<1> SUFFICES ASSUME IInv, TallyInv, NEW k \in KeysInUse("token_bucket"),
                    NEW s \in Epoch .. clock, NEW t \in s .. clock
             PROVE  Granted(k, s, t) * Unit <= TopCount(k) * Unit + (t - s) * DueRefill(k)
  BY DEF SlowBucketBound
<1>1. s \in Int /\ t \in Int /\ s <= t /\ t <= clock
  BY TallyInUse, LimiterAssumption
<1>2. PICK top, rate \in Nat : top = TopCount(k) /\ rate = DueRefill(k)
  BY TallyInUse
<1>3. top * Unit <= ((k.duration + Slack) * TicksPerSecond) * rate
  <2>1. policy \in Policies /\ LimitsOf(k) # {}
    BY InUseHasLimits DEF IInv
  <2> QED
    BY <1>2, <2>1, TallyInUse, DueFacts DEF LifeOf
<1>4. PICK Q : Q = Before(granted[k], 1)
  OBVIOUS
<1>5. BucketTally(Q, store[k], clock, top * Unit, rate)
  BY <1>2, <1>3, <1>4, TallyInUse DEF Tally
<1>6. (Q[t + 1] - Q[s]) * Unit <= top * Unit + (t - s) * rate
  BY <1>1, <1>5 DEF BucketTally
<1> QED
  BY <1>1, <1>2, <1>4, <1>6, GrantedBefore

LEMMA FullBuckets ==
    ASSUME IInv, SlowBucketBound,
           \A p \in Policies : \A l \in LimitsIn(Adapted[p]) : FullInTime(l)
    PROVE  TokenBucketBound
<1> SUFFICES ASSUME NEW k \in KeysInUse("token_bucket") PROVE DueRefill(k) = TopRefill(k)
  BY DEF TokenBucketBound, SlowBucketBound
<1>1. /\ policy \in Policies /\ LimitsOf(k) # {}
      /\ k.algorithm = "token_bucket" /\ k.duration \in Nat \ {0}
  BY InUseHasLimits DEF IInv
<1>2. PICK top, rate \in Nat : top = TopCount(k) /\ rate = TopRefill(k)
  BY <1>1, TopFacts
<1>3. PICK l \in LimitsOf(k) : l.count = top /\ l.refill <= rate
  BY <1>1, <1>2, TopFacts
<1>4. l \in Limits /\ FullInTime(l) /\ l.algorithm = "token_bucket" /\ l.duration = k.duration
  <2>1. policy \in Policies /\ l \in LimitsIn(Adapted[policy]) /\ KeyOf(l) = k
    BY DEF IInv, LimitsOf
  <2>2. PICK q \in Adapted[policy] : \E i \in DOMAIN q : l = q[i]
    BY <2>1 DEF LimitsIn
  <2>3. l \in Limits
    BY <2>1, <2>2, AdaptedLimit
  <2> QED
    BY <1>1, <2>1, <2>3 DEF KeyOf
<1>5. PICK life \in Nat : life = LifeOf(k)
  BY <1>1, UnitAssumption, LimiterAssumption DEF LifeOf
<1>6. PICK full \in Nat : full = top * Unit
  BY UnitAssumption
<1>7. PICK r \in Nat : r = l.refill
  BY <1>4 DEF Limits
<1>8. full <= life * r
  BY <1>3, <1>4, <1>5, <1>6, <1>7 DEF FullInTime, LifeOf
<1>9. life * r <= life * rate
  BY <1>3, <1>7
<1>10. PICK x, y \in Nat : x = life * r /\ y = life * rate
  OBVIOUS
<1>11. full <= life * rate
  BY <1>8, <1>9, <1>10
<1> QED
  BY <1>1, <1>2, <1>5, <1>6, <1>11, DueFacts

(* For any quotas, adaptive multipliers, lengths of a tick, connections,   *)
(* lost or repeated commands and resets: a fixed window grants at most     *)
(* twice its count in any stretch of its duration, and a sliding window    *)
(* its count, rounded up, and the weight that its previous window has lost.*)
THEOREM WindowBoundsAlways == Spec => [](FixedWindowBound /\ SlidingWindowBound)
BY TallyInductive, FixedBounded, SlidingBounded, PTL

(* For any configurations: a bucket that is slower than the life of its    *)
(* hash, which run rate_slow_bucket shows to break the bound its refill    *)
(* rate promises, still keeps the bound of a bucket filled up once per     *)
(* life: forgetting it (expire, limiter.py) costs no more than that.       *)
THEOREM SlowBucketBoundAlways == Spec => []SlowBucketBound
BY TallyInductive, BucketBounded, PTL

(* For any configurations whose buckets fill up while their hashes live:   *)
(* no stretch of time sees more messages than its bound, whatever the      *)
(* algorithm and whatever was repeated, reset, forgotten or shared.  A     *)
(* slower bucket breaks its bound (MCRateSlowBucket).                      *)
THEOREM QuotaBoundAlways ==
    ASSUME \A p \in Policies : \A l \in LimitsIn(Adapted[p]) : FullInTime(l)
    PROVE  Spec => []QuotaBound
<1>1. IInv /\ TallyInv => QuotaBound
  BY FixedBounded, SlidingBounded, BucketBounded, FullBuckets DEF QuotaBound
<1> QED
  BY <1>1, TallyInductive, PTL
===============================================================================
