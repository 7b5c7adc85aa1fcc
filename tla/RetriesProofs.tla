---------------------------- MODULE RetriesProofs ----------------------------
(***************************************************************************)
(* Proofs about the retries, for every sequence of phases, every throttle  *)
(* policy, every set of callers and all bounds.                            *)
(*                                                                         *)
(* The interval grows exponentially and the attempts of the phases add up: *)
(* two recursive functions.  That they exist and what they return is       *)
(* proved by induction over a set of numbers.                              *)
(***************************************************************************)
EXTENDS MCRetries, WellFoundedInduction, TLAPS

(* Induction over a set of numbers.                                        *)
LEMMA SetInduction ==
  ASSUME NEW S \in SUBSET Nat, 0 \in S, \A n \in S : n + 1 \in S
  PROVE  S = Nat
<1>1. SUFFICES ASSUME Nat \ S # {} PROVE FALSE
  OBVIOUS
<1> DEFINE T == Nat \ S
           R == {p \in Nat \X Nat : p[1] < p[2]}
<1>2. PICK x \in T : \A y \in T : ~ (y < x)
  <2>1. R = OpToRel(<, Nat)
    BY DEF OpToRel
  <2>2. IsWellFoundedOn(R, Nat)
    BY <2>1, NatLessThanWellFounded
  <2>3. T \subseteq Nat /\ T # {}
    BY <1>1
  <2> HIDE DEF T, R
  <2>4. \E x \in T : \A y \in T : ~ (<<y, x>> \in R)
    BY <2>2, <2>3, WFMin
  <2>5. QED
    BY <2>3, <2>4 DEF R
<1>3. x - 1 \in Nat /\ x - 1 < x
  BY <1>2
<1>4. x - 1 \in S
  BY <1>2, <1>3
<1>5. QED
  BY <1>2, <1>4

(* Where a recursion over the numbers is known up to n, it is known at n,  *)
(* and two such functions agree.                                           *)
PartOf(base, step, n) ==
  {h \in [0 .. n -> Nat] : h[0] = base /\ \A k \in 1 .. n : h[k] = step[<<k, h[k - 1]>>]}

(* Every part of the recursion exists ...                                  *)
LEMMA PartsExist ==
  ASSUME NEW base \in Nat, NEW step \in [Nat \X Nat -> Nat]
  PROVE  \A n \in Nat : PartOf(base, step, n) # {}
<1> DEFINE S == {n \in Nat : PartOf(base, step, n) # {}}
<1>1. 0 \in S
  <2>1. [k \in 0 .. 0 |-> base] \in PartOf(base, step, 0)
    BY DEF PartOf
  <2>2. QED
    BY <2>1
<1>2. ASSUME NEW n \in S PROVE n + 1 \in S
  <2>1. PICK h \in PartOf(base, step, n) : TRUE
    OBVIOUS
  <2> DEFINE next1 == step[<<n + 1, h[n]>>]
             g == [k \in 0 .. n + 1 |-> IF k = n + 1 THEN next1 ELSE h[k]]
  <2>2. h \in [0 .. n -> Nat] /\ h[0] = base /\ \A k \in 1 .. n : h[k] = step[<<k, h[k - 1]>>]
    BY <2>1 DEF PartOf
  <2>3. next1 \in Nat
    BY <2>2
  <2>4. g \in [0 .. n + 1 -> Nat]
    BY <2>2, <2>3
  <2>5. g[0] = base
    BY <2>2
  <2>6. ASSUME NEW k \in 1 .. n + 1 PROVE g[k] = step[<<k, g[k - 1]>>]
    <3>1. k - 1 \in 0 .. n + 1 /\ k - 1 # n + 1 /\ k \in 0 .. n + 1
      OBVIOUS
    <3>2. g[k - 1] = h[k - 1]
      BY <3>1
    <3>3. CASE k = n + 1
      BY <3>1, <3>2, <3>3
    <3>4. CASE k # n + 1
      <4>1. k \in 1 .. n /\ g[k] = h[k]
        BY <3>1, <3>4
      <4>2. QED
        BY <2>2, <3>2, <4>1
    <3>5. QED
      BY <3>3, <3>4
  <2>7. g \in PartOf(base, step, n + 1)
    BY <2>4, <2>5, <2>6 DEF PartOf
  <2>8. QED
    BY <2>7
<1>3. S \subseteq Nat
  OBVIOUS
<1> HIDE DEF S
<1>4. S = Nat
  BY <1>1, <1>2, <1>3, SetInduction
<1>5. QED
  BY <1>4 DEF S

(* ... and two parts agree where both are defined.                         *)
LEMMA PartsAgree ==
  ASSUME NEW base \in Nat, NEW step \in [Nat \X Nat -> Nat],
         NEW n \in Nat, NEW m \in Nat,
         NEW g \in PartOf(base, step, n), NEW h \in PartOf(base, step, m)
  PROVE  \A k \in Nat : k <= n /\ k <= m => g[k] = h[k]
<1> DEFINE S == {k \in Nat : k <= n /\ k <= m => g[k] = h[k]}
<1>1. 0 \in S
  BY DEF PartOf
<1>2. ASSUME NEW k \in S PROVE k + 1 \in S
  <2>1. SUFFICES ASSUME k + 1 <= n, k + 1 <= m PROVE g[k + 1] = h[k + 1]
    OBVIOUS
  <2>2. k + 1 \in 1 .. n /\ k + 1 \in 1 .. m /\ (k + 1) - 1 = k /\ g[k] = h[k]
    BY <2>1
  <2>3. g[k + 1] = step[<<k + 1, g[k]>>] /\ h[k + 1] = step[<<k + 1, h[k]>>]
    BY <2>2 DEF PartOf
  <2>4. QED
    BY <2>2, <2>3
<1>3. S \subseteq Nat
  OBVIOUS
<1> HIDE DEF S
<1>4. S = Nat
  BY <1>1, <1>2, <1>3, SetInduction
<1>5. QED
  BY <1>4 DEF S

(* A recursion over the numbers defines a function.                        *)
LEMMA RecursionExists ==
  ASSUME NEW base \in Nat, NEW step \in [Nat \X Nat -> Nat]
  PROVE  \E g \in [Nat -> Nat] :
           g[0] = base /\ \A n \in Nat : g[n + 1] = step[<<n + 1, g[n]>>]
<1> DEFINE part(n) == CHOOSE h \in PartOf(base, step, n) : TRUE
           g == [n \in Nat |-> part(n)[n]]
<1>1. \A n \in Nat : part(n) \in PartOf(base, step, n)
  BY PartsExist
<1> HIDE DEF part
<1>2. ASSUME NEW n \in Nat PROVE part(n) \in [0 .. n -> Nat] /\ part(n)[0] = base
  BY <1>1 DEF PartOf
<1>3. g \in [Nat -> Nat] /\ g[0] = base
  BY <1>2
<1>4. ASSUME NEW n \in Nat PROVE g[n + 1] = step[<<n + 1, g[n]>>]
  <2>1. part(n + 1) \in PartOf(base, step, n + 1) /\ part(n) \in PartOf(base, step, n)
    BY <1>1
  <2>2. part(n + 1)[n] = part(n)[n]
    BY <2>1, PartsAgree
  <2>3. n + 1 \in 1 .. n + 1 /\ (n + 1) - 1 = n
    OBVIOUS
  <2>4. part(n + 1)[n + 1] = step[<<n + 1, part(n + 1)[n]>>]
    BY <2>1, <2>3 DEF PartOf
  <2>5. QED
    BY <2>2, <2>4
<1>5. QED
  BY <1>3, <1>4

-----------------------------------------------------------------------------
(* What the recursive functions of RetryPolicy return.                     *)

(* The coefficient is a number, and never less than one.                   *)
LEMMA GrowthAtLeastOne == \A n \in Nat : Growth[n] \in Nat /\ Growth[n] >= 1
<1> DEFINE step == [p \in Nat \X Nat |-> 2 * p[2]]
           Body(f) == [n \in Nat |-> IF n = 0 THEN 1 ELSE 2 * f[n - 1]]
<1>1. PICK g \in [Nat -> Nat] : g[0] = 1 /\ \A n \in Nat : g[n + 1] = step[<<n + 1, g[n]>>]
  <2>1. step \in [Nat \X Nat -> Nat] /\ 1 \in Nat
    OBVIOUS
  <2> HIDE DEF step
  <2>2. QED
    BY <2>1, RecursionExists, Zenon
<1>2. g = Body(g)
  <2>1. ASSUME NEW n \in Nat, n # 0 PROVE g[n] = 2 * g[n - 1]
    <3>1. n - 1 \in Nat /\ (n - 1) + 1 = n
      BY <2>1
    <3>2. QED
      BY <1>1, <3>1
  <2>2. QED
    BY <1>1, <2>1
<1>3. Growth = Body(Growth)
  BY <1>2 DEF Growth
<1>4. Growth[0] = 1 /\ \A n \in Nat : Growth[n + 1] = 2 * Growth[n]
  BY <1>3
<1> DEFINE S == {n \in Nat : Growth[n] \in Nat /\ Growth[n] >= 1}
<1>5. S \subseteq Nat /\ 0 \in S /\ \A n \in S : n + 1 \in S
  BY <1>4
<1> HIDE DEF S
<1>6. S = Nat
  BY <1>5, SetInduction
<1>7. QED
  BY <1>6 DEF S

(* The phases are numbered from one, and each is a policy.                 *)
LEMMA Phases ==
  /\ DOMAIN Policies = 1 .. Len(Policies) /\ Len(Policies) \in Nat \ {0}
  /\ \A k \in DOMAIN Policies : Policies[k] \in Policy
  /\ Final \in Policy
BY PoliciesAssumption DEF Final

(* The phases are numbered from one.                                       *)
LEMMA PhaseNumbers ==
  ASSUME NEW k
  PROVE  k \in DOMAIN Policies <=> k \in Int /\ 1 <= k /\ k <= Len(Policies)
<1>1. DOMAIN Policies = 1 .. Len(Policies) /\ Len(Policies) \in Int
  BY Phases
<1>2. k \in 1 .. Len(Policies) <=> k \in Int /\ 1 <= k /\ k <= Len(Policies)
  BY <1>1
<1>3. QED
  BY <1>1, <1>2

(* The attempts before a phase are those of the phases before it.          *)
LEMMA AttemptsAdd ==
  /\ \A k \in DOMAIN Policies : PreviousAttempts[k] \in Nat
  /\ PreviousAttempts[1] = 0
  /\ \A k \in 1 .. Len(Policies) - 1 :
       PreviousAttempts[k + 1] = PreviousAttempts[k] + Policies[k].attempts
<1> DEFINE Attempts(k) == IF k \in DOMAIN Policies THEN Policies[k].attempts ELSE 0
           step == [p \in Nat \X Nat |-> p[2] + Attempts(p[1])]
           Body(f) == [k \in DOMAIN Policies |->
                         IF k = 1 THEN 0 ELSE f[k - 1] + Policies[k - 1].attempts]
<1>1. PICK g \in [Nat -> Nat] : g[0] = 0 /\ \A n \in Nat : g[n + 1] = step[<<n + 1, g[n]>>]
  <2>1. \A k \in Nat : Attempts(k) \in Nat
    BY Phases DEF Policy
  <2> HIDE DEF Attempts
  <2>2. step \in [Nat \X Nat -> Nat] /\ 0 \in Nat
    BY <2>1
  <2> HIDE DEF step
  <2>3. QED
    BY <2>2, RecursionExists, Zenon
<1> DEFINE f == [k \in DOMAIN Policies |-> g[k - 1]]
<1>2. f = Body(f)
  <2>1. ASSUME NEW k \in DOMAIN Policies, k # 1
        PROVE  g[k - 1] = g[k - 2] + Policies[k - 1].attempts /\ f[k - 1] = g[k - 2]
    <3>2. k \in Int /\ 1 <= k /\ k <= Len(Policies) /\ Len(Policies) \in Int
      BY Phases, PhaseNumbers
    <3>3. /\ k - 2 \in Nat /\ (k - 2) + 1 = k - 1 /\ (k - 1) - 1 = k - 2
          /\ k - 1 \in Int /\ 1 <= k - 1 /\ k - 1 <= Len(Policies)
      <4>1. \A i, len \in Int : 1 <= i /\ i <= len /\ i # 1 =>
              /\ i - 2 \in Nat /\ (i - 2) + 1 = i - 1 /\ (i - 1) - 1 = i - 2
              /\ i - 1 \in Int /\ 1 <= i - 1 /\ i - 1 <= len
        OBVIOUS
      <4>2. QED
        BY <2>1, <3>2, <4>1, Zenon
    <3>1. k - 1 \in DOMAIN Policies
      BY <3>3, PhaseNumbers
    <3>4. g[k - 1] = step[<<k - 1, g[k - 2]>>]
      BY <1>1, <3>3, Zenon
    <3>5. g[k - 2] \in Nat /\ k - 1 \in Nat
      BY <1>1, <3>3
    <3>6. step[<<k - 1, g[k - 2]>>] = g[k - 2] + Policies[k - 1].attempts
      BY <3>1, <3>5
    <3>7. f[k - 1] = g[k - 2]
      BY <3>1, <3>3
    <3>8. QED
      BY <3>4, <3>6, <3>7
  <2>2. f[1] = 0 /\ 1 \in DOMAIN Policies
    BY <1>1, Phases
  <2>3. QED
    BY <1>1, <2>1, <2>2
<1>3. PreviousAttempts = Body(PreviousAttempts)
  BY <1>2 DEF PreviousAttempts
<1>4. PreviousAttempts[1] = 0
  BY <1>3, Phases
<1>5. ASSUME NEW k \in 1 .. Len(Policies) - 1
      PROVE  PreviousAttempts[k + 1] = PreviousAttempts[k] + Policies[k].attempts
  <2>1. k + 1 \in DOMAIN Policies /\ (k + 1) - 1 = k /\ k + 1 # 1
    BY Phases
  <2>2. QED
    BY <1>3, <2>1
<1> DEFINE S == {n \in Nat : n + 1 \in DOMAIN Policies => PreviousAttempts[n + 1] \in Nat}
<1>6. S \subseteq Nat /\ 0 \in S
  BY <1>4
<1>7. ASSUME NEW n \in S PROVE n + 1 \in S
  <2>1. SUFFICES ASSUME (n + 1) + 1 \in DOMAIN Policies
                 PROVE  PreviousAttempts[(n + 1) + 1] \in Nat
    OBVIOUS
  <2>4. (n + 1) + 1 <= Len(Policies) /\ Len(Policies) \in Int
    BY <2>1, Phases, PhaseNumbers
  <2>5. n + 1 \in Int /\ 1 <= n + 1 /\ n + 1 <= Len(Policies) - 1 /\ n + 1 <= Len(Policies)
    BY <2>4
  <2>2. n + 1 \in 1 .. Len(Policies) - 1 /\ n + 1 \in DOMAIN Policies
    BY <2>4, <2>5, PhaseNumbers
  <2>3. PreviousAttempts[n + 1] \in Nat /\ Policies[n + 1].attempts \in Nat
    BY <2>2, Phases DEF Policy
  <2>6. PreviousAttempts[(n + 1) + 1] = PreviousAttempts[n + 1] + Policies[n + 1].attempts
    BY <1>5, <2>2
  <2>7. QED
    BY <2>3, <2>6
<1> HIDE DEF S
<1>8. S = Nat
  BY <1>6, <1>7, SetInduction
<1>9. ASSUME NEW k \in DOMAIN Policies PROVE PreviousAttempts[k] \in Nat
  <2>3. k \in Int /\ 1 <= k
    BY PhaseNumbers
  <2>1. k - 1 \in Nat /\ (k - 1) + 1 = k
    BY <2>3
  <2>2. QED
    BY <1>8, <2>1 DEF S
<1>10. QED
  BY <1>4, <1>5, <1>9

-----------------------------------------------------------------------------
(* The delays.                                                             *)
LEMMA MinOfTwo ==
  ASSUME NEW x \in Int, NEW y \in Int
  PROVE  /\ Min({x, y}) \in {x, y} /\ Min({x, y}) <= x /\ Min({x, y}) <= y
         /\ Max({x, y}) \in {x, y} /\ Max({x, y}) >= x /\ Max({x, y}) >= y
         /\ Concurrent!Min({x, y}) = Min({x, y})
BY DEF Min, Max, Concurrent!Min

(* The first of some phases exists.                                        *)
LEMMA FirstPhase ==
  ASSUME NEW open \in SUBSET (DOMAIN Policies), open # {}
  PROVE  Min(open) \in open
<1>1. open \subseteq Nat
  BY Phases
<1> DEFINE S == {n \in Nat : \A k \in open : k > n}
<1>2. PICK n \in S : n + 1 \notin S
  <2>1. S # Nat
    <3>1. PICK k \in open : TRUE
      OBVIOUS
    <3>2. k \notin S
      BY <1>1, <3>1
    <3>3. QED
      BY <1>1, <3>2
  <2>2. 0 \in S /\ S \subseteq Nat
    BY Phases
  <2> HIDE DEF S
  <2>3. QED
    BY <2>1, <2>2, SetInduction
<1>3. PICK k \in open : ~(k > n + 1)
  BY <1>2
<1>4. \A l \in open : k <= l
  BY <1>1, <1>2, <1>3
<1>5. QED
  BY <1>4 DEF Min

(* The interval is at least the initial one as long as nothing limits it,  *)
(* and never runs past the expiration.                                     *)
LEMMA IntervalBounds ==
  ASSUME NEW p \in Policy, NEW e \in Nat, NEW n \in Nat
  PROVE  /\ Interval(p, e, n) \in Nat
         /\ p.expiration # 0 /\ Interval(p, e, n) > 0 => e + Interval(p, e, n) <= p.expiration
         /\ (p.max = 0 \/ p.max >= p.initial) =>
              \/ Interval(p, e, n) >= p.initial
              \/ p.expiration # 0 /\ e + p.initial > p.expiration
<1> DEFINE raw == p.initial * Growth[n]
           capped == AtMost(raw, p.max)
           left == Max({0, p.expiration - e})
<1>1. p.initial \in Nat /\ p.max \in Nat /\ p.expiration \in Nat
  BY DEF Policy
<1>2. raw \in Nat /\ raw >= p.initial
  <2>1. Growth[n] \in Nat /\ Growth[n] >= 1
    BY GrowthAtLeastOne
  <2>2. \A x, y \in Nat : y >= 1 => x * y \in Nat /\ x * y >= x
    OBVIOUS
  <2>3. QED
    BY <1>1, <2>1, <2>2
<1>3. capped \in Nat /\ (p.max = 0 \/ p.max >= p.initial => capped >= p.initial)
  <2> HIDE DEF raw
  <2>1. QED
    BY <1>1, <1>2 DEF AtMost
<1>4. left \in Nat /\ (left > 0 => left = p.expiration - e) /\ left >= p.expiration - e
  <2> DEFINE rest == p.expiration - e
  <2>1. rest \in Int /\ 0 \in Int
    BY <1>1
  <2> HIDE DEF rest
  <2>2. Max({0, rest}) \in {0, rest} /\ Max({0, rest}) >= 0 /\ Max({0, rest}) >= rest
    BY <2>1, MinOfTwo
  <2>3. Max({0, rest}) \in Nat /\ (Max({0, rest}) > 0 => Max({0, rest}) = rest)
    BY <2>1, <2>2
  <2>4. QED
    BY <2>2, <2>3 DEF rest
<1>5. Interval(p, e, n) = IF p.expiration # 0 THEN Min({capped, left}) ELSE capped
  BY DEF Interval
<1> HIDE DEF capped, left
<1>6. Min({capped, left}) \in {capped, left} /\ Min({capped, left}) <= left
  <2>1. capped \in Int /\ left \in Int
    BY <1>3, <1>4
  <2>2. QED
    BY <2>1, MinOfTwo
<1>7. QED
  BY <1>1, <1>3, <1>4, <1>5, <1>6

(* A phase is done or answers delays within its interval.                  *)
LEMMA PhaseDelays ==
  ASSUME NEW p \in Policy, NEW e \in Nat, NEW n \in Int
  PROVE  \/ /\ ComputeNextDelay(p, e, n) = {done}
            /\ Exhausted(p, e, n) \/ n < 0 \/ Interval(p, e, n) < p.initial \/ p.initial = 0
         \/ /\ n \in Nat
            /\ \A d \in ComputeNextDelay(p, e, n) :
                 d \in Nat /\ (p.expiration # 0 => e + d <= p.expiration)
<1>1. CASE Exhausted(p, e, n) \/ n < 0 \/ Interval(p, e, n) < p.initial \/ p.initial = 0
  BY <1>1 DEF ComputeNextDelay
<1>2. CASE ~(Exhausted(p, e, n) \/ n < 0 \/ Interval(p, e, n) < p.initial \/ p.initial = 0)
  <2> DEFINE x == Interval(p, e, n)
  <2>1. n \in Nat /\ p.initial \in Nat \ {0} /\ ~(x < p.initial)
    BY <1>2 DEF Policy
  <2>2. ComputeNextDelay(p, e, n) = {(4 * x) \div 5 + j : j \in 0 .. (Max({1, x \div 5}) - 1)}
    BY <1>2 DEF ComputeNextDelay
  <2>5. x \in Nat /\ (p.expiration # 0 /\ x > 0 => e + x <= p.expiration)
    BY <2>1, IntervalBounds
  <2> HIDE DEF x
  <2>6. x > 0
    BY <2>1, <2>5
  <2>3. ASSUME NEW d \in ComputeNextDelay(p, e, n) PROVE d \in Nat /\ d <= x
    <3>1. PICK j \in 0 .. (Max({1, x \div 5}) - 1) : d = (4 * x) \div 5 + j
      BY <2>2, <2>3
    <3>6. x \div 5 \in Nat
      BY <2>5
    <3> DEFINE y == x \div 5
    <3>7. y \in Nat /\ y \in Int /\ 1 \in Int
      BY <3>6
    <3> HIDE DEF y
    <3>2. Max({1, y}) \in {1, y} /\ y \in Nat
      BY <3>7, MinOfTwo
    <3>3. j \in Nat /\ (j = 0 \/ j <= y)
      BY <3>1, <3>2 DEF y
    <3>4. (4 * x) \div 5 \in Nat /\ (4 * x) \div 5 + x \div 5 <= x
      BY <2>5
    <3>5. QED
      BY <2>5, <3>1, <3>2, <3>3, <3>4, <3>6 DEF y
  <2>4. QED
    BY <2>1, <2>3, <2>5, <2>6 DEF Policy
<1>3. QED
  BY <1>1, <1>2

(* What several phases answer is the answer of one of them.                *)
LEMMA PolicyDelays ==
  ASSUME NEW e \in 0 .. MaxClock, NEW n \in 0 .. MaxCount, NEW d \in Delays[e][n]
  PROVE  \/ /\ d = done
            /\ \A k \in DOMAIN Policies :
                 ComputeNextDelay(Policies[k], e, n - PreviousAttempts[k]) = {done}
         \/ /\ d \in Nat
            /\ \E k \in DOMAIN Policies :
                 Policies[k].expiration # 0 => e + d <= Policies[k].expiration
<1> DEFINE delays(k) == ComputeNextDelay(Policies[k], e, n - PreviousAttempts[k])
           open == {k \in DOMAIN Policies : delays(k) # {done}}
<1>1. e \in Nat /\ n \in Nat /\ \A k \in DOMAIN Policies : n - PreviousAttempts[k] \in Int
  BY BoundsAssumption, AttemptsAdd
<1>2. d \in IF open = {} THEN {done} ELSE delays(Min(open))
  BY DEF Delays, NextDelays
<1>3. CASE open = {}
  BY <1>2, <1>3
<1>4. CASE open # {}
  <2>1. Min(open) \in open /\ d \in delays(Min(open))
    BY <1>2, <1>4, FirstPhase
  <2>2. Policies[Min(open)] \in Policy
    BY <2>1, Phases
  <2>3. d \in Nat /\ (Policies[Min(open)].expiration # 0 => e + d <= Policies[Min(open)].expiration)
    BY <1>1, <2>1, <2>2, PhaseDelays
  <2>4. QED
    BY <2>1, <2>3
<1>5. QED
  BY <1>3, <1>4

-----------------------------------------------------------------------------
(* Type correctness of both users of the policies, and the callers of the  *)
(* ConcurrentRetrier: only the holder of the mutex sleeps, and only after  *)
(* a failure.                                                              *)

(* Whoever sleeps holds the mutex, so that no success can be reported.     *)
SleeperHolds == \A c \in Caller : call[c] = "sleep" => holder = c /\ failures > 0

RetriesInv == MCTypeOK /\ SleeperHolds

(* A counter that saturates stays in its bounds.                           *)
LEMMA CountedInBounds ==
  ASSUME NEW n \in 0 .. MaxCount
  PROVE  Counted(n) \in 0 .. MaxCount /\ Counted(n) \in {n + 1, MaxCount}
<1>1. n + 1 \in Int /\ MaxCount \in Int /\ 0 <= n + 1 /\ 0 <= MaxCount
  BY BoundsAssumption
<1>2. Min({n + 1, MaxCount}) \in {n + 1, MaxCount} /\ Min({n + 1, MaxCount}) <= MaxCount
  BY <1>1, MinOfTwo
<1>3. QED
  BY <1>1, <1>2 DEF Counted

(* So does the number of failures of the callers.                          *)
LEMMA CallersCount == \A n \in 0 .. MaxCount : Concurrent!Counted(n) \in 0 .. MaxCount
<1> SUFFICES ASSUME NEW n \in 0 .. MaxCount PROVE Concurrent!Counted(n) = Counted(n)
  BY CountedInBounds
<1>1. n + 1 \in Int /\ MaxCount \in Int
  BY BoundsAssumption
<1>2. QED
  BY <1>1, MinOfTwo DEF Counted, Concurrent!Counted

(* So does the elapsed time.                                               *)
LEMMA AfterInBounds ==
  ASSUME elapsed \in 0 .. MaxClock, NEW d \in Nat
  PROVE  /\ After(d) \in 0 .. MaxClock /\ After(d) <= elapsed + d
         /\ After(d) = elapsed + d \/ After(d) = MaxClock
<1>1. elapsed + d \in Int /\ MaxClock \in Int /\ 0 <= elapsed + d /\ 0 <= MaxClock
  BY BoundsAssumption
<1>2. /\ Min({elapsed + d, MaxClock}) \in {elapsed + d, MaxClock}
      /\ Min({elapsed + d, MaxClock}) <= MaxClock /\ Min({elapsed + d, MaxClock}) <= elapsed + d
  BY <1>1, MinOfTwo
<1>3. QED
  BY <1>1, <1>2 DEF After

(* No attempt was made, nobody waits.                                      *)
LEMMA RetriesInit == MCInit => RetriesInv
BY BoundsAssumption
   DEF MCInit, Init, RetriesInv, MCTypeOK, TypeOK, SleeperHolds, Concurrent!CrInit,
       Concurrent!CrTypeOK

(* What a failed attempt leaves: the attempt is counted, and Do sleeps for *)
(* what the policy answers, or longer after a throttle error, or ends.     *)
LEMMA FailureEffect ==
  ASSUME TypeOK, OpFailsRetryably
  PROVE  /\ elapsed' \in 0 .. MaxClock /\ attempt' = Counted(attempt)
         /\ attempt' \in 0 .. MaxCount
         /\ throttles' \in 0 .. MaxCount /\ next' \in Nat
         /\ \E delay \in Delays[elapsed'][attempt] :
              \/ /\ delay = done /\ pc' = "exhausted"
              \/ /\ delay \in Nat /\ pc' = "sleep"
                 /\ (throttles' = throttles /\ next' = delay) \/ throttles' = Counted(throttles)
<1>1. PICK d \in OpTime :
        /\ elapsed' = After(d)
        /\ attempt' = Counted(attempt)
        /\ \E delay \in Delays[elapsed'][attempt] :
             \/ delay = done /\ pc' = "exhausted" /\ UNCHANGED <<throttles, next>>
             \/ delay # done /\ pc' = "sleep" /\ next' = delay /\ UNCHANGED throttles
             \/ /\ delay # done /\ pc' = "sleep"
                /\ \E t \in ThrottleDelays[elapsed'][throttles] : next' = Max({delay, t})
                /\ throttles' = Counted(throttles)
  BY DEF OpFailsRetryably
<1>2. elapsed' \in 0 .. MaxClock /\ d \in Nat
  BY <1>1, AfterInBounds, ThrottleAssumption DEF TypeOK
<1>3. attempt \in 0 .. MaxCount /\ throttles \in 0 .. MaxCount /\ next \in Nat
  BY DEF TypeOK
<1>4. Counted(attempt) \in 0 .. MaxCount /\ Counted(throttles) \in 0 .. MaxCount
  BY <1>3, CountedInBounds
<1>5. PICK delay \in Delays[elapsed'][attempt] :
        \/ delay = done /\ pc' = "exhausted" /\ UNCHANGED <<throttles, next>>
        \/ delay # done /\ pc' = "sleep" /\ next' = delay /\ UNCHANGED throttles
        \/ /\ delay # done /\ pc' = "sleep"
           /\ \E t \in ThrottleDelays[elapsed'][throttles] : next' = Max({delay, t})
           /\ throttles' = Counted(throttles)
  BY <1>1
<1>6. delay = done \/ delay \in Nat
  BY <1>2, <1>3, PolicyDelays
<1>7. ASSUME NEW t \in ThrottleDelays[elapsed'][throttles], next' = Max({delay, t}), delay \in Nat
      PROVE  next' \in Nat
  <2>1. t \in ComputeNextDelay(ThrottlePolicy, elapsed', throttles)
    BY <1>2, <1>3 DEF ThrottleDelays
  <2>2. elapsed' \in Nat /\ throttles \in Int
    BY <1>2, <1>3
  <2>3. t = -1 \/ t \in Nat
    BY <2>1, <2>2, ThrottleAssumption, PhaseDelays DEF done
  <2>4. t \in Int /\ delay \in Int
    BY <1>7, <2>3
  <2>5. next' \in {delay, t} /\ next' >= delay
    BY <1>7, <2>4, MinOfTwo
  <2>6. QED
    BY <1>7, <2>4, <2>5
<1>8. next' \in Nat /\ throttles' \in 0 .. MaxCount
  BY <1>3, <1>4, <1>5, <1>6, <1>7
<1>9. QED
  BY <1>1, <1>2, <1>4, <1>5, <1>6, <1>8

(* Every step of Do keeps the types.                                       *)
LEMMA DoStep == TypeOK /\ Next => TypeOK'
<1> SUFFICES ASSUME TypeOK, Next PROVE TypeOK'
  OBVIOUS
<1>1. CASE OpSucceeds \/ OpFails
  <2>1. PICK d \in OpTime : elapsed' = After(d)
    BY <1>1 DEF OpSucceeds, OpFails
  <2>2. elapsed' \in 0 .. MaxClock
    BY <2>1, AfterInBounds, ThrottleAssumption DEF TypeOK
  <2>3. QED
    BY <1>1, <2>2 DEF OpSucceeds, OpFails, TypeOK
<1>2. CASE OpFailsRetryably
  BY <1>2, FailureEffect DEF TypeOK
<1>3. CASE Wake
  <2>1. elapsed' = After(next) /\ elapsed' \in 0 .. MaxClock
    BY <1>3, AfterInBounds DEF Wake, TypeOK
  <2>2. QED
    BY <1>3, <2>1 DEF Wake, TypeOK
<1>4. CASE Cancel
  BY <1>4 DEF Cancel, TypeOK
<1>5. QED
  BY <1>1, <1>2, <1>3, <1>4 DEF Next

(* Every step of a caller keeps the types, and a sleeper the mutex.        *)
LEMMA CallersStep ==
  Concurrent!CrTypeOK /\ SleeperHolds /\ Concurrent!CrNext => Concurrent!CrTypeOK' /\ SleeperHolds'
<1> SUFFICES ASSUME Concurrent!CrTypeOK, SleeperHolds, Concurrent!CrNext
             PROVE  Concurrent!CrTypeOK' /\ SleeperHolds'
  OBVIOUS
<1> USE DEF Concurrent!CrTypeOK, SleeperHolds
<1>1. CASE Concurrent!Passes
  <2>1. sinceSuccess' \in 0 .. MaxClock
    <3> DEFINE later == sinceSuccess + MaxClock \div 4
    <3>1. later \in Int /\ MaxClock \in Int /\ 0 <= later /\ 0 <= MaxClock
      BY BoundsAssumption
    <3>2. sinceSuccess' = Concurrent!Min({later, MaxClock})
      BY <1>1 DEF Concurrent!Passes
    <3> HIDE DEF later
    <3>3. sinceSuccess' \in {later, MaxClock} /\ sinceSuccess' <= MaxClock
      BY <3>1, <3>2, MinOfTwo
    <3>4. QED
      BY <3>1, <3>3
  <2>2. QED
    BY <1>1, <2>1 DEF Concurrent!Passes
<1>2. ASSUME NEW c \in Caller,
             Concurrent!Throttle(c) \/ Concurrent!Report(c) \/ Concurrent!Proceeds(c)
      PROVE  Concurrent!CrTypeOK' /\ SleeperHolds'
  <2>1. CASE Concurrent!Throttle(c) \/ Concurrent!Report(c)
    BY <2>1 DEF Concurrent!Throttle, Concurrent!Report, Concurrent!To, Concurrent!Calls
  <2>2. CASE Concurrent!Locked(c)
    <3>1. Concurrent!Counted(tries) \in 0 .. MaxCount
      BY CallersCount
    <3>2. tries' \in 0 .. MaxCount
      BY <2>2, <3>1 DEF Concurrent!Locked
    <3>3. \A d \in Caller : call[d] # "sleep"
      BY <2>2, CallersAssumption DEF Concurrent!Locked, Concurrent!Unlocked
    <3>4. \/ Concurrent!To(c, "none") /\ holder' = holder
          \/ Concurrent!To(c, "sleep") /\ holder' = c /\ failures > 0
      BY <2>2 DEF Concurrent!Locked, Concurrent!StillFailing
    <3>5. failures' = failures /\ sinceSuccess' = sinceSuccess
      BY <2>2 DEF Concurrent!Locked
    <3>6. QED
      BY <3>2, <3>3, <3>4, <3>5 DEF Concurrent!To
  <2>3. CASE Concurrent!Wakes(c)
    <3>1. \A d \in Caller : call[d] = "sleep" => d = c
      BY <2>3 DEF Concurrent!Wakes
    <3>2. QED
      BY <2>3, <3>1 DEF Concurrent!Wakes, Concurrent!To, Concurrent!Unlocks
  <2>4. CASE Concurrent!Succeeded(c)
    <3>1. \A d \in Caller : call[d] # "sleep"
      BY <2>4, CallersAssumption DEF Concurrent!Succeeded, Concurrent!Unlocked
    <3>2. 0 \in 0 .. MaxClock /\ 0 \in 0 .. MaxCount
      BY BoundsAssumption
    <3>3. QED
      BY <2>4, <3>1, <3>2 DEF Concurrent!Succeeded, Concurrent!To
  <2>5. CASE Concurrent!Failed(c)
    <3>1. \A d \in Caller : call[d] # "sleep"
      BY <2>5, CallersAssumption DEF Concurrent!Failed, Concurrent!Unlocked
    <3>2. Concurrent!Counted(failures) \in 0 .. MaxCount
      BY CallersCount
    <3>3. QED
      BY <2>5, <3>1, <3>2 DEF Concurrent!Failed, Concurrent!To
  <2>6. QED
    BY <1>2, <2>1, <2>2, <2>3, <2>4, <2>5 DEF Concurrent!Proceeds
<1>3. QED
  BY <1>1, <1>2 DEF Concurrent!CrNext

(* A step of either keeps what holds of both.                              *)
LEMMA RetriesStep == RetriesInv /\ [MCNext]_<<vars, Concurrent!crVars, user>> => RetriesInv'
<1> SUFFICES ASSUME RetriesInv, [MCNext]_<<vars, Concurrent!crVars, user>> PROVE RetriesInv'
  OBVIOUS
<1>1. CASE Next /\ UNCHANGED <<sinceSuccess, tries, call, holder, failures>>
  <2>1. TypeOK'
    BY <1>1, DoStep DEF RetriesInv, MCTypeOK
  <2>2. QED
    BY <1>1, <2>1 DEF RetriesInv, MCTypeOK, SleeperHolds, Concurrent!CrTypeOK
<1>2. CASE Concurrent!CrNext /\ UNCHANGED vars
  <2>1. Concurrent!CrTypeOK' /\ SleeperHolds'
    BY <1>2, CallersStep DEF RetriesInv, MCTypeOK
  <2>2. QED
    BY <1>2, <2>1 DEF RetriesInv, MCTypeOK, TypeOK, vars
<1>3. CASE UNCHANGED <<vars, Concurrent!crVars, user>>
  BY <1>3 DEF RetriesInv, MCTypeOK, TypeOK, SleeperHolds, Concurrent!CrTypeOK, vars,
              Concurrent!crVars
<1>4. QED
  BY <1>1, <1>2, <1>3 DEF MCNext

(* The invariant holds in every reachable state.                           *)
LEMMA RetriesAlways == MCSpec => []RetriesInv
BY RetriesInit, RetriesStep, PTL DEF MCSpec

(* Type correctness of ThrottleRetry.Do and of the ConcurrentRetrier: in   *)
(* particular, no delay that is slept is negative.                         *)
THEOREM RetriesTypeCorrect == MCSpec => []MCTypeOK
BY RetriesAlways, PTL DEF RetriesInv

(* Throttle looks at failureCount again under the lock it sleeps with: no  *)
(* caller sleeps after a success was reported.                             *)
THEOREM SleepersFollowFailures == MCSpec => []SleepsAfterFailure
<1>1. RetriesInv => SleepsAfterFailure
  BY DEF RetriesInv, SleeperHolds, SleepsAfterFailure, Concurrent!SleepsAfterFailure
<1>2. QED
  BY <1>1, RetriesAlways, PTL

-----------------------------------------------------------------------------
(* The expiration.  A phase that never expires, or later than the last     *)
(* one, sleeps past the last one's expiration; every policy the repository *)
(* builds is a single phase.                                               *)
ExpireInTime ==
  Final.expiration # 0 => \A k \in DOMAIN Policies : Policies[k].expiration \in 1 .. Final.expiration

(* The sleep ends in time as well, which makes it inductive.               *)
SleepsInTime ==
  throttles = 0 /\ Final.expiration # 0 =>
    /\ pc = "op" => elapsed <= Final.expiration
    /\ pc = "sleep" => elapsed + next <= Final.expiration

(* Nobody sleeps at first.                                                 *)
LEMMA InTimeInit == MCInit => SleepsInTime
BY Phases DEF MCInit, Init, SleepsInTime, Policy

(* A sleep that begins ends before the expiration.                         *)
LEMMA InTimeStep ==
  ASSUME ExpireInTime, RetriesInv, SleepsInTime, [MCNext]_<<vars, Concurrent!crVars, user>>
  PROVE  SleepsInTime'
<1>0. TypeOK /\ Final.expiration \in Nat
  BY Phases DEF RetriesInv, MCTypeOK, Policy
<1>1. CASE OpSucceeds \/ OpFails
  BY <1>1 DEF OpSucceeds, OpFails, SleepsInTime
<1>2. CASE OpFailsRetryably
  <2>1. PICK delay \in Delays[elapsed'][attempt] :
          \/ delay = done /\ pc' = "exhausted"
          \/ /\ delay \in Nat /\ pc' = "sleep"
             /\ (throttles' = throttles /\ next' = delay) \/ throttles' = Counted(throttles)
    BY <1>0, <1>2, FailureEffect
  <2>2. SUFFICES ASSUME throttles' = 0, Final.expiration # 0, pc' = "sleep"
                 PROVE  elapsed' + next' <= Final.expiration
    BY <2>1 DEF SleepsInTime
  <2>3. elapsed' \in 0 .. MaxClock /\ attempt \in 0 .. MaxCount /\ throttles \in 0 .. MaxCount
    BY <1>0, <1>2, FailureEffect DEF TypeOK
  <2>4. delay \in Nat /\ throttles' \in {throttles, Counted(throttles)}
    BY <2>1, <2>2
  <2>5. PICK k \in DOMAIN Policies :
          Policies[k].expiration # 0 => elapsed' + delay <= Policies[k].expiration
    <3>1. delay # done
      BY <2>4 DEF done
    <3>2. QED
      BY <2>3, <3>1, PolicyDelays
  <2>6. elapsed' + delay <= Final.expiration
    <3>1. Policies[k].expiration \in 1 .. Final.expiration
      BY <2>2 DEF ExpireInTime
    <3>2. QED
      BY <1>0, <2>3, <2>4, <2>5, <3>1
  <2>7. next' = delay
    <3>1. Counted(throttles) # 0
      <4>1. Counted(throttles) \in {throttles + 1, MaxCount}
        BY <2>3, CountedInBounds
      <4>2. QED
        BY <2>3, <4>1, BoundsAssumption
    <3>2. QED
      BY <2>1, <2>2, <3>1
  <2>8. QED
    BY <2>6, <2>7
<1>3. CASE Wake
  <2>1. elapsed' = After(next) /\ pc' = "op" /\ pc = "sleep" /\ throttles' = throttles
    BY <1>3 DEF Wake
  <2>2. elapsed' <= elapsed + next /\ elapsed' \in Int /\ elapsed + next \in Int
    BY <1>0, <2>1, AfterInBounds DEF TypeOK
  <2>3. QED
    BY <1>0, <2>1, <2>2 DEF SleepsInTime
<1>4. CASE Cancel
  BY <1>4 DEF Cancel, SleepsInTime
<1>5. CASE UNCHANGED vars
  BY <1>5 DEF vars, SleepsInTime
<1>6. QED
  BY <1>1, <1>2, <1>3, <1>4, <1>5 DEF MCNext, Next, vars

(* ThrottleRetry.Do begins no attempt after the absolute expiration        *)
(* (SetExpirationInterval) unless a throttle error came in between.        *)
THEOREM ExpirationIsAbsolute ==
  ASSUME ExpireInTime
  PROVE  MCSpec => []NoAttemptAfterExpiration
<1>1. RetriesInv /\ SleepsInTime /\ [MCNext]_<<vars, Concurrent!crVars, user>> => SleepsInTime'
  BY InTimeStep
<1>2. SleepsInTime => NoAttemptAfterExpiration
  BY DEF SleepsInTime, NoAttemptAfterExpiration
<1>3. QED
  BY <1>1, <1>2, InTimeInit, RetriesAlways, PTL DEF MCSpec

-----------------------------------------------------------------------------
(* The end of the attempts.  Every interval has room to begin with, and    *)
(* each phase but the last is ended by its attempts, or no earlier than    *)
(* the last one.  The attempts are counted far enough.                     *)
PhasesFit ==
  /\ \A k \in DOMAIN Policies :
       /\ Policies[k].initial # 0
       /\ Policies[k].max = 0 \/ Policies[k].max >= Policies[k].initial
       /\ \/ Policies[k].expiration = 0
          \/ Final.expiration \in 1 .. Policies[k].expiration /\ Policies[k].initial <= Final.initial
  /\ PreviousAttempts[Len(Policies)] + Final.attempts < MaxCount

(* No room is left for an interval of the last phase.                      *)
OutOfTime(e) == Final.expiration # 0 /\ e + Final.initial > Final.expiration

(* A phase that is done was used up, or no time is left for the last one.  *)
LEMMA DoneMeansUsedUp ==
  ASSUME NEW k \in DOMAIN Policies, NEW e \in Nat, NEW n \in Nat,
         PhasesFit, ComputeNextDelay(Policies[k], e, n) = {done}
  PROVE  \/ Policies[k].attempts # 0 /\ n >= Policies[k].attempts
         \/ OutOfTime(e)
<1> DEFINE p == Policies[k]
<1>1. p \in Policy /\ Final \in Policy
  BY Phases
<1>2. /\ p.initial # 0 /\ (p.max = 0 \/ p.max >= p.initial)
      /\ \/ p.expiration = 0
         \/ Final.expiration \in 1 .. p.expiration /\ p.initial <= Final.initial
  BY DEF PhasesFit
<1> HIDE DEF p
<1>3. Exhausted(p, e, n) \/ Interval(p, e, n) < p.initial
  <2>1. ComputeNextDelay(p, e, n) = {done}
    BY DEF p
  <2>2. done \notin Nat
    BY DEF done
  <2>3. QED
    BY <1>1, <1>2, <2>1, <2>2, PhaseDelays
<1>4. /\ p.initial \in Nat /\ p.expiration \in Nat /\ Final.initial \in Nat /\ Final.expiration \in Nat
      /\ Interval(p, e, n) \in Nat
  BY <1>1, IntervalBounds DEF Policy
<1>5. CASE p.attempts # 0 /\ n >= p.attempts
  BY <1>5 DEF p
<1>6. CASE p.expiration # 0 /\ e + p.initial > p.expiration
  BY <1>2, <1>4, <1>6 DEF OutOfTime
<1>7. CASE p.expiration # 0 /\ e > p.expiration
  BY <1>4, <1>6, <1>7
<1>8. CASE Interval(p, e, n) < p.initial
  <2>1. p.expiration # 0 /\ e + p.initial > p.expiration
    <3>1. \/ Interval(p, e, n) >= p.initial
          \/ p.expiration # 0 /\ e + p.initial > p.expiration
      BY <1>1, <1>2, IntervalBounds
    <3>2. QED
      BY <1>4, <1>8, <3>1
  <2>2. QED
    BY <1>6, <2>1
<1>9. QED
  BY <1>3, <1>5, <1>7, <1>8 DEF Exhausted

(* When all phases are done, each was used up before the next one.         *)
LEMMA AllUsedUp ==
  ASSUME PhasesFit, NEW e \in Nat, NEW n \in Nat, ~OutOfTime(e),
         \A k \in DOMAIN Policies :
           ComputeNextDelay(Policies[k], e, n - PreviousAttempts[k]) = {done}
  PROVE  /\ Final.attempts # 0
         /\ n >= PreviousAttempts[Len(Policies)] + Final.attempts
<1> DEFINE Reached(k) == n >= PreviousAttempts[k]
           S == {m \in Nat : m + 1 \in DOMAIN Policies => Reached(m + 1)}
<1>1. ASSUME NEW k \in DOMAIN Policies, Reached(k)
      PROVE  Policies[k].attempts # 0 /\ n >= PreviousAttempts[k] + Policies[k].attempts
  <2>1. n - PreviousAttempts[k] \in Nat /\ PreviousAttempts[k] \in Nat
    BY <1>1, AttemptsAdd
  <2>2. Policies[k].attempts # 0 /\ n - PreviousAttempts[k] >= Policies[k].attempts
    BY <2>1, DoneMeansUsedUp
  <2>3. Policies[k].attempts \in Nat
    BY Phases DEF Policy
  <2>4. QED
    BY <2>1, <2>2, <2>3
<1>2. 0 \in S /\ S \subseteq Nat
  BY AttemptsAdd
<1>3. ASSUME NEW m \in S PROVE m + 1 \in S
  <2>1. SUFFICES ASSUME (m + 1) + 1 \in DOMAIN Policies PROVE Reached((m + 1) + 1)
    OBVIOUS
  <2>2. (m + 1) + 1 <= Len(Policies) /\ Len(Policies) \in Int
    BY <2>1, Phases, PhaseNumbers
  <2>3. m + 1 \in Int /\ 1 <= m + 1 /\ m + 1 <= Len(Policies) - 1 /\ m + 1 <= Len(Policies)
    BY <2>2
  <2>4. m + 1 \in 1 .. Len(Policies) - 1 /\ m + 1 \in DOMAIN Policies
    BY <2>2, <2>3, PhaseNumbers
  <2>5. n >= PreviousAttempts[m + 1] + Policies[m + 1].attempts
    BY <1>1, <2>4
  <2>6. PreviousAttempts[(m + 1) + 1] = PreviousAttempts[m + 1] + Policies[m + 1].attempts
    BY <2>4, AttemptsAdd
  <2>7. QED
    BY <2>5, <2>6
<1> HIDE DEF S
<1>4. S = Nat
  BY <1>2, <1>3, SetInduction
<1>5. Len(Policies) \in DOMAIN Policies /\ Reached(Len(Policies))
  <2>1. Len(Policies) \in Int /\ 1 <= Len(Policies) /\ Len(Policies) - 1 \in Nat
        /\ (Len(Policies) - 1) + 1 = Len(Policies)
    BY Phases
  <2>2. Len(Policies) \in DOMAIN Policies
    BY <2>1, PhaseNumbers
  <2>3. QED
    BY <1>4, <2>1, <2>2 DEF S
<1>6. QED
  BY <1>1, <1>5 DEF Final

(* No step ends Do before the attempts are used up.                        *)
LEMMA UsedUpStep ==
  ASSUME PhasesFit, RetriesInv, EndsWhenUsedUp, [MCNext]_<<vars, Concurrent!crVars, user>>
  PROVE  EndsWhenUsedUp'
<1>0. TypeOK
  BY DEF RetriesInv, MCTypeOK
<1>1. CASE OpSucceeds \/ OpFails \/ Wake \/ Cancel
  BY <1>1 DEF OpSucceeds, OpFails, Wake, Cancel, EndsWhenUsedUp
<1>2. CASE OpFailsRetryably
  <2>1. SUFFICES ASSUME pc' = "exhausted", ~OutOfTime(elapsed')
                 PROVE  Final.attempts # 0
                        /\ attempt' > PreviousAttempts[Len(Policies)] + Final.attempts
    BY DEF EndsWhenUsedUp, OutOfTime
  <2>2. elapsed' \in 0 .. MaxClock /\ attempt \in 0 .. MaxCount /\ attempt' = Counted(attempt)
        /\ done \in Delays[elapsed'][attempt]
    BY <1>0, <1>2, <2>1, FailureEffect DEF TypeOK
  <2>3. \A k \in DOMAIN Policies :
          ComputeNextDelay(Policies[k], elapsed', attempt - PreviousAttempts[k]) = {done}
    <3>1. done \notin Nat
      BY DEF done
    <3>2. QED
      BY <2>2, <3>1, PolicyDelays
  <2> DEFINE used == PreviousAttempts[Len(Policies)] + Final.attempts
  <2>4. Final.attempts # 0 /\ attempt >= used
    <3> DEFINE e == elapsed'
               n == attempt
    <3>1. e \in Nat /\ n \in Nat /\ ~OutOfTime(e)
      BY <2>1, <2>2
    <3>2. \A k \in DOMAIN Policies :
            ComputeNextDelay(Policies[k], e, n - PreviousAttempts[k]) = {done}
      BY <2>3
    <3> HIDE DEF e, n
    <3>3. Final.attempts # 0 /\ n >= PreviousAttempts[Len(Policies)] + Final.attempts
      BY <3>1, <3>2, AllUsedUp
    <3>4. QED
      BY <3>3 DEF n
  <2>5. used < MaxCount /\ used \in Int /\ MaxCount \in Int
    <3>1. Len(Policies) \in DOMAIN Policies
      BY Phases
    <3>2. QED
      BY <3>1, AttemptsAdd, Phases, BoundsAssumption DEF PhasesFit, Policy
  <2>6. attempt' \in {attempt + 1, MaxCount}
    BY <2>2, CountedInBounds
  <2> HIDE DEF used
  <2>7. attempt' > used
    BY <2>2, <2>4, <2>5, <2>6
  <2>8. QED
    BY <2>4, <2>7 DEF used
<1>3. CASE UNCHANGED vars
  BY <1>3 DEF vars, EndsWhenUsedUp
<1>4. QED
  BY <1>1, <1>2, <1>3 DEF MCNext, Next, vars

(* A MultiPhasesRetryPolicy hands over from phase to phase: Do gives up    *)
(* only when the attempts of the last one are used up too, or no time is   *)
(* left for it.                                                            *)
THEOREM PhasesHandOver ==
  ASSUME PhasesFit
  PROVE  MCSpec => []EndsWhenUsedUp
<1>1. RetriesInv /\ EndsWhenUsedUp /\ [MCNext]_<<vars, Concurrent!crVars, user>> => EndsWhenUsedUp'
  BY UsedUpStep
<1>2. MCInit => EndsWhenUsedUp
  BY DEF MCInit, Init, EndsWhenUsedUp
<1>3. QED
  BY <1>1, <1>2, RetriesAlways, PTL DEF MCSpec
=============================================================================
