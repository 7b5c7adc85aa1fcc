---------------------------- MODULE RetryPolicy -----------------------------
(***************************************************************************)
(* The delay that an ExponentialRetryPolicy or a MultiPhasesRetryPolicy    *)
(* (engine/backoff/retrypolicy.go) computes for a retrier, from the time   *)
(* since the retrier was created or reset and the attempts it counted.     *)
(* Durations are integers in a unit of a fifth of the smallest initial     *)
(* interval, so that the 0.8 and 0.2 of the jitter stay integers; the      *)
(* coefficient is the default, 2.                                          *)
(***************************************************************************)
EXTENDS Integers, Sequences, FiniteSetsExt

CONSTANTS Policies,  \* the phases; one of them is an ExponentialRetryPolicy
          MaxClock,  \* bound: the elapsed time saturates here
          MaxCount   \* bound: the attempts counted saturate here

\* expiration and attempts are 0 for none (NoInterval, noMaximumAttempts).
Policy == [initial : Nat, max : Nat, expiration : Nat, attempts : Nat]

ASSUME PoliciesAssumption == Policies \in Seq(Policy) /\ Policies # << >>
ASSUME BoundsAssumption == MaxClock \in Nat /\ MaxCount \in Nat \ {0}
(* NewMultiPhasesRetryPolicy panics otherwise.                             *)
ASSUME PhasesAssumption == \A k \in 1 .. Len(Policies) - 1 : Policies[k].attempts # 0

done == -1

AtMost(x, bound) == IF bound # 0 /\ bound < x THEN bound ELSE x

(* backoffCoefficient to the power of n.                                   *)
Growth[n \in Nat] == IF n = 0 THEN 1 ELSE 2 * Growth[n - 1]

\* MUTANT: the remaining time does not limit the interval.
IntervalUnlimited(p, e, n) == AtMost(p.initial * Growth[n], p.max)

(* initialInterval * coefficient^n, at most maximumInterval and what is    *)
(* left until the expiration.                                              *)
Interval(p, e, n) ==
  LET capped == AtMost(p.initial * Growth[n], p.max)
  IN IF p.expiration # 0 THEN Min({capped, Max({0, p.expiration - e})}) ELSE capped

\* MUTANT: the attempts are counted from one.
ExhaustedEarly(p, e, n) == \/ p.attempts # 0 /\ n + 1 >= p.attempts
                           \/ p.expiration # 0 /\ e > p.expiration

Exhausted(p, e, n) == \/ p.attempts # 0 /\ n >= p.attempts
                      \/ p.expiration # 0 /\ e > p.expiration

(* ExponentialRetryPolicy.ComputeNextDelay: the delays it may return.  A   *)
(* negative exponent leaves less than the initial interval.                *)
ComputeNextDelay(p, e, n) ==
  IF Exhausted(p, e, n) \/ n < 0 \/ Interval(p, e, n) < p.initial \/ p.initial = 0
  THEN {done}
  ELSE LET x == Interval(p, e, n)
       IN {(4 * x) \div 5 + j : j \in 0 .. (Max({1, x \div 5}) - 1)}

(* The attempts of the phases before phase k.                              *)
PreviousAttempts[k \in DOMAIN Policies] ==
  IF k = 1 THEN 0 ELSE PreviousAttempts[k - 1] + Policies[k - 1].attempts

\* MUTANT: each attempt gets a retrier of its own.
NextDelaysFresh(e, n) == ComputeNextDelay(Policies[1], 0, 0)

(* MultiPhasesRetryPolicy.ComputeNextDelay: the first phase that has one.  *)
NextDelays(e, n) ==
  LET delays(k) == ComputeNextDelay(Policies[k], e, n - PreviousAttempts[k])
      open == {k \in DOMAIN Policies : delays(k) # {done}}
  IN IF open = {} THEN {done} ELSE delays(Min(open))

\* What the policy may answer, by the elapsed time and the attempts counted.
Delays == [e \in 0 .. MaxClock |-> [n \in 0 .. MaxCount |-> NextDelays(e, n)]]

Counted(n) == Min({n + 1, MaxCount})
=============================================================================
