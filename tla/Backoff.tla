------------------------------ MODULE Backoff -------------------------------
(***************************************************************************)
(* ThrottleRetry.Do (engine/backoff/retry.go) around an operation: one     *)
(* retrier for the errors, one for the throttle errors among them.         *)
(***************************************************************************)
EXTENDS RetryPolicy

CONSTANTS ThrottlePolicy, \* added to the delay's minimum for throttle errors
          OpTime          \* how long the operation may take

ASSUME ThrottleAssumption == ThrottlePolicy \in Policy /\ OpTime \subseteq Nat

VARIABLES pc,        \* "op", "sleep", or how Do returned
          elapsed,   \* the time since both retriers were created
          attempt,   \* currentAttempt of the retrier
          throttles, \* currentAttempt of the throttle retrier
          next       \* the delay being slept

vars == <<pc, elapsed, attempt, throttles, next>>

TypeOK == /\ pc \in {"op", "sleep", "succeeded", "failed", "exhausted"}
          /\ elapsed \in 0 .. MaxClock
          /\ attempt \in 0 .. MaxCount /\ throttles \in 0 .. MaxCount
          /\ next \in Nat

Init == pc = "op" /\ elapsed = 0 /\ attempt = 0 /\ throttles = 0 /\ next = 0

-----------------------------------------------------------------------------
\* MUTANT: the times are subtracted the wrong way round.
AfterNegative(d) == -d

After(d) == Min({elapsed + d, MaxClock})

ThrottleDelays ==
  [e \in 0 .. MaxClock |-> [n \in 0 .. MaxCount |-> ComputeNextDelay(ThrottlePolicy, e, n)]]

OpSucceeds ==
  /\ pc = "op"
  /\ \E d \in OpTime : elapsed' = After(d)
  /\ pc' = "succeeded"
  /\ UNCHANGED <<attempt, throttles, next>>

(* The error is not retryable.                                             *)
OpFails ==
  /\ pc = "op"
  /\ \E d \in OpTime : elapsed' = After(d)
  /\ pc' = "failed"
  /\ UNCHANGED <<attempt, throttles, next>>

(* A retryable error: NextBackOff, and if isThrottle holds of it the       *)
(* longer of its delay and that of the throttle policy.                    *)
OpFailsRetryably ==
  /\ pc = "op"
  /\ \E d \in OpTime :
       /\ elapsed' = After(d)
       /\ attempt' = Counted(attempt)
       /\ \E delay \in Delays[elapsed'][attempt] :
            \/ /\ delay = done
               /\ pc' = "exhausted"
               /\ UNCHANGED <<throttles, next>>
            \/ /\ delay # done
               /\ pc' = "sleep"
               /\ next' = delay
               /\ UNCHANGED throttles
            \/ /\ delay # done
               /\ pc' = "sleep"
               /\ \E t \in ThrottleDelays[elapsed'][throttles] :
                    next' = Max({delay, t})
               /\ throttles' = Counted(throttles)

Wake ==
  /\ pc = "sleep"
  /\ pc' = "op"
  /\ elapsed' = After(next)
  /\ next' = 0
  /\ UNCHANGED <<attempt, throttles>>

(* The context ends first.                                                 *)
Cancel ==
  /\ pc = "sleep"
  /\ pc' = "failed"
  /\ UNCHANGED <<elapsed, attempt, throttles, next>>

Next == OpSucceeds \/ OpFails \/ OpFailsRetryably \/ Wake \/ Cancel

Spec == Init /\ [][Next]_vars

-----------------------------------------------------------------------------
Final == Policies[Len(Policies)]

(* engine/backoff/retrypolicy.go: SetExpirationInterval "sets the absolute *)
(* expiration interval for all retries": no attempt is begun after it, as  *)
(* long as no error was a throttle error, whose delay nothing limits.      *)
NoAttemptAfterExpiration ==
  pc = "op" /\ throttles = 0 /\ Final.expiration # 0 => elapsed <= Final.expiration

(* The retries end only when the last phase has used up its attempts or    *)
(* has no room left for another interval: a phase that is used up hands    *)
(* over to the next one, with the attempts counted from there.             *)
EndsWhenUsedUp ==
  pc = "exhausted" =>
    \/ Final.attempts # 0 /\ attempt > PreviousAttempts[Len(Policies)] + Final.attempts
    \/ Final.expiration # 0 /\ elapsed + Final.initial > Final.expiration
=============================================================================
