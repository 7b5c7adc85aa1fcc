------------------------------ MODULE MCRetries ------------------------------
(***************************************************************************)
(* The two users of retriers: ThrottleRetry.Do, and the callers of a       *)
(* ConcurrentRetrier, one or the other from the start.                     *)
(***************************************************************************)
EXTENDS Backoff

CONSTANTS Caller, Nobody

ASSUME CallersAssumption == Nobody \notin Caller

VARIABLES call, holder, failures, sinceSuccess, tries, user

Concurrent == INSTANCE ConcurrentRetrier

\* A fast phase of two attempts, then one whose attempts and whose expiration
\* may each come first; nothing may last longer than that expiration.
TwoPhases == <<[initial |-> 5, max |-> 10, expiration |-> 70, attempts |-> 2],
               [initial |-> 10, max |-> 20, expiration |-> 70, attempts |-> 3]>>

\* NewThrottleRetry's own throttle policy never expires.
Throttle == [initial |-> 20, max |-> 30, expiration |-> 0, attempts |-> 0]

MCInit == Init /\ Concurrent!CrInit /\ user \in {"Do", "ConcurrentRetrier"}

MCNext ==
  /\ \/ user = "Do" /\ Next /\ UNCHANGED <<sinceSuccess, tries, call, holder, failures>>
     \/ user = "ConcurrentRetrier" /\ Concurrent!CrNext /\ UNCHANGED vars
  /\ UNCHANGED user

MCSpec ==
  /\ MCInit /\ [][MCNext]_<<vars, Concurrent!crVars, user>>
  /\ WF_vars(user = "Do" /\ Next)
  /\ Concurrent!CrFairness

MCTypeOK == TypeOK /\ Concurrent!CrTypeOK

(* An operation that keeps failing is not retried for ever: the reader     *)
(* that calls Do is blocked, and deaf to its channels, until it returns.   *)
DoReturnsAlways == user = "Do" ~> pc \in {"succeeded", "failed", "exhausted"}

(* Nobody sleeps in Throttle after a success was reported ("if there were  *)
(* failures since the last success call").                                 *)
SleepsAfterFailure == Concurrent!SleepsAfterFailure

(* Callers that wait behind one that sleeps with the lock get through.     *)
CallsReturn == Concurrent!CallsReturn
=============================================================================
