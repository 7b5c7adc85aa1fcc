-------------------------- MODULE ConcurrentRetrier --------------------------
(***************************************************************************)
(* ConcurrentRetrier (engine/backoff/retry.go): callers that share one     *)
(* retrier behind a mutex.  Throttle reads failureCount without the lock,  *)
(* takes it, looks again, and sleeps while it holds it; Succeeded and      *)
(* Failed wait for it.  The unlocked read is of one machine word and       *)
(* returns the current value; what follows it is looked at again under the *)
(* lock.                                                                   *)
(***************************************************************************)
EXTENDS RetryPolicy

CONSTANTS Caller, Nobody

VARIABLES sinceSuccess,  \* the time since the retrier was created or reset
          tries,     \* currentAttempt of the retrier
          call,      \* per caller: the call it is in, "none", or "sleep"
          holder,    \* who holds the mutex
          failures   \* failureCount, at most MaxCount

crVars == <<sinceSuccess, tries, call, holder, failures>>

Calls == {"Throttle", "Succeeded", "Failed"}

CrTypeOK == /\ sinceSuccess \in 0 .. MaxClock /\ tries \in 0 .. MaxCount
            /\ call \in [Caller -> Calls \cup {"none", "sleep"}]
            /\ holder \in Caller \cup {Nobody}
            /\ failures \in 0 .. MaxCount

CrInit == /\ sinceSuccess = 0 /\ tries = 0
          /\ call = [c \in Caller |-> "none"]
          /\ holder = Nobody
          /\ failures = 0

To(c, state) == call' = [call EXCEPT ![c] = state]

\* A critical section that does not sleep is one step, from Lock to Unlock.
Unlocked == holder = Nobody

\* MUTANT: the caller that slept does not unlock.
UnlocksNever == holder' = holder

\* The deferred Unlock of a caller that slept.
Unlocks == holder' = Nobody

-----------------------------------------------------------------------------
(* if failureCount > 0, read without the lock: otherwise it returns.       *)
Throttle(c) ==
  /\ call[c] = "none" /\ failures > 0
  /\ To(c, "Throttle")
  /\ UNCHANGED <<sinceSuccess, tries, holder, failures>>

Report(c) ==
  /\ call[c] = "none"
  /\ \E op \in {"Succeeded", "Failed"} : To(c, op)
  /\ UNCHANGED <<sinceSuccess, tries, holder, failures>>

\* MUTANT: what was read without the lock is not read again.
StillFailingAlways == TRUE

\* if c.failureCount > 0, under the lock.
StillFailing == failures > 0

(* The lock, the second look, NextBackOff: it sleeps, or unlocks.          *)
Locked(c) ==
  /\ call[c] = "Throttle" /\ Unlocked
  /\ \/ /\ StillFailing
        /\ tries' = Counted(tries)
        /\ \E delay \in Delays[sinceSuccess][tries] :
             \/ delay = done /\ To(c, "none") /\ UNCHANGED holder
             \/ delay # done /\ To(c, "sleep") /\ holder' = c
     \/ ~StillFailing /\ To(c, "none") /\ UNCHANGED <<tries, holder>>
  /\ UNCHANGED <<sinceSuccess, failures>>

(* time.Sleep ends.                                                        *)
Wakes(c) ==
  /\ call[c] = "sleep"
  /\ To(c, "none") /\ Unlocks
  /\ UNCHANGED <<sinceSuccess, tries, failures>>

Succeeded(c) ==
  /\ call[c] = "Succeeded" /\ Unlocked
  /\ failures' = 0
  /\ sinceSuccess' = 0 /\ tries' = 0
  /\ To(c, "none")
  /\ UNCHANGED holder

Failed(c) ==
  /\ call[c] = "Failed" /\ Unlocked
  /\ failures' = Counted(failures)
  /\ To(c, "none")
  /\ UNCHANGED <<sinceSuccess, tries, holder>>

(* Time passes, between calls and while one sleeps.                        *)
Passes ==
  /\ sinceSuccess' = Min({sinceSuccess + MaxClock \div 4, MaxClock})
  /\ UNCHANGED <<tries, call, holder, failures>>

Proceeds(c) == Locked(c) \/ Wakes(c) \/ Succeeded(c) \/ Failed(c)

CrNext == Passes \/ \E c \in Caller : Throttle(c) \/ Report(c) \/ Proceeds(c)

(* Sleeps end, and a mutex that is unlocked again and again goes to every  *)
(* waiter in the end (sync.Mutex hands it over after a millisecond).       *)
CrFairness == \A c \in Caller : SF_crVars(Proceeds(c))

-----------------------------------------------------------------------------
(* retry.go, "Sleep if there were failures since the last success call":   *)
(* nobody sleeps after a success, although failureCount was read before    *)
(* the lock and a success may have been reported in between.               *)
SleepsAfterFailure == \A c \in Caller : call[c] = "sleep" => failures > 0

(* One caller at a time sleeps, holding the lock, and everybody waiting    *)
(* behind it, also to report a success, gets through.                      *)
CallsReturn == \A c \in Caller : call[c] # "none" ~> call[c] = "none"
=============================================================================
