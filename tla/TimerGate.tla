----------------------------- MODULE TimerGate ------------------------------
(***************************************************************************)
(* LocalTimerGateImpl (engine/timer_gate.go): one time.Timer, a goroutine  *)
(* that turns its expiry into a signal in the one-slot fireChan, and the   *)
(* methods the owner calls from its own goroutine.                         *)
(*                                                                         *)
(* Go 1.23 timers (go.mod): the channel holds no stale value.  Stop is     *)
(* TRUE until the goroutine has received from it, also when the time is    *)
(* already past, and after Stop or Reset the old expiry is never received. *)
(***************************************************************************)
EXTENDS Integers

CONSTANTS Off,      \* the timer is not armed
          MaxTime   \* bound on the clock and on the wake-up times

ASSUME OffAssumption == Off \notin Nat
ASSUME MaxTimeAssumption == MaxTime \in Nat

VARIABLES now,      \* the clock, in units of the smallest interval that matters
          gate      \* the fields of the gate, its timer and its goroutine

Time == 0 .. MaxTime

(* deadline  when the runtime timer expires, or Off                        *)
(* wake      nextWakeupTime                                                *)
(* active    isActive, written by both goroutines without synchronisation  *)
(* pc        the forwarding goroutine                                      *)
(* signal    fireChan's slot is full                                       *)
(* closing   closeChan is closed                                           *)
GatePc == {"select", "fired", "send", "gone"}
Gate == [deadline : Time \cup {Off}, wake : Time, active : BOOLEAN,
         pc : GatePc, signal : BOOLEAN, closing : BOOLEAN]

GateTypeOK == now \in Time /\ gate \in Gate

(* NewLocalTimerGate: the timer is stopped before the goroutine starts.    *)
NewGate == [deadline |-> Off, wake |-> 0, active |-> FALSE,
            pc |-> "select", signal |-> FALSE, closing |-> FALSE]

-----------------------------------------------------------------------------
(* The forwarding goroutine.                                               *)
GoroutineReceive ==
  /\ gate.pc = "select"
  /\ gate.deadline # Off /\ gate.deadline <= now
  /\ gate' = [gate EXCEPT !.deadline = Off, !.pc = "fired"]
  /\ UNCHANGED now

GoroutineSetInactive ==
  /\ gate.pc = "fired"
  /\ gate' = [gate EXCEPT !.active = FALSE, !.pc = "send"]
  /\ UNCHANGED now

\* MUTANT: the goroutine goes back to its select without the send.
GoroutineForgetsSend ==
  /\ gate.pc = "send"
  /\ gate' = [gate EXCEPT !.pc = "select"]
  /\ UNCHANGED now

(* Non-blocking send: with the slot full the two signals become one.       *)
GoroutineSend ==
  /\ gate.pc = "send"
  /\ gate' = [gate EXCEPT !.signal = TRUE, !.pc = "select"]
  /\ UNCHANGED now

(* closeChan: the deferred calls stop the timer and close fireChan, which  *)
(* from then on can always be received from.                               *)
GoroutineExit ==
  /\ gate.pc = "select"
  /\ gate.closing
  /\ gate' = [gate EXCEPT !.pc = "gone", !.deadline = Off, !.signal = TRUE]
  /\ UNCHANGED now

Goroutine == GoroutineReceive \/ GoroutineSetInactive \/ GoroutineSend \/ GoroutineExit

-----------------------------------------------------------------------------
(* The owner's methods.  Update marks the gate active first; the timer is  *)
(* stopped before the times are compared, so it cannot expire in between,  *)
(* and the only step of the goroutine that matters inside the call is the  *)
(* write of isActive, which may as well come after it.                     *)

\* MUTANT: the timer is not stopped before the times are compared.
KeepsOldIgnoringStop(t) == gate.wake < t

KeepsOld(t) == gate.deadline # Off /\ gate.wake < t

\* MUTANT: the timer is armed with the time itself for a duration.
UpdatedByTime(t) == [gate EXCEPT !.active = TRUE, !.wake = t, !.deadline = now + t]

Updated(t) == [gate EXCEPT !.active = TRUE,
                           !.wake = IF KeepsOld(t) THEN @ ELSE t,
                           !.deadline = IF KeepsOld(t) THEN gate.wake ELSE t]

Update(t) == gate' = Updated(t) /\ UNCHANGED now

(* FireChan: receiving the signal; a closed channel never runs dry.        *)
TakeSignal ==
  /\ gate.signal
  /\ gate' = [gate EXCEPT !.signal = gate.pc = "gone"]
  /\ UNCHANGED now

Stop == gate' = [gate EXCEPT !.active = FALSE, !.deadline = Off] /\ UNCHANGED now

(* Close may be called once: a second close of closeChan panics.           *)
Close == /\ ~gate.closing
         /\ gate' = [gate EXCEPT !.closing = TRUE]
         /\ UNCHANGED now

IsActive == gate.active
FireAfter(t) == gate.wake > t
InactiveOrFireAfter(t) == ~IsActive \/ FireAfter(t)

Tick == now < MaxTime /\ now' = now + 1 /\ UNCHANGED gate

(* A signal is on its way, or waiting in fireChan.                         *)
Rung == gate.pc \in {"fired", "send"} \/ (gate.signal /\ gate.pc # "gone")
=============================================================================
