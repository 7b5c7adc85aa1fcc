-------------------------- MODULE GateOwnerProofs ---------------------------
(***************************************************************************)
(* Proofs about the timer gate, for every bound on the clock.              *)
(***************************************************************************)
EXTENDS GateOwner, TLAPS

(* An armed timer expires at nextWakeupTime: what makes it sound that      *)
(* Update compares with nextWakeupTime, and not with the timer.            *)
ArmedAtWake == gate.deadline # Off => gate.deadline = gate.wake

(* The inductive invariant: EarliestArmed needs ArmedAtWake, because       *)
(* Update re-arms the timer at nextWakeupTime.                             *)
GateInv == TypeOK /\ ArmedAtWake /\ EarliestArmed

(* A new gate is not armed, and nothing was asked of it.                   *)
LEMMA GateInit == Init => GateInv
BY MaxTimeAssumption
   DEF Init, GateInv, TypeOK, GateTypeOK, ArmedAtWake, EarliestArmed, NewGate, Gate, GatePc, Time

(* Every step of the goroutine and of the owner keeps the invariant.       *)
LEMMA GateStep == GateInv /\ [Next]_vars => GateInv'
<1> SUFFICES ASSUME GateInv, [Next]_vars PROVE GateInv'
  OBVIOUS
<1> USE MaxTimeAssumption, OffAssumption
    DEF GateInv, TypeOK, GateTypeOK, ArmedAtWake, EarliestArmed, Gate, GatePc, Time
<1>1. CASE Fires
  BY <1>1 DEF Fires, GoroutineReceive
<1>2. CASE Forwards
  BY <1>2 DEF Forwards, GoroutineSetInactive, GoroutineSend
<1>3. CASE Exits
  BY <1>3 DEF Exits, GoroutineExit
<1>4. ASSUME NEW t \in Time, Asks(t) PROVE GateInv'
  <2>1. wanted' = wanted \cup {t} /\ gate' = Updated(t) /\ now' = now
    BY <1>4 DEF Asks, Update
  <2>2. /\ gate'.deadline = IF gate.deadline # Off /\ gate.deadline < t THEN gate.deadline ELSE t
        /\ gate'.wake = gate'.deadline
        /\ gate' \in Gate
    BY <2>1 DEF Updated, KeepsOld
  <2>3. EarliestArmed'
    <3>1. CASE wanted = {}
      BY <2>1, <2>2, <3>1
    <3>2. CASE wanted # {}
      <4>1. gate.deadline \in Time /\ wanted \subseteq Time
        BY <3>2
      <4>2. CASE gate.deadline < t
        BY <2>1, <2>2, <3>2, <4>1, <4>2
      <4>3. CASE ~(gate.deadline < t)
        BY <2>1, <2>2, <3>2, <4>1, <4>3
      <4>4. QED
        BY <4>2, <4>3
    <3>3. QED
      BY <3>1, <3>2
  <2>4. QED
    BY <2>1, <2>2, <2>3
<1>5. CASE Stops
  <2>1. wanted' = {} /\ now' = now /\ gate' = [gate EXCEPT !.active = FALSE, !.deadline = Off]
    BY <1>5 DEF Stops, Stop
  <2>2. QED
    BY <2>1
<1>6. CASE Listens
  <2>1. CASE TakeSignal
    BY <1>6, <2>1 DEF Listens, TakeSignal
  <2>2. CASE Close
    BY <1>6, <2>2 DEF Listens, Close
  <2>3. CASE Tick
    BY <1>6, <2>3 DEF Listens, Tick
  <2>4. QED
    BY <1>6, <2>1, <2>2, <2>3 DEF Listens
<1>7. CASE UNCHANGED vars
  BY <1>7 DEF vars
<1>8. QED
  BY <1>1, <1>2, <1>3, <1>4, <1>5, <1>6, <1>7 DEF Next

(* Every step of the gate is a step of the alarm or invisible to it.       *)
LEMMA AlarmStep ==
  GateInv /\ [Next]_vars => [AlarmOf!Next]_(AlarmOf!vars)
<1> SUFFICES ASSUME GateInv, [Next]_vars PROVE [AlarmOf!Next]_(AlarmOf!vars)
  OBVIOUS
<1> USE OffAssumption
    DEF GateInv, TypeOK, GateTypeOK, EarliestArmed, Gate, GatePc, Time, Rung,
        AlarmOf!Next, AlarmOf!vars
(* The timer expires at one of the times asked for.                        *)
<1>1. CASE Fires
  <2>1. gate.deadline \in wanted /\ gate.deadline <= now
    BY <1>1 DEF Fires, GoroutineReceive
  <2>2. QED
    BY <1>1, <2>1 DEF Fires, GoroutineReceive, AlarmOf!Ring
<1>2. CASE Forwards
  BY <1>2 DEF Forwards, GoroutineSetInactive, GoroutineSend
<1>3. CASE Exits
  BY <1>3 DEF Exits, GoroutineExit, AlarmOf!Discard
<1>4. ASSUME NEW t \in Time, Asks(t) PROVE [AlarmOf!Next]_(AlarmOf!vars)
  <2>1. now' = now /\ Rung' = Rung /\ wanted' = wanted \cup {t}
    BY <1>4 DEF Asks, Update, Updated
  <2>2. AlarmOf!Ask(t)
    BY <2>1 DEF AlarmOf!Ask
  <2>3. QED
    BY <2>2
<1>5. CASE Stops
  BY <1>5 DEF Stops, Stop, AlarmOf!Cancel
<1>6. CASE Listens
  BY <1>6 DEF Listens, TakeSignal, Close, Tick, AlarmOf!See, AlarmOf!Tick
<1>7. CASE UNCHANGED vars
  BY <1>7 DEF vars
<1>8. QED
  BY <1>1, <1>2, <1>3, <1>4, <1>5, <1>6, <1>7 DEF Next

(* The gate's clock and fields always have their types.                    *)
THEOREM GateTypeCorrect == Spec => []TypeOK
<1>1. GateInv => TypeOK
  BY DEF GateInv
<1>2. QED
  BY <1>1, GateInit, GateStep, PTL DEF Spec

(* No interleaving of Update, Stop and Close with the forwarding goroutine *)
(* loses or postpones the earliest wake-up time asked for.                 *)
THEOREM EarliestAlwaysArmed == Spec => []EarliestArmed
<1>1. GateInv => EarliestArmed
  BY DEF GateInv
<1>2. QED
  BY <1>1, GateInit, GateStep, PTL DEF Spec

(* LocalTimerGateImpl is an alarm: it fires only when one of the times     *)
(* asked for has come, and once for all of them.                           *)
THEOREM GateIsAlarm == Spec => NeverEarly
<1>1. Init => AlarmOf!Init
  BY DEF Init, NewGate, AlarmOf!Init, Rung
<1>2. QED
  BY <1>1, AlarmStep, GateInit, GateStep, PTL DEF Spec, NeverEarly, AlarmOf!Spec
=============================================================================
