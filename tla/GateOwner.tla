----------------------------- MODULE GateOwner ------------------------------
(***************************************************************************)
(* The timer gate alone, with an owner that calls its methods in any order *)
(* from its own goroutine, and what the gate promises that owner.          *)
(***************************************************************************)
EXTENDS TimerGate

VARIABLE wanted  \* history: the times asked for since the gate last fired or
                 \* was stopped

vars == <<now, gate, wanted>>

TypeOK == GateTypeOK /\ wanted \subseteq Time

Init == now = 0 /\ gate = NewGate /\ wanted = {}

-----------------------------------------------------------------------------
Fires == GoroutineReceive /\ wanted' = {}

Forwards == (GoroutineSetInactive \/ GoroutineSend) /\ UNCHANGED wanted

Exits == GoroutineExit /\ wanted' = {}

Asks(t) == Update(t) /\ wanted' = wanted \cup {t}

Stops == Stop /\ wanted' = {}

Listens == (TakeSignal \/ Close \/ Tick) /\ UNCHANGED wanted

Next == Fires \/ Forwards \/ Exits \/ (\E t \in Time : Asks(t)) \/ Stops \/ Listens

Spec == Init /\ [][Next]_vars

(* The runtime schedules the goroutine, and time passes.                   *)
FairSpec ==
  /\ Spec
  /\ WF_vars(Fires \/ Forwards \/ Exits)
  /\ WF_vars(Tick /\ UNCHANGED wanted)

-----------------------------------------------------------------------------
(* Whatever the order of Update, expiry, delivery and Stop, the runtime    *)
(* timer is armed for the earliest of the times asked for and not yet      *)
(* fired: no Update is lost, and none postpones an earlier one.            *)
EarliestArmed ==
  IF wanted = {} THEN gate.deadline = Off
  ELSE gate.deadline \in wanted /\ \A t \in wanted : gate.deadline <= t

AlarmOf == INSTANCE Alarm WITH rung <- Rung

(* The gate is an alarm: it fires once for all the times asked for, never  *)
(* before the earliest of them, and a signal is neither invented nor       *)
(* dropped between the runtime timer and fireChan.                         *)
NeverEarly == AlarmOf!Spec

(* A time asked for is answered unless the gate is stopped or closed, and  *)
(* a firing always ends in a signal.                                       *)
FiringIsSignalled ==
  /\ (wanted # {}) ~> (wanted = {} \/ gate.closing)
  /\ (gate.pc = "fired") ~> gate.signal
=============================================================================
