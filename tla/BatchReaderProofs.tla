-------------------------- MODULE BatchReaderProofs --------------------------
(***************************************************************************)
(* Proofs about BatchReader, for every set of timers, every batch limit,   *)
(* every pair of look-ahead windows and every bound on the clock, with     *)
(* reads that fail, ownership loss and a deleter that runs at any time.    *)
(***************************************************************************)
EXTENDS BatchReader, TimerRowsProofs

(* The reader never closes its gate, and an armed timer expires at         *)
(* nextWakeupTime.                                                         *)
GateSound ==
  /\ ~gate.closing /\ gate.pc # "gone"
  /\ gate.deadline # Off => gate.deadline = gate.wake

(* While a query is under way nothing is left to send, and the last        *)
(* wake-up time is forgotten.                                              *)
QueryQuiet == reader.pc \in {"read", "look"} => reader.buf = {} /\ reader.look = Off

(* The offset and the query under way are of times that have come.         *)
OffsetDue == reader.off.at <= now /\ reader.t0 <= now

(* What was read is at or before the offset, and was sent in order.        *)
InOrder ==
  /\ \A k \in reader.buf \cup sent : NotAfter(k, reader.off)
  /\ \A q \in sent, b \in reader.buf : NotAfter(q, b)
  /\ fresh \cap sent = {}

(* The inductive invariant.  NoTimerSkipped needs InOrder, since the       *)
(* deleter removes up to what was sent, and OffsetDue, since a timer       *)
(* created for later must not be behind the offset already; LookAheadArmed *)
(* needs to know what Update compares with.                                *)
RInv == /\ TypeOK /\ GateSound /\ QueryQuiet /\ OffsetDue /\ InOrder
        /\ NoTimerSkipped /\ LookAheadArmed

-----------------------------------------------------------------------------
(* The wake-up times of the reader are times of its gate.                  *)
LEMMA Times ==
  /\ MaxTime \in Nat /\ 0 \in 0 .. Horizon /\ 0 .. Horizon \subseteq Gate!Time
  /\ \A t \in 0 .. Horizon : t + MaxLookAhead \in Gate!Time
BY LookAheadAssumption DEF MaxTime, Gate!Time

(* Timers and the offset before all of them are keys with an order.        *)
LEMMA OffsetsAreKeys == Timer \subseteq AnyKey /\ ZeroOffset \in AnyKey
<1>1. 0 .. Horizon \subseteq Int /\ Id \subseteq Int
  BY IdAssumption, LookAheadAssumption
<1>2. Timer \subseteq AnyKey
  BY <1>1 DEF Timer, AnyKey, Key
<1>3. ZeroOffset \in AnyKey
  BY DEF ZeroOffset, AnyKey, Key
<1>4. QED
  BY <1>2, <1>3

(* There are finitely many keys, one for each time and uuid.               *)
LEMMA TimersFinite == IsFiniteSet(Timer)
<1> DEFINE Pairs == (0 .. Horizon) \X Id
           f == [p \in Pairs |-> [at |-> p[1], id |-> p[2]]]
<1>1. IsFiniteSet(Pairs)
  <2>1. IsFiniteSet(0 .. Horizon)
    BY LookAheadAssumption, FS_Interval
  <2>2. IsFiniteSet(Id)
    BY IdAssumption, FS_BoundedSetOfNaturals
  <2>3. QED
    BY <2>1, <2>2, FS_Product
<1>2. f \in Surjection(Pairs, Timer)
  <2>1. f \in [Pairs -> Timer]
    BY DEF Timer, Key
  <2>2. ASSUME NEW k \in Timer PROVE \E p \in Pairs : f[p] = k
    <3>1. <<k.at, k.id>> \in Pairs /\ f[<<k.at, k.id>>] = k
      BY DEF Timer, Key
    <3>2. QED
      BY <3>1
  <2>3. QED
    BY <2>1, <2>2 DEF Surjection
<1>3. QED
  BY <1>1, <1>2, FS_Surjection

(* A set of timers that is not empty has a first one and a last one.       *)
LEMMA TimersEnds ==
  ASSUME NEW S \in SUBSET Timer, S # {}
  PROVE  /\ Head(S) \in S /\ \A q \in S : NotAfter(Head(S), q)
         /\ Last(S) \in S /\ \A q \in S : NotAfter(q, Last(S))
<1>1. S \subseteq AnyKey /\ IsFiniteSet(S)
  BY TimersFinite, OffsetsAreKeys, FS_Subset
<1>2. QED
  BY <1>1, HeadIsFirst, LastIsLast

-----------------------------------------------------------------------------
(* Update arms the timer for the earlier of the time asked for and the     *)
(* one it was armed for, and leaves a signal on its way alone.             *)
LEMMA UpdateArms ==
  ASSUME gate \in Gate!Gate, GateSound, NEW t \in Gate!Time, Gate!Update(t)
  PROVE  /\ gate' \in Gate!Gate /\ GateSound' /\ now' = now
         /\ gate'.deadline # Off /\ gate'.deadline <= t
         /\ gate.deadline # Off => gate'.deadline <= gate.deadline
         /\ Gate!Rung => Gate!Rung'
<1>1. t \in Nat /\ Gate!Time \subseteq Nat
  BY Times DEF Gate!Time
<1>2. gate' = Gate!Updated(t) /\ now' = now
  BY DEF Gate!Update
<1>3. /\ gate'.deadline = IF gate.deadline # Off /\ gate.deadline < t THEN gate.deadline ELSE t
      /\ gate'.wake = gate'.deadline
      /\ gate'.closing = gate.closing /\ gate'.pc = gate.pc /\ gate'.signal = gate.signal
      /\ gate' \in Gate!Gate
  BY <1>1, <1>2 DEF Gate!Updated, Gate!KeepsOld, Gate!Gate, GateSound
<1>4. gate'.deadline # Off
  BY <1>1, <1>3, OffAssumption
<1>5. gate'.deadline <= t /\ (gate.deadline # Off => gate'.deadline <= gate.deadline)
  <2>1. gate.deadline # Off => gate.deadline \in Nat
    BY <1>1 DEF Gate!Gate
  <2>2. CASE gate.deadline # Off /\ gate.deadline < t
    BY <1>1, <1>3, <2>1, <2>2
  <2>3. CASE ~(gate.deadline # Off /\ gate.deadline < t)
    BY <1>1, <1>3, <2>1, <2>3
  <2>4. QED
    BY <2>2, <2>3
<1>6. GateSound' /\ (Gate!Rung => Gate!Rung')
  BY <1>3 DEF GateSound, Gate!Rung
<1>7. QED
  BY <1>2, <1>3, <1>4, <1>5, <1>6

(* The gate's goroutine takes the timer only when it expires, and then a   *)
(* signal is on its way until it is taken.                                 *)
LEMMA GoroutineRings ==
  ASSUME gate \in Gate!Gate, GateSound, Gate!Goroutine
  PROVE  /\ gate' \in Gate!Gate /\ GateSound' /\ now' = now
         /\ Gate!Rung => Gate!Rung'
         /\ gate'.deadline = gate.deadline \/ Gate!Rung'
BY DEF Gate!Goroutine, Gate!GoroutineReceive, Gate!GoroutineSetInactive,
       Gate!GoroutineSend, Gate!GoroutineExit, GateSound, Gate!Gate, Gate!GatePc, Gate!Rung

(* Taking the signal leaves the timer alone.                               *)
LEMMA TakeSignalSound ==
  ASSUME gate \in Gate!Gate, GateSound, Gate!TakeSignal
  PROVE  gate' \in Gate!Gate /\ GateSound' /\ now' = now
BY DEF Gate!TakeSignal, GateSound, Gate!Gate

-----------------------------------------------------------------------------
(* A batch is part of the rows at or after the offset, and all of them up  *)
(* to its last one.                                                        *)
LEMMA BatchIsAll ==
  ASSUME TypeOK
  PROVE  /\ Batch \subseteq rows /\ Ready(Batch) \subseteq Batch
         /\ \A b \in Batch : NotAfter(reader.off, b)
         /\ \A b \in Ready(Batch), q \in rows :
              NotAfter(reader.off, q) /\ NotAfter(q, b) => q \in Ready(Batch)
<1> DEFINE end == EndOf(reader.t0 + MinLookAhead)
           inRange == Between(rows, reader.off, end)
<1>1. rows \subseteq AnyKey /\ reader.off \in AnyKey /\ end \in AnyKey
  BY OffsetsAreKeys, IdAssumption, LookAheadAssumption
     DEF TypeOK, Reader, EndOf, AnyKey, Key
<1>2. inRange \subseteq rows /\ inRange \subseteq AnyKey /\ IsFiniteSet(inRange)
  BY <1>1, TimersFinite, FS_Subset DEF Between, TypeOK
<1>3. /\ Batch \subseteq inRange
      /\ \A r \in Batch, q \in inRange : Before(q, r) => q \in Batch
  BY <1>2, FirstOfIsPrefix, LimitAssumption DEF Batch, RangeGet
<1>4. ASSUME NEW b \in Ready(Batch), NEW q \in rows, NotAfter(reader.off, q), NotAfter(q, b)
      PROVE  q \in Ready(Batch)
  <2>1. b \in Batch /\ b \in AnyKey /\ NotAfter(b, end) /\ b.at <= reader.t0
    BY <1>2, <1>3 DEF Ready, Between
  <2>2. q \in inRange
    BY <1>1, <1>4, <2>1, KeyTransitive DEF Between
  <2>3. q \in Batch
    BY <1>1, <1>3, <1>4, <2>1, <2>2, KeyOrder
  <2>4. q.at <= reader.t0
    BY <1>1, <1>4, <2>1 DEF NotAfter, AnyKey, Key, TypeOK, Reader
  <2>5. QED
    BY <2>3, <2>4 DEF Ready
<1>5. QED
  BY <1>2, <1>3, <1>4 DEF Ready, Between

(* What a first query does to the reader and its gate.                     *)
LEMMA ReadEffect ==
  ASSUME TypeOK, GateSound, Read
  PROVE  /\ UNCHANGED <<now, env>> /\ gate' \in Gate!Gate /\ GateSound'
         /\ reader' \in Reader /\ reader'.t0 \in {0, reader.t0}
         /\ \/ /\ Batch = {} /\ reader'.buf = reader.buf
               /\ reader'.off = reader.off /\ reader'.look = reader.look
               /\ reader'.pc = "look"
            \/ /\ reader'.buf = Ready(Batch) /\ reader'.off = OffsetAfter(Batch)
               /\ reader'.pc = "select"
               /\ \/ reader'.look = reader.look
                  \/ gate'.deadline # Off /\ gate'.deadline <= reader'.look
<1> DEFINE future == Batch \ Ready(Batch)
<1>1. Batch \subseteq Timer /\ Ready(Batch) \subseteq Timer /\ OffsetAfter(Batch) \in Timer \cup {ZeroOffset}
  <2>1. Batch \subseteq Timer /\ Ready(Batch) \subseteq Timer
    BY BatchIsAll DEF TypeOK
  <2>2. QED
    BY <2>1, TimersEnds DEF OffsetAfter, TypeOK, Reader
<1>2. reader \in Reader /\ gate \in Gate!Gate
  BY DEF TypeOK
<1>3. CASE /\ future # {}
           /\ reader' = [reader EXCEPT !.pc = "select", !.t0 = 0, !.buf = Ready(Batch),
                                       !.off = OffsetAfter(Batch), !.look = Head(future).at]
           /\ WakeUpAt(Head(future).at)
  <2>1. Head(future) \in Timer
    BY <1>1, <1>3, TimersEnds
  <2>2. Head(future).at \in 0 .. Horizon
    BY <2>1 DEF Timer, Key
  <2>3. Head(future).at \in Gate!Time
    BY <2>2, Times
  <2>4. reader' \in Reader /\ reader'.look = Head(future).at
        /\ reader'.buf = Ready(Batch) /\ reader'.off = OffsetAfter(Batch) /\ reader'.t0 = 0
        /\ reader'.pc = "select"
    BY <1>1, <1>2, <1>3, <2>3, Times DEF Reader, Gate!Time
  <2>5. QED
    BY <1>2, <1>3, <2>3, <2>4, UpdateArms DEF Read, WakeUpAt
<1>4. CASE /\ reader' = [reader EXCEPT !.pc = "select", !.t0 = 0, !.buf = Ready(Batch),
                                       !.off = OffsetAfter(Batch)]
           /\ UNCHANGED <<now, gate>>
  <2>1. reader' \in Reader
    BY <1>1, <1>2, <1>4, Times DEF Reader
  <2>2. /\ reader'.buf = Ready(Batch) /\ reader'.off = OffsetAfter(Batch)
        /\ reader'.pc = "select" /\ reader'.t0 = 0 /\ reader'.look = reader.look
    BY <1>2, <1>4 DEF Reader
  <2>3. QED
    BY <1>2, <1>4, <2>1, <2>2 DEF Read, GateSound
<1>5. CASE /\ Batch = {} /\ reader' = [reader EXCEPT !.pc = "look"]
           /\ UNCHANGED <<now, gate>>
  BY <1>2, <1>5 DEF Reader, Read, GateSound
<1>6. QED
  BY <1>3, <1>4, <1>5 DEF Read

(* What the second query does: the wake-up time is one of the gate's.      *)
LEMMA LookAheadEffect ==
  ASSUME TypeOK, GateSound, LookAhead
  PROVE  /\ UNCHANGED <<now, env>> /\ gate' \in Gate!Gate /\ GateSound'
         /\ reader' \in Reader /\ reader'.buf = reader.buf /\ reader'.off = reader.off
         /\ reader'.t0 = 0 /\ reader'.pc = "select"
         /\ gate'.deadline # Off /\ gate'.deadline <= reader'.look
<1> DEFINE end == reader.t0 + MaxLookAhead
           found == RangeGet(rows, reader.off, EndOf(end), 1)
<1>1. PICK t \in {r.at : r \in found} \cup {end} :
        /\ reader' = [reader EXCEPT !.pc = "select", !.t0 = 0, !.look = t]
        /\ WakeUpAt(t) /\ UNCHANGED env
  BY DEF LookAhead
<1>2. reader \in Reader /\ gate \in Gate!Gate
  BY DEF TypeOK
<1>3. t \in Gate!Time
  <2>1. end \in Gate!Time
    BY <1>2, Times DEF Reader
  <2>2. \A r \in found : r \in Timer
    BY DEF RangeGet, FirstOf, Between, TypeOK
  <2>3. \A r \in found : r.at \in Gate!Time
    BY <2>2, Times DEF Timer, Key
  <2>4. QED
    BY <2>1, <2>3
<1>4. reader' \in Reader /\ reader'.look = t /\ reader'.buf = reader.buf
      /\ reader'.off = reader.off /\ reader'.t0 = 0 /\ reader'.pc = "select"
  BY <1>1, <1>2, <1>3, Times DEF Reader, Gate!Time
<1>5. QED
  BY <1>1, <1>2, <1>3, <1>4, UpdateArms DEF WakeUpAt

-----------------------------------------------------------------------------
(* The steps of the invariant, one lemma for each action.                  *)

(* All keys in play are keys.                                              *)
LEMMA KeysInPlay ==
  ASSUME TypeOK
  PROVE  /\ rows \cup fresh \cup sent \cup reader.buf \subseteq Timer
         /\ reader.off \in AnyKey
         /\ rows \cup fresh \cup sent \cup reader.buf \subseteq AnyKey
         /\ now \in Nat /\ reader.t0 \in Nat /\ reader.off.at \in Int
BY OffsetsAreKeys, Times, LookAheadAssumption DEF TypeOK, Reader, AnyKey, Key

(* A step that leaves the rows, the histories and what was read alone      *)
(* keeps the order, and skips nothing.                                     *)
LEMMA DataKept ==
  ASSUME RInv, UNCHANGED <<rows, fresh, sent>>,
         reader'.buf = reader.buf, reader'.off = reader.off
  PROVE  InOrder' /\ NoTimerSkipped'
BY DEF RInv, InOrder, NoTimerSkipped

(* A reader that has just started.                                         *)
LEMMA RInvInit == Init => RInv
<1> SUFFICES ASSUME Init PROVE RInv
  OBVIOUS
<1> USE DEF Init, NewReader
<1>1. rows \subseteq Timer
  <2>1. {[at |-> 0, id |-> i] : i \in Id} \subseteq Timer
    BY Times DEF Timer, Key
  <2>2. QED
    BY <2>1
<1>2. gate \in Gate!Gate /\ GateSound
  BY Times DEF Gate!Gate, Gate!GatePc, Gate!NewGate, GateSound
<1>3. reader \in Reader
  BY Times DEF Reader
<1>4. TypeOK
  BY <1>1, <1>2, <1>3, Times DEF TypeOK
<1>5. QED
  BY <1>2, <1>4 DEF RInv, QueryQuiet, OffsetDue, InOrder, NoTimerSkipped, LookAheadArmed, ZeroOffset

(* The signal: nothing is left to send when a query starts.                *)
LEMMA FireStep == RInv /\ Fire => RInv'
<1> SUFFICES ASSUME RInv, Fire PROVE RInv'
  OBVIOUS
<1>1. TypeOK /\ GateSound /\ reader \in Reader /\ gate \in Gate!Gate /\ now \in 0 .. Horizon
  BY DEF RInv, TypeOK
<1>2. gate' \in Gate!Gate /\ GateSound' /\ now' = now /\ UNCHANGED env
  BY <1>1, TakeSignalSound DEF Fire
<1>3. /\ reader' \in Reader /\ reader'.pc = "read" /\ reader'.t0 = now /\ reader'.look = Off
      /\ reader'.buf = {} /\ reader'.buf = reader.buf /\ reader'.off = reader.off
  BY <1>1 DEF Fire, Idle, Reader
<1>4. TypeOK'
  BY <1>1, <1>2, <1>3 DEF TypeOK, env
<1>5. OffsetDue'
  BY <1>1, <1>2, <1>3, KeysInPlay DEF RInv, OffsetDue
<1>6. QueryQuiet' /\ LookAheadArmed'
  BY <1>3 DEF QueryQuiet, LookAheadArmed
<1>7. QED
  BY <1>2, <1>3, <1>4, <1>5, <1>6, DataKept DEF RInv, env

(* The first query: the offset passes exactly what is now in readTimers.   *)
LEMMA ReadStep == RInv /\ Read => RInv'
<1> SUFFICES ASSUME RInv, Read PROVE RInv'
  OBVIOUS
<1>1. TypeOK /\ GateSound /\ reader.buf = {} /\ reader.look = Off
  BY DEF RInv, QueryQuiet, Read
<1>2. /\ UNCHANGED <<now, env>> /\ gate' \in Gate!Gate /\ GateSound'
      /\ reader' \in Reader /\ reader'.t0 \in {0, reader.t0}
  BY <1>1, ReadEffect
<1>3. TypeOK'
  BY <1>1, <1>2 DEF TypeOK, env
<1>4. reader'.t0 <= now'
  BY <1>1, <1>2, KeysInPlay DEF RInv, OffsetDue
<1>5. CASE /\ reader'.buf = reader.buf /\ reader'.off = reader.off
           /\ reader'.look = reader.look /\ reader'.pc = "look"
  <2>1. QueryQuiet' /\ LookAheadArmed' /\ OffsetDue'
    BY <1>1, <1>2, <1>4, <1>5 DEF QueryQuiet, LookAheadArmed, RInv, OffsetDue
  <2>2. QED
    BY <1>2, <1>3, <1>5, <2>1, DataKept DEF RInv, env
<1>6. CASE /\ reader'.buf = Ready(Batch) /\ reader'.off = OffsetAfter(Batch)
           /\ reader'.pc = "select"
           /\ \/ reader'.look = reader.look
              \/ gate'.deadline # Off /\ gate'.deadline <= reader'.look
  <2> DEFINE ready == Ready(Batch)
  <2>1. ready \subseteq rows /\ ready \subseteq Timer /\ ready \subseteq AnyKey
    BY <1>1, BatchIsAll, KeysInPlay
  <2>2. \A b \in ready : NotAfter(reader.off, b) /\ b.at <= reader.t0
    BY <1>1, BatchIsAll DEF Ready
  <2>3. ready = {} => reader'.off = reader.off
    BY <1>6 DEF OffsetAfter
  <2>4. ready # {} => reader'.off \in ready /\ \A b \in ready : NotAfter(b, reader'.off)
    BY <1>6, <2>1, TimersEnds DEF OffsetAfter
  <2>5. OffsetDue'
    <3>1. CASE ready = {}
      BY <1>2, <1>4, <2>3, <3>1 DEF RInv, OffsetDue
    <3>2. CASE ready # {}
      <4>1. reader'.off.at <= reader.t0 /\ reader'.off.at \in Int
        BY <2>1, <2>2, <2>4, <3>2 DEF AnyKey, Key
      <4>2. QED
        BY <1>1, <1>2, <1>4, <4>1, KeysInPlay DEF RInv, OffsetDue
    <3>3. QED
      BY <3>1, <3>2
  <2>6. InOrder'
    <3>1. sent' = sent /\ fresh' = fresh /\ reader'.buf = ready /\ sent \subseteq AnyKey
          /\ reader.off \in AnyKey /\ reader'.off \in AnyKey
      BY <1>1, <1>2, <1>6, <2>1, <2>3, <2>4, KeysInPlay DEF env
    <3>2. \A q \in sent : NotAfter(q, reader.off)
      BY DEF RInv, InOrder
    <3>3. \A q \in sent, b \in ready : NotAfter(q, b)
      BY <2>1, <2>2, <3>1, <3>2, KeyTransitive
    <3>4. \A q \in sent : NotAfter(q, reader'.off)
      BY <2>3, <2>4, <3>2, <3>3
    <3>5. QED
      BY <2>3, <2>4, <3>1, <3>3, <3>4 DEF RInv, InOrder
  <2>7. NoTimerSkipped'
    <3>1. SUFFICES ASSUME NEW r \in fresh
                   PROVE  /\ r \in rows \cup ready \cup sent
                          /\ NotAfter(r, reader'.off) => r \in ready \cup sent
      BY <1>2, <1>6 DEF NoTimerSkipped, env
    <3>2. r \in rows /\ ~NotAfter(r, reader.off)
      BY <1>1 DEF RInv, NoTimerSkipped, InOrder
    <3>3. r \in AnyKey /\ reader.off \in AnyKey
      BY <1>1, KeysInPlay
    <3>4. NotAfter(reader.off, r)
      BY <3>2, <3>3, KeyOrder
    <3>5. ASSUME NotAfter(r, reader'.off) PROVE r \in ready
      <4>1. ready # {}
        BY <2>3, <3>2, <3>5
      <4>2. QED
        BY <1>1, <2>4, <3>2, <3>4, <3>5, <4>1, BatchIsAll
    <3>6. QED
      BY <3>2, <3>5
  <2>8. QueryQuiet' /\ LookAheadArmed'
    BY <1>1, <1>6 DEF QueryQuiet, LookAheadArmed
  <2>9. QED
    BY <1>2, <1>3, <2>5, <2>6, <2>7, <2>8 DEF RInv
<1>7. QED
  BY <1>1, <1>5, <1>6, ReadEffect

(* A read that gives up leaves no look-ahead time behind.                  *)
LEMMA GivesUpStep == RInv /\ ReadGivesUp => RInv'
<1> SUFFICES ASSUME RInv, ReadGivesUp PROVE RInv'
  OBVIOUS
<1>1. TypeOK /\ reader \in Reader /\ reader.look = Off /\ UNCHANGED <<now, gate, env>>
  BY DEF RInv, QueryQuiet, ReadGivesUp, TypeOK
<1>2. /\ reader' \in Reader /\ reader'.pc = "select" /\ reader'.t0 = 0 /\ reader'.look = Off
      /\ reader'.buf = reader.buf /\ reader'.off = reader.off
  BY <1>1, Times DEF ReadGivesUp, Reader
<1>3. TypeOK' /\ GateSound' /\ OffsetDue'
  BY <1>1, <1>2, KeysInPlay DEF RInv, TypeOK, GateSound, OffsetDue, env
<1>4. QueryQuiet' /\ LookAheadArmed'
  BY <1>2 DEF QueryQuiet, LookAheadArmed
<1>5. QED
  BY <1>1, <1>2, <1>3, <1>4, DataKept DEF RInv, env

(* The second query arms the gate for the time it returns.                 *)
LEMMA LookAheadStep == RInv /\ LookAhead => RInv'
<1> SUFFICES ASSUME RInv, LookAhead PROVE RInv'
  OBVIOUS
<1>1. /\ UNCHANGED <<now, env>> /\ gate' \in Gate!Gate /\ GateSound'
      /\ reader' \in Reader /\ reader'.buf = reader.buf /\ reader'.off = reader.off
      /\ reader'.t0 = 0 /\ reader'.pc = "select"
      /\ gate'.deadline # Off /\ gate'.deadline <= reader'.look
  BY LookAheadEffect DEF RInv
<1>2. TypeOK'
  BY <1>1 DEF RInv, TypeOK, env
<1>3. OffsetDue'
  BY <1>1, KeysInPlay DEF RInv, OffsetDue
<1>4. QueryQuiet' /\ LookAheadArmed'
  BY <1>1 DEF QueryQuiet, LookAheadArmed
<1>5. QED
  BY <1>1, <1>2, <1>3, <1>4, DataKept DEF RInv, env

(* A notice only ever makes the gate fire earlier.                         *)
LEMMA NoticeStep == RInv /\ Notice => RInv'
<1> SUFFICES ASSUME RInv, Notice PROVE RInv'
  OBVIOUS
<1>1. PICK t \in notices : Gate!Update(t) /\ notices' = notices \ {t}
  BY DEF Notice
<1>2. TypeOK /\ GateSound /\ gate \in Gate!Gate /\ t \in Gate!Time
      /\ UNCHANGED <<reader, rows, loss, closing, fresh, sent>>
  BY Times DEF RInv, TypeOK, Notice
<1>3. /\ gate' \in Gate!Gate /\ GateSound' /\ now' = now
      /\ gate'.deadline # Off
      /\ gate.deadline # Off => gate'.deadline <= gate.deadline
      /\ Gate!Rung => Gate!Rung'
  BY <1>1, <1>2, UpdateArms
<1>4. TypeOK' /\ OffsetDue' /\ QueryQuiet'
  BY <1>1, <1>2, <1>3 DEF RInv, TypeOK, OffsetDue, QueryQuiet
<1>5. LookAheadArmed'
  <2>1. SUFFICES ASSUME reader.pc = "select", reader.look # Off,
                        gate.deadline # Off, gate.deadline <= reader.look
                 PROVE  gate'.deadline <= reader.look
    BY <1>2, <1>3 DEF RInv, LookAheadArmed
  <2>2. gate.deadline \in Int /\ gate'.deadline \in Int /\ reader.look \in Int
    BY <1>2, <1>3, <2>1, Times DEF Gate!Gate, Gate!Time, TypeOK, Reader
  <2>3. QED
    BY <1>3, <2>1, <2>2
<1>6. QED
  BY <1>2, <1>3, <1>4, <1>5, DataKept DEF RInv

(* What is sent is the first of readTimers.                                *)
LEMMA SendStep == RInv /\ Send => RInv'
<1> SUFFICES ASSUME RInv, Send PROVE RInv'
  OBVIOUS
<1> DEFINE r == Head(reader.buf)
<1>1. TypeOK /\ reader \in Reader /\ reader.buf \in SUBSET Timer
  BY DEF RInv, TypeOK, Reader
<1>2. r \in reader.buf /\ \A b \in reader.buf : NotAfter(r, b)
  BY <1>1, TimersEnds DEF Send
<1>3. /\ sent' = sent \cup {r} /\ fresh' = fresh \ sent'
      /\ UNCHANGED <<now, gate, rows, notices, loss, closing>>
      /\ reader.pc = "select"
  BY DEF Send, NextToSend
<1>4. /\ reader' \in Reader /\ reader'.buf = reader.buf \ {r} /\ reader'.off = reader.off
      /\ reader'.pc = reader.pc /\ reader'.t0 = reader.t0 /\ reader'.look = reader.look
  BY <1>1 DEF Send, NextToSend, Reader
<1>5. TypeOK' /\ GateSound' /\ OffsetDue' /\ QueryQuiet'
  BY <1>1, <1>2, <1>3, <1>4 DEF RInv, TypeOK, GateSound, OffsetDue, QueryQuiet
<1>6. LookAheadArmed'
  BY <1>3, <1>4 DEF RInv, LookAheadArmed, Gate!Rung
<1>7. InOrder' /\ NoTimerSkipped'
  BY <1>2, <1>3, <1>4 DEF RInv, InOrder, NoTimerSkipped
<1>8. QED
  BY <1>5, <1>6, <1>7 DEF RInv

(* A new timer for later is after the offset, which is of a time past.     *)
LEMMA InsertStep == RInv /\ (\E r \in Timer : Insert(r)) => RInv'
<1> SUFFICES ASSUME RInv, NEW r \in Timer, Insert(r) PROVE RInv'
  OBVIOUS
<1>1. TypeOK /\ r \in AnyKey /\ r.at \in 0 .. Horizon
  BY OffsetsAreKeys DEF RInv, Timer, Key
<1>2. /\ rows' = rows \cup {r} /\ fresh' \in {fresh, fresh \cup {r}}
      /\ r.at > now \/ fresh' = fresh
      /\ notices' \in {notices, notices \cup {r.at}}
      /\ UNCHANGED <<now, gate, reader, loss, closing, sent>>
      /\ r \notin rows \cup fresh \cup sent
  BY DEF Insert, RowsOf
<1>3. TypeOK'
  BY <1>1, <1>2 DEF TypeOK
<1>4. GateSound' /\ OffsetDue' /\ QueryQuiet' /\ LookAheadArmed' /\ InOrder'
  BY <1>2 DEF RInv, GateSound, OffsetDue, QueryQuiet, LookAheadArmed, InOrder, Gate!Rung
<1>5. NoTimerSkipped'
  <2>1. r.at > now => ~NotAfter(r, reader.off)
    BY <1>1, KeysInPlay DEF RInv, OffsetDue, NotAfter
  <2>2. QED
    BY <1>2, <2>1 DEF RInv, NoTimerSkipped
<1>6. QED
  BY <1>3, <1>4, <1>5 DEF RInv

(* A timer that the deleter removes was read, and is in readTimers or was  *)
(* sent.                                                                   *)
LEMMA DeleteStep == RInv /\ (\E k \in sent : RangeDelete(k)) => RInv'
<1> SUFFICES ASSUME RInv, NEW k \in sent, RangeDelete(k) PROVE RInv'
  OBVIOUS
<1>1. TypeOK /\ k \in AnyKey /\ reader.off \in AnyKey /\ fresh \subseteq AnyKey
  BY KeysInPlay DEF RInv
<1>2. /\ rows' = rows \ Between(rows, ZeroOffset, k)
      /\ UNCHANGED <<now, gate, reader, notices, loss, closing, fresh, sent>>
  BY DEF RangeDelete
<1>3. TypeOK' /\ GateSound' /\ OffsetDue' /\ QueryQuiet' /\ LookAheadArmed' /\ InOrder'
  BY <1>2 DEF RInv, TypeOK, GateSound, OffsetDue, QueryQuiet, LookAheadArmed, InOrder, Gate!Rung
<1>4. NotAfter(k, reader.off)
  BY DEF RInv, InOrder
<1>5. ASSUME NEW r \in fresh, NotAfter(r, k) PROVE r \in reader.buf \cup sent
  <2>1. NotAfter(r, reader.off)
    BY <1>1, <1>4, <1>5, KeyTransitive
  <2>2. QED
    BY <2>1 DEF RInv, NoTimerSkipped
<1>6. NoTimerSkipped'
  BY <1>2, <1>5 DEF RInv, NoTimerSkipped, Between
<1>7. QED
  BY <1>3, <1>6 DEF RInv

(* The gate's own goroutine never takes a wake-up time without ringing.    *)
LEMMA GateStep == RInv /\ GateGoroutine => RInv'
<1> SUFFICES ASSUME RInv, GateGoroutine PROVE RInv'
  OBVIOUS
<1>1. /\ gate' \in Gate!Gate /\ GateSound' /\ now' = now
      /\ Gate!Rung => Gate!Rung'
      /\ gate'.deadline = gate.deadline \/ Gate!Rung'
  BY GoroutineRings DEF RInv, TypeOK, GateGoroutine
<1>2. UNCHANGED <<reader, env>>
  BY DEF GateGoroutine
<1>3. TypeOK' /\ OffsetDue' /\ QueryQuiet' /\ LookAheadArmed'
  BY <1>1, <1>2 DEF RInv, TypeOK, OffsetDue, QueryQuiet, LookAheadArmed, env
<1>4. QED
  BY <1>1, <1>2, <1>3, DataKept DEF RInv, env

(* Time passes: what was due stays due.                                    *)
LEMMA TickStep == RInv /\ Tick => RInv'
<1> SUFFICES ASSUME RInv, Tick PROVE RInv'
  OBVIOUS
<1>1. now' = now + 1 /\ now' \in 0 .. Horizon /\ UNCHANGED <<gate, reader, env>>
  BY LookAheadAssumption DEF RInv, TypeOK, Tick
<1>2. TypeOK' /\ GateSound' /\ QueryQuiet' /\ LookAheadArmed'
  BY <1>1 DEF RInv, TypeOK, GateSound, QueryQuiet, LookAheadArmed, Gate!Rung, env
<1>3. OffsetDue'
  BY <1>1, KeysInPlay DEF RInv, OffsetDue
<1>4. QED
  BY <1>1, <1>2, <1>3, DataKept DEF RInv, env

(* Stopping, losing the shard and being closed.                            *)
LEMMA StopStep ==
  RInv /\ (StopOnLoss \/ StopOnClose \/ OwnershipLost \/ Close \/ UNCHANGED vars) => RInv'
<1> SUFFICES ASSUME RInv, StopOnLoss \/ StopOnClose \/ OwnershipLost \/ Close \/ UNCHANGED vars
             PROVE  RInv'
  OBVIOUS
<1>1. reader \in Reader
  BY DEF RInv, TypeOK
<1>2. /\ UNCHANGED <<now, gate, rows, notices, fresh, sent>>
      /\ loss' \in {loss, TRUE} /\ closing' \in {closing, TRUE}
  BY DEF StopOnLoss, StopOnClose, OwnershipLost, Close, vars, env
<1>3. /\ reader' \in Reader /\ reader'.pc \in {reader.pc, "stopped", "panicked"}
      /\ reader'.buf = reader.buf /\ reader'.off = reader.off
      /\ reader'.t0 = reader.t0 /\ reader'.look = reader.look
  BY <1>1 DEF StopOnLoss, StopOnClose, OwnershipLost, Close, vars, env, Reader
<1>4. TypeOK' /\ GateSound' /\ OffsetDue' /\ QueryQuiet' /\ LookAheadArmed'
  BY <1>2, <1>3 DEF RInv, TypeOK, GateSound, OffsetDue, QueryQuiet, LookAheadArmed, Gate!Rung
<1>5. QED
  BY <1>2, <1>3, <1>4, DataKept DEF RInv

(* Every step of reader, gate and environment keeps the invariant.         *)
LEMMA RInvStep == RInv /\ [Next]_vars => RInv'
BY FireStep, ReadStep, GivesUpStep, LookAheadStep, NoticeStep, SendStep, InsertStep,
   DeleteStep, GateStep, TickStep, StopStep DEF Next, Goroutine, Environment

(* The invariant holds in every reachable state.                           *)
LEMMA RInvAlways == Spec => []RInv
BY RInvInit, RInvStep, PTL DEF Spec

-----------------------------------------------------------------------------
(* Type correctness of the reader (batchReaderImpl) and its gate.          *)
THEOREM ReaderTypeCorrect == Spec => []TypeOK
BY RInvAlways, PTL DEF RInv

(* No timer created in time is lost between the read offset of             *)
(* readTimersAndLookAheadFromDatabase, the clock and the deleter, whatever *)
(* reads fail and whenever timers are inserted and deleted.                *)
THEOREM ReaderSkipsNothing == Spec => []NoTimerSkipped
BY RInvAlways, PTL DEF RInv

(* A reader that waits with a lookAheadTime is woken by then: neither      *)
(* notices nor expiries already on their way postpone timerGate.           *)
THEOREM ReaderIsArmed == Spec => []LookAheadArmed
BY RInvAlways, PTL DEF RInv

(* Whatever is handed to the loading buffer, new or once more, is due and  *)
(* not before anything handed over so far.                                 *)
THEOREM ReaderInOrder == Spec => DueAndInOrder
<1>1. ASSUME RInv, [Next]_vars, NEW r \in reader.buf \ reader'.buf
      PROVE  r.at <= now /\ \A q \in sent : NotAfter(q, r)
  <2>1. TypeOK /\ r \in Timer /\ r \in reader.buf
    BY <1>1 DEF RInv, TypeOK, Reader
  <2>2. r \in AnyKey /\ reader.off \in AnyKey
    BY <2>1, KeysInPlay
  <2>3. NotAfter(r, reader.off) /\ \A q \in sent : NotAfter(q, r)
    BY <1>1, <2>1 DEF RInv, InOrder
  <2>4. r.at <= reader.off.at /\ r.at \in Int
    BY <2>2, <2>3 DEF NotAfter, AnyKey, Key
  <2>5. QED
    BY <1>1, <2>1, <2>3, <2>4, KeysInPlay DEF RInv, OffsetDue
<1>2. RInv /\ [Next]_vars =>
        [\A r \in reader.buf \ reader'.buf :
           r.at <= now /\ \A q \in sent : NotAfter(q, r)]_vars
  BY <1>1
<1>3. QED
  BY <1>2, RInvAlways, PTL DEF Spec, DueAndInOrder
=============================================================================
