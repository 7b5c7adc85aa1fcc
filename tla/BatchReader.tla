---------------------------- MODULE BatchReader -----------------------------
(***************************************************************************)
(* batchReaderImpl (engine/batch_reader.go): one goroutine that sleeps on  *)
(* its timer gate, reads the due timers of its shard in key order, hands   *)
(* them one by one to the loading buffer and sets the next wake-up time.   *)
(* The gate is the module TimerGate, sharing the clock.  External: the     *)
(* callers that insert timers and announce them on newTimerChannel, the    *)
(* TimerQueue that takes timers from the loading buffer, the deleter that  *)
(* removes what was delivered.                                             *)
(*                                                                         *)
(* NilDbErrorIsNil is FALSE for the code as written: op assigns the        *)
(* *DbError of RangeGetTimers to a variable of type error, a nil *DbError  *)
(* becomes a non-nil error, and every read counts as failed.  TRUE is the  *)
(* same reader with that test repaired.                                    *)
(***************************************************************************)
EXTENDS TimerRows

CONSTANTS Off,              \* the gate is not armed; lookAheadTime is nil
          Id,               \* timers, ordered as their uuids
          MaxId,            \* databases.MaxUUID
          Horizon,          \* bound on the clock
          MinLookAhead,     \* MinLookAheadTimeDuration
          MaxLookAhead,     \* MaxLookAheadTimeDuration
          Limit,            \* BatchReadLimitPerRequest
          NilDbErrorIsNil,  \* see above
          DbMayFail         \* may RangeGetTimers fail for longer than the retries last?

ASSUME OffAssumption == Off \notin Nat
ASSUME IdAssumption == Id \subseteq Nat /\ MaxId \in Nat /\ \A i \in Id : i <= MaxId
ASSUME LookAheadAssumption ==
  Horizon \in Nat /\ MinLookAhead \in Nat /\ MaxLookAhead \in Nat
ASSUME LimitAssumption == Limit \in Nat \ {0}
ASSUME FlagsAssumption == NilDbErrorIsNil \in BOOLEAN /\ DbMayFail \in BOOLEAN

VARIABLES now,      \* the clock
          gate,     \* nextWakeupTime
          reader,   \* the goroutine: its local state and lastReadOffset
          rows,     \* the timers of the shard in the database
          notices,  \* execution times on their way in newTimerChannel
          loss,     \* the ownership-loss channel is closed
          closing,  \* the reader's closeChan is closed
          fresh,    \* history: timers inserted for the future and not sent yet
          sent      \* history: timers handed to the loading buffer

MaxTime == Horizon + MaxLookAhead
Timer == Key(0 .. Horizon, Id)

Gate == INSTANCE TimerGate

env == <<rows, notices, loss, closing, fresh, sent>>
vars == <<now, gate, reader, env>>

\* ShardMetadata{} of a shard that never committed an offset.
ZeroOffset == [at |-> 0, id |-> 0]

(* pc    "select" in run, "read" and "look" inside the two queries         *)
(* buf   readTimers; they are always in key order                          *)
(* off   lastReadOffset                                                    *)
(* t0    the time the signal was taken, zero when no query is under way    *)
(* look  lookAheadTime as the last read left it, until the next signal     *)
Reader == [pc : {"select", "read", "look", "stopped", "panicked"}, buf : SUBSET Timer,
           off : Timer \cup {ZeroOffset}, t0 : 0 .. Horizon, look : (0 .. MaxTime) \cup {Off}]

TypeOK == /\ now \in 0 .. Horizon
          /\ gate \in Gate!Gate
          /\ reader \in Reader
          /\ rows \subseteq Timer /\ fresh \subseteq Timer /\ sent \subseteq Timer
          /\ notices \subseteq 0 .. Horizon
          /\ loss \in BOOLEAN /\ closing \in BOOLEAN

(* newBatchReaderImpl and the first statements of run.                     *)
NewReader == [pc |-> "select", buf |-> {}, off |-> ZeroOffset, t0 |-> 0, look |-> Off]

Init == /\ now = 0
        /\ gate = [Gate!NewGate EXCEPT !.active = TRUE, !.deadline = 0]
        /\ reader = NewReader
        /\ rows \in SUBSET {[at |-> 0, id |-> i] : i \in Id}
        /\ notices = {} /\ fresh = {} /\ sent = {}
        /\ loss = FALSE /\ closing = FALSE

-----------------------------------------------------------------------------
(* The goroutine.                                                          *)
Idle == reader.pc = "select" /\ reader.buf = {}

(* The gate's signal: the clock is read and the first query starts.        *)
Fire ==
  /\ Idle
  /\ Gate!TakeSignal
  /\ reader' = [reader EXCEPT !.pc = "read", !.t0 = now, !.look = Off]
  /\ UNCHANGED env

EndOf(t) == [at |-> t, id |-> MaxId]
Batch == RangeGet(rows, reader.off, EndOf(reader.t0 + MinLookAhead), Limit)

\* MUTANT: everything in the look-ahead window is taken for ready.
ReadyAll(batch) == batch
Ready(batch) == {r \in batch : r.at <= reader.t0}

\* MUTANT: the offset moves to the end of the batch that was read.
OffsetAfterBatch(batch) == IF batch = {} THEN reader.off ELSE Last(batch)

OffsetAfter(batch) == IF Ready(batch) = {} THEN reader.off ELSE Last(Ready(batch))

\* MUTANT: the next timer is returned, but the gate is not set to it.
WakeUpForgotten(t) == UNCHANGED <<gate, now>>
\* MUTANT: the look-ahead duration is added to a time that includes it.
WakeUpLate(t) == Gate!Update(t + MaxLookAhead)

WakeUpAt(t) == Gate!Update(t)

(* The first query, answered.  Only a batch that ends in the future gives  *)
(* a wake-up time; a batch of ready timers leaves lookAheadTime nil.       *)
Read ==
  /\ reader.pc = "read"
  /\ NilDbErrorIsNil
  /\ LET future == Batch \ Ready(Batch) IN
     \/ /\ future # {}
        /\ reader' = [reader EXCEPT !.pc = "select", !.t0 = 0, !.buf = Ready(Batch),
                                    !.off = OffsetAfter(Batch), !.look = Head(future).at]
        /\ WakeUpAt(Head(future).at)
     \/ /\ future = {} /\ Ready(Batch) # {}
        /\ reader' = [reader EXCEPT !.pc = "select", !.t0 = 0, !.buf = Ready(Batch),
                                    !.off = OffsetAfter(Batch)]
        /\ UNCHANGED <<now, gate>>
     \/ /\ Batch = {}
        /\ reader' = [reader EXCEPT !.pc = "look"]
        /\ UNCHANGED <<now, gate>>
  /\ UNCHANGED env

(* ThrottleRetry.Do gives up after its expiration interval: nil, nil.      *)
ReadGivesUp ==
  /\ reader.pc = "read"
  /\ DbMayFail \/ ~NilDbErrorIsNil
  /\ reader' = [reader EXCEPT !.pc = "select", !.t0 = 0]
  /\ UNCHANGED <<now, gate, env>>

(* findNextWakeupTimeWithMaxLookAhead: the default on an error, or when    *)
(* nothing is found.  The query has no timeout and is not retried: it may  *)
(* never be answered, which is this action not being taken.                *)
LookAhead ==
  /\ reader.pc = "look"
  /\ LET end == reader.t0 + MaxLookAhead
         found == RangeGet(rows, reader.off, EndOf(end), 1)
     IN \E t \in {r.at : r \in found} \cup (IF found = {} \/ DbMayFail THEN {end} ELSE {}) :
          /\ reader' = [reader EXCEPT !.pc = "select", !.t0 = 0, !.look = t]
          /\ WakeUpAt(t)
  /\ UNCHANGED env

(* A notice from newTimerChannel; both selects take it.                    *)
Notice ==
  /\ reader.pc = "select"
  /\ \E t \in notices : Gate!Update(t) /\ notices' = notices \ {t}
  /\ UNCHANGED <<reader, rows, loss, closing, fresh, sent>>

NextToSend(buf) == Head(buf)

(* loadingBufferChannel <- readTimers[0]                                   *)
Send ==
  /\ reader.pc = "select"
  /\ reader.buf # {}
  /\ reader' = [reader EXCEPT !.buf = @ \ {NextToSend(@)}]
  /\ sent' = sent \cup {NextToSend(reader.buf)}
  /\ fresh' = fresh \ sent'
  /\ UNCHANGED <<now, gate, rows, notices, loss, closing>>

\* MUTANT: the select that sends timers has no branch for the loss channel.
ListensToLossWhenIdle == Idle

ListensToLoss == reader.pc = "select"

(* The ownership-loss branch calls Close, which panics on a closed         *)
(* channel.                                                                *)
StopOnLoss ==
  /\ ListensToLoss
  /\ loss
  /\ closing' = TRUE
  /\ reader' = [reader EXCEPT !.pc = IF closing THEN "panicked" ELSE "stopped"]
  /\ UNCHANGED <<now, gate, rows, notices, loss, fresh, sent>>

StopOnClose ==
  /\ reader.pc = "select"
  /\ closing
  /\ reader' = [reader EXCEPT !.pc = "stopped"]
  /\ UNCHANGED <<now, gate, env>>

Goroutine ==
  \/ Fire \/ Read \/ ReadGivesUp \/ LookAhead
  \/ Notice \/ Send \/ StopOnLoss \/ StopOnClose

-----------------------------------------------------------------------------
(* The environment.                                                        *)

(* A timer is created, by this process, which announces it, or by another  *)
(* one.                                                                    *)
Insert(r) ==
  /\ RowsOf(rows \cup fresh \cup sent, r.id) = {}
  /\ rows' = rows \cup {r}
  /\ fresh' = IF r.at > now THEN fresh \cup {r} ELSE fresh
  /\ notices' \in {notices, notices \cup {r.at}}
  /\ UNCHANGED <<now, gate, reader, loss, closing, sent>>

(* The deleter removes everything up to a timer that was delivered.        *)
RangeDelete(k) ==
  /\ k \in sent
  /\ Between(rows, ZeroOffset, k) # {}
  /\ rows' = rows \ Between(rows, ZeroOffset, k)
  /\ UNCHANGED <<now, gate, reader, notices, loss, closing, fresh, sent>>

OwnershipLost ==
  /\ ~loss
  /\ loss' = TRUE
  /\ UNCHANGED <<now, gate, reader, rows, notices, closing, fresh, sent>>

(* Close, called by the owner of the reader, once and only while it runs.  *)
Close ==
  /\ ~closing
  /\ closing' = TRUE
  /\ UNCHANGED <<now, gate, reader, rows, notices, loss, fresh, sent>>

Tick == /\ now < Horizon
        /\ now' = now + 1
        /\ UNCHANGED <<gate, reader, env>>

Environment ==
  \/ \E r \in Timer : Insert(r)
  \/ \E k \in sent : RangeDelete(k)
  \/ OwnershipLost \/ Close \/ Tick

GateGoroutine == Gate!Goroutine /\ UNCHANGED <<reader, env>>

Next == Goroutine \/ GateGoroutine \/ Environment

Spec == Init /\ [][Next]_vars

(* The first query ends: each attempt has DatabaseAPITimeout and the       *)
(* retries expire.  A select that keeps finding the loss channel ready     *)
(* takes that branch in the end: Go chooses at random among the ready      *)
(* ones.  Nothing is assumed of the second query, which has no timeout, of *)
(* the clock, of the gate, or of the TimerQueue at the other end of the    *)
(* loading buffer.                                                         *)
FairSpec == Spec /\ WF_vars(Read \/ ReadGivesUp) /\ SF_vars(StopOnLoss)

(* Time passes, both goroutines run, the database answers, and the         *)
(* TimerQueue drains its channel as well.                                  *)
DrainedSpec ==
  /\ FairSpec /\ WF_vars(LookAhead)
  /\ WF_vars(GateGoroutine) /\ WF_vars(Tick)
  /\ WF_vars(Fire) /\ WF_vars(Notice) /\ WF_vars(Send) /\ SF_vars(StopOnClose)

-----------------------------------------------------------------------------
(* A timer created for a time still in the future is never lost between    *)
(* the clock, the read offset and the deleter: until it was delivered it   *)
(* is in the database or in readTimers, and the read offset only passes it *)
(* when it was read (readTimersAndLookAheadFromDatabase).                  *)
NoTimerSkipped ==
  \A r \in fresh :
    /\ r \in rows \cup reader.buf \cup sent
    /\ NotAfter(r, reader.off) => r \in reader.buf \cup sent

(* Timers reach the loading buffer when they are due, never before, and in *)
(* key order across all batches, also those that are handed over again     *)
(* because a range includes its start: nothing that was sent is after the  *)
(* one that is sent now, so that only the last one is ever repeated.  The  *)
(* deleter's single offset per shard relies on this order.                 *)
DueAndInOrder ==
  [][\A r \in reader.buf \ reader'.buf :
       r.at <= now /\ \A q \in sent : NotAfter(q, r)]_vars

(* Whenever the reader waits with a lookAheadTime, its gate fires then or  *)
(* earlier: no notice, stale expiry or later wake-up time postpones it.    *)
LookAheadArmed ==
  reader.pc = "select" /\ reader.look # Off =>
    \/ gate.deadline # Off /\ gate.deadline <= reader.look
    \/ Gate!Rung

(* A lost shard stops its reader, also while the TimerQueue takes no more  *)
(* timers or the first query is retried until it is given up; unless the   *)
(* reader hangs in the second query for ever.                              *)
LossStopsReader ==
  \/ <>[](reader.pc = "look")
  \/ loss ~> reader.pc \in {"stopped", "panicked"}

(* config/engine.go:47, "DatabaseAPITimeout is the timeout for the         *)
(* database API calls": no call keeps the reader from hearing that its     *)
(* shard is lost.                                                          *)
LossAlwaysStopsReader == loss ~> reader.pc \in {"stopped", "panicked"}

(* engine/batch_reader.go on readTimersAndLookAheadFromDatabase: "either   *)
(* timers are found, or lookAheadTime is set, or both".                    *)
ReadFindsOrLooksAhead ==
  [][reader.pc \in {"read", "look"} /\ reader'.pc = "select" =>
       reader'.buf # {} \/ reader'.look # Off]_vars

(* REQUIREMENTS.md NFR-1.2, at-least-once delivery: a timer that was       *)
(* created in time is delivered, as long as the shard is kept.             *)
FreshTimersDelivered ==
  \A r \in Timer : (r \in fresh) ~> (r \in sent \/ loss \/ closing)
=============================================================================
