---------------------------- MODULE ShardEngine -----------------------------
(***************************************************************************)
(* One shard of the service: the processes that own it in turn or believe  *)
(* they do (the module ShardOwnership), each with the reader, the queue's  *)
(* list and the deleter of that shard, over one table of timers.  Reader   *)
(* and deleter are modules of their own (BatchReader, BatchDeleter); here  *)
(* they are their effects on offsets and rows, so that several owners, a   *)
(* restart from the committed offset, clocks that differ and the unfenced  *)
(* range delete meet.                                                      *)
(*                                                                         *)
(* External: the callers that create and move timers, and the TimerQueue   *)
(* and CallbackProcessor as engine/interfaces.go describes them: timers    *)
(* are taken in key order, completed in any order, and when the first of   *)
(* the list is completed it is removed and reported to the deleter.        *)
(***************************************************************************)
EXTENDS TimerRows

CONSTANTS Instance,         \* server processes
          Nobody,           \* no process
          MaxTime,          \* bound on the clock
          Timer,            \* keys timers may have: execution time and uuid
          MaxId,            \* databases.MaxUUID
          MinTimerDuration, \* EngineConfig.MinTimerDuration
          Lag,              \* by how much a clock is behind, when a row appears
          MinLookAhead,     \* MinLookAheadTimeDuration
          Limit,            \* BatchReadLimitPerRequest
          MaxVersion,       \* bound on the number of claims
          WriteErrors       \* may a database write end in an error on the client?

ASSUME TimerAssumption == Timer \subseteq Key(Nat \ {0}, 1 .. MaxId)
ASSUME TimeAssumption ==
  MaxTime \in Nat /\ MaxId \in Nat /\ MinLookAhead \in Nat /\ Limit \in Nat \ {0}
(* config/engine.go on MinTimerDuration: it is there for the time skew     *)
(* between the process that inserts a timer and the owner of the shard.    *)
(* Lag is that skew and what passes between reading the clock and the row. *)
ASSUME ClocksAssumption ==
  MinTimerDuration \in Nat /\ Lag \in Nat /\ Lag < MinTimerDuration

\* What the ownership protocol assumes of its parameters.
ASSUME OwnershipAssumption ==
  MaxVersion \in Nat \ {0} /\ Nobody \notin Instance /\ WriteErrors \in BOOLEAN

\* ShardMetadata{} of a shard that never committed an offset, and nil.
ZeroOffset == [at |-> 0, id |-> 0]
Offset == Timer \cup {ZeroOffset}

VARIABLES shard, status, read, ver, meta,  \* see ShardOwnership
          now,     \* the most advanced clock
          rows,    \* the timers of the shard in the database
          engine,  \* per instance: reader, list and deleter of the shard
          done     \* history: the rows whose callback completed

Own == INSTANCE ShardOwnership

ownership == <<shard, status, read, ver, meta>>
store == <<now, rows, done>>
vars == <<ownership, store, engine>>

(* off   lastReadOffset of the reader                                      *)
(* list  the shard's list in the queue, with what the reader still has     *)
(*       to hand over                                                      *)
(* fin   the timers of the list whose callback completed                   *)
(* recv  receivedOffset of the deleter                                     *)
Engine == [off : Offset, list : SUBSET Timer, fin : SUBSET Timer, recv : Offset]

TypeOK == /\ Own!TypeOK
          /\ now \in 0 .. MaxTime
          /\ rows \subseteq Timer /\ done \subseteq rows
          /\ engine \in [Instance -> Engine]

(* newBatchReaderImpl reads on from the cached metadata; the deleter has   *)
(* received nothing.                                                       *)
NewEngine(o) == [off |-> o, list |-> {}, fin |-> {}, recv |-> ZeroOffset]

Init == /\ Own!Init
        /\ now = 0 /\ rows = {} /\ done = {}
        /\ engine = [i \in Instance |-> NewEngine(ZeroOffset)]

\* What the clocks of the processes may show.
Clock == (now - Lag) .. now

-----------------------------------------------------------------------------
(* Ownership.                                                              *)
ClaimRead(i) == Own!ClaimRead(i) /\ UNCHANGED <<store, engine>>

ClaimError(i) == Own!ClaimError(i) /\ UNCHANGED <<store, engine>>

(* With the claim the parts of the shard are created.                      *)
ClaimWrite(i) ==
  /\ Own!ClaimWrite(i)
  /\ engine' = [engine EXCEPT ![i] = IF Own!Live(i)' THEN NewEngine(meta'[i]) ELSE @]
  /\ UNCHANGED store

(* Reader, list and deleter are lost with the process.  An owner that lost *)
(* its shard goes on until then, or until its goroutines notice, which is  *)
(* the same: that it may also give up the shard by itself adds nothing.    *)
Crash(i) ==
  /\ Own!Crash(i)
  /\ engine' = [engine EXCEPT ![i] = NewEngine(ZeroOffset)]
  /\ UNCHANGED store

-----------------------------------------------------------------------------
(* The reader, at clock t.                                                 *)
EndOf(t) == [at |-> t, id |-> MaxId]

Ready(i, t) ==
  {r \in RangeGet(rows, engine[i].off, EndOf(t + MinLookAhead), Limit) : r.at <= t}

\* MUTANT: the offset moves to the end of the range, not of what was ready.
OffsetAtEnd(i, t) == EndOf(t + MinLookAhead)

OffsetAfter(i, t) == Last(Ready(i, t))

Read(i, t) ==
  /\ Own!Live(i)
  /\ Ready(i, t) # {}
  /\ engine' = [engine EXCEPT ![i].off = OffsetAfter(i, t), ![i].list = @ \cup Ready(i, t)]
  /\ UNCHANGED <<ownership, store>>

(* A callback of the instance completes.                                   *)
Complete(i, r) ==
  /\ Own!Live(i)
  /\ r \in engine[i].list \ engine[i].fin
  /\ engine' = [engine EXCEPT ![i].fin = @ \cup {r}]
  /\ done' = done \cup ({r} \cap rows)
  /\ UNCHANGED <<ownership, now, rows>>

\* MUTANT: any completed timer is reported, not only the first of the list.
FirstCompleted(i, r) == r \in engine[i].fin

\* r is the first timer of the list, and completed.
Reported(i, r) == r \in engine[i].fin /\ r = Head(engine[i].list)

(* The first timer of the list leaves it and is sent to the deleter.       *)
Notify(i, r) ==
  /\ Own!Live(i)
  /\ engine[i].list # {} /\ Reported(i, r)
  /\ engine' = [engine EXCEPT ![i].list = @ \ {r}, ![i].fin = @ \ {r}, ![i].recv = r]
  /\ UNCHANGED <<ownership, store>>

-----------------------------------------------------------------------------
(* The deleter.                                                            *)
commitOffset(i) ==
  /\ engine[i].recv # ZeroOffset
  /\ \/ Own!UpdateShardMetadata(i, engine[i].recv)
     \/ Own!UpdateShardMetadataError(i, engine[i].recv)
  /\ UNCHANGED <<store, engine>>

\* MUTANT: the range ends at what was read, not at what was completed.
DeleteRangeToRead(i) == Between(rows, ZeroOffset, engine[i].off)

DeleteRange(i) == Between(rows, ZeroOffset, engine[i].recv)

(* RangeDeleteWithLimit carries no version: what it removes of the range   *)
(* depends on the limit, on the store and on whether the call failed.      *)
deleteTimers(i) ==
  /\ Own!Live(i)
  /\ \E gone \in SUBSET DeleteRange(i) : rows' = rows \ gone
  /\ done' = done \cap rows'
  /\ UNCHANGED <<ownership, now, engine>>

-----------------------------------------------------------------------------
(* Callers, through any process.                                           *)

(* Durations below the minimum are rounded up, on the slowest clock.       *)
LongEnough(r) == r.at >= now - Lag + MinTimerDuration

(* CreateTimer or UpdateTimer: an existing timer moves, but Cassandra's    *)
(* CreateTimer leaves its other row.                                       *)
Put(r) ==
  /\ LongEnough(r)
  /\ rows' \in {rows \cup {r}, (rows \ RowsOf(rows, r.id)) \cup {r}}
  /\ done' = done \cap rows'
  /\ UNCHANGED <<ownership, now, engine>>

Tick == /\ now < MaxTime
        /\ now' = now + 1
        /\ UNCHANGED <<ownership, rows, done, engine>>

InstanceStep(i) ==
  \/ ClaimRead(i) \/ ClaimWrite(i) \/ ClaimError(i) \/ Crash(i)
  \/ \E t \in Clock : Read(i, t)
  \/ \E r \in Timer : Complete(i, r) \/ Notify(i, r)
  \/ commitOffset(i) \/ deleteTimers(i)

Next == \/ \E i \in Instance : InstanceStep(i)
        \/ \E r \in Timer : Put(r)
        \/ Tick

Spec == Init /\ [][Next]_vars

-----------------------------------------------------------------------------
\* The timers whose callback is still owed.
Owed == rows \ done

(* Whoever owns the shard next, from whatever metadata its claim read, and *)
(* whoever believes to own it now, still meets every timer that is owed:   *)
(* no committed offset covers one, and no reader is past one that is not   *)
(* in its list.  Owners, crashes, commits with unknown outcome, stale      *)
(* metadata and timers put by processes with another clock included.       *)
NothingSkipped ==
  /\ \A r \in Owed : Before(shard.metadata, r)
  /\ \A i \in Instance : Own!Live(i) => \A r \in Owed :
       NotAfter(r, engine[i].off) => r \in engine[i].list \ engine[i].fin

Durable == INSTANCE DurableTimers WITH time <- now, waiting <- Owed

(* The shard keeps the promise of REQUIREMENTS.md NFR-1.2 as far as safety *)
(* goes: no timer is called back early, and only its callback, or being    *)
(* put again, ends its waiting, never a range delete, although that        *)
(* carries no shard version and a superseded owner goes on with it.        *)
NothingLost == Durable!Spec
=============================================================================
