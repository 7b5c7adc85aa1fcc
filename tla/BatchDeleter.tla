---------------------------- MODULE BatchDeleter ----------------------------
(***************************************************************************)
(* batchDeleterImpl (engine/batch_deleter.go): one goroutine that receives *)
(* the offset up to which the timers of its shard are completed, commits   *)
(* it to the shard metadata and range-deletes the completed timers.  Both  *)
(* timers of its select are created anew each time round the loop.         *)
(*                                                                         *)
(* Timers are the positions 1 .. N in key order; offset 0 stands for nil.  *)
(* Time is counted in steps of the difference that matters between the     *)
(* intervals.  External: the TimerQueue, which completes timers in any     *)
(* order and reports the completed prefix, the owner of the channel, and   *)
(* the instance that takes the shard over.                                 *)
(***************************************************************************)
EXTENDS Integers, FiniteSets

CONSTANTS N,               \* number of timers
          CommitInterval,  \* values of CommittingInterval plus its jitter
          DeleteInterval,  \* values of DeletingInterval plus its jitter
          Limit            \* DeletingBatchLimitPerRequest

ASSUME CountAssumption == N \in Nat \ {0} /\ Limit \in Nat \ {0}
ASSUME IntervalAssumption ==
  /\ CommitInterval \subseteq Nat \ {0} /\ CommitInterval # {} /\ IsFiniteSet(CommitInterval)
  /\ DeleteInterval \subseteq Nat \ {0} /\ DeleteInterval # {} /\ IsFiniteSet(DeleteInterval)

VARIABLES pc,          \* run: in its select, stopped, or the process panicked
          left,        \* what is left of the two timers of the select
          received,    \* receivedOffset
          committed,   \* committedOffset
          stored,      \* the committed offset in the shard record
          rows,        \* the timers in the database
          done,        \* the timers whose callback completed
          superseded,  \* another instance has claimed the shard
          loss,        \* the ownership-loss channel is closed
          channel      \* the shard's offset channel

vars == <<pc, left, received, committed, stored, rows, done, superseded, loss, channel>>

Timer == 1 .. N
Offset == 0 .. N

TypeOK == /\ pc \in {"select", "stopped", "panicked"}
          /\ left \in [commit : Nat, delete : Nat]
          /\ received \in Offset /\ committed \in Offset /\ stored \in Offset
          /\ rows \subseteq Timer /\ done \subseteq Timer
          /\ superseded \in BOOLEAN /\ loss \in BOOLEAN
          /\ channel \in {"open", "closed"}

\* MUTANT: the two configured intervals are mixed up.
SwappedTimers == [commit : DeleteInterval, delete : CommitInterval]

(* getCommitInterval and getDeleteInterval, for one round of the loop.     *)
NewTimers == [commit : CommitInterval, delete : DeleteInterval]

Init == /\ pc = "select"
        /\ left \in NewTimers
        /\ received = 0 /\ committed = 0 /\ stored = 0
        /\ rows = Timer /\ done = {}
        /\ superseded = FALSE /\ loss = FALSE
        /\ channel = "open"

NextRound == pc = "select" /\ UNCHANGED pc /\ left' \in NewTimers

-----------------------------------------------------------------------------
(* An offset from the channel.                                             *)
ReceiveOffset(o) ==
  /\ NextRound
  /\ channel = "open"
  /\ received' = o
  /\ UNCHANGED <<committed, stored, rows, done, superseded, loss, channel>>

(* A closed channel delivers nil for ever; nil is skipped.                 *)
ReceiveNil ==
  /\ NextRound
  /\ channel = "closed"
  /\ UNCHANGED <<received, committed, stored, rows, done, superseded, loss, channel>>

\* MUTANT: the offset is taken for the first timer that is not completed.
OffsetBeyond == received + 1

Completed == received

(* commitOffset: UpdateShardMetadata applies, is fenced off and closes the *)
(* loss channel, or ends in another error after it applied or did not.     *)
CommitApplied == /\ ~superseded
                 /\ stored' = Completed /\ committed' = Completed
                 /\ UNCHANGED loss
CommitFenced == superseded /\ loss' = TRUE /\ UNCHANGED <<stored, committed>>

\* MUTANT: committedOffset is set before the error is looked at.
CommitErrorIgnored == /\ stored' \in {stored} \cup (IF superseded THEN {} ELSE {Completed})
                      /\ committed' = Completed
                      /\ UNCHANGED loss

CommitError == /\ stored' \in {stored} \cup (IF superseded THEN {} ELSE {Completed})
               /\ UNCHANGED <<committed, loss>>

commitOffset ==
  /\ left.commit = 0
  /\ NextRound
  /\ \/ received = 0 /\ UNCHANGED <<stored, committed, loss>>
     \/ received # 0 /\ (CommitApplied \/ CommitFenced \/ CommitError)
  /\ UNCHANGED <<received, rows, done, superseded, channel>>

\* MUTANT: the range ends one timer after the received offset.
DeleteRangeTooFar == {r \in rows : r <= received + 1}

(* From the beginning up to the RECEIVED offset.                           *)
DeleteRange == {r \in rows : r <= received}

(* deleteTimers, not fenced: RangeDeleteWithLimit removes up to Limit rows *)
(* of the range, all of it where the store ignores the limit, none of it   *)
(* or some when the call fails.                                            *)
deleteTimers ==
  /\ left.delete = 0
  /\ NextRound
  /\ \/ received = 0 /\ UNCHANGED rows
     \/ received # 0 /\ \E gone \in SUBSET DeleteRange :
          /\ Cardinality(gone) <= Limit \/ gone = DeleteRange
          /\ rows' = rows \ gone
  /\ UNCHANGED <<received, committed, stored, done, superseded, loss, channel>>

(* The ownership-loss branch calls Close, which closes closeChan; the      *)
(* constructor never makes that channel, and closing nil panics.  For the  *)
(* same reason the closeChan branch of the select is never taken.          *)
StopOnLoss ==
  /\ pc = "select"
  /\ loss
  /\ pc' = "panicked"
  /\ UNCHANGED <<left, received, committed, stored, rows, done, superseded, loss, channel>>

-----------------------------------------------------------------------------
(* The environment.                                                        *)

\* Timers 1 .. o are the completed prefix: what the head of the queue's list gives.
IsPrefix(o) == 1 .. o \subseteq done /\ o + 1 \notin done

Complete(r) ==
  /\ pc = "select"
  /\ done' = done \cup {r}
  /\ r \notin done
  /\ UNCHANGED <<pc, left, received, committed, stored, rows, superseded, loss, channel>>

\* As timers go on coming, so do offsets: one that is repeated stands for the
\* next ones of a stream that does not end.
Notify(o) ==
  /\ IsPrefix(o) /\ o >= received
  /\ ReceiveOffset(o)

Supersede ==
  /\ ~superseded /\ superseded' = TRUE
  /\ UNCHANGED <<pc, left, received, committed, stored, rows, done, loss, channel>>

(* OffsetChannelPerShard.RemoveChannel closes the channel.                 *)
RemoveChannel ==
  /\ channel = "open" /\ channel' = "closed"
  /\ UNCHANGED <<pc, left, received, committed, stored, rows, done, superseded, loss>>

(* The select is woken long before the other timer's turn: time does not   *)
(* pass while one of its timers is due.                                    *)
Tick ==
  /\ pc = "select"
  /\ left.commit > 0 /\ left.delete > 0
  /\ left' = [commit |-> left.commit - 1, delete |-> left.delete - 1]
  /\ UNCHANGED <<pc, received, committed, stored, rows, done, superseded, loss, channel>>

OffsetArrives == \E o \in Timer : Notify(o)

Next == \/ commitOffset \/ deleteTimers \/ OffsetArrives \/ ReceiveNil \/ StopOnLoss
        \/ (\E r \in Timer : Complete(r)) \/ Supersede \/ RemoveChannel \/ Tick

Spec == Init /\ [][Next]_vars

(* The goroutine runs and the clock moves; a database that is called again *)
(* and again answers in the end: it applies a commit or fences it off, and *)
(* deletes something.                                                      *)
FairSpec ==
  /\ Spec
  /\ WF_vars(Tick) /\ WF_vars(commitOffset) /\ WF_vars(deleteTimers)
  /\ WF_vars(StopOnLoss) /\ WF_vars(ReceiveNil)
  /\ SF_vars(commitOffset /\ (CommitApplied \/ CommitFenced))
  /\ SF_vars(deleteTimers /\ rows' # rows)

-----------------------------------------------------------------------------
(* A timer is removed from the database only after its callback completed, *)
(* in whatever order callbacks complete, commits fail and owners change:   *)
(* deleteTimers works on the completed prefix.                             *)
OnlyCompletedDeleted == Timer \ rows \subseteq done

(* An owner that starts over from the stored offset skips no timer that    *)
(* was not completed, although the offset stored may be one whose commit   *)
(* was reported as failed.                                                 *)
RestartSkipsNothing == 1 .. stored \subseteq done

(* committedOffset is never ahead of what the shard record holds, so that  *)
(* what it covers survives a crash.                                        *)
CommittedIsStored == committed <= stored

\* The shard or the deleter is lost, or the channel is closed, which keeps the
\* loop so busy that neither timer expires.
Ended == loss \/ pc # "select" \/ channel = "closed"

(* config/engine.go:61 on CommittingInterval: "the interval to commit the  *)
(* timer completedoffset to the database": what was received is committed, *)
(* however commits fail and deletions come between.                        *)
CommitsUnderLoad ==
  \A o \in Timer : (received = o) ~> (committed >= o \/ Ended)

\* An offset that comes before either timer is due, and so starts both anew.
Delays == OffsetArrives /\ left.commit > 0 /\ left.delete > 0

(* The same of an owner to whom offsets do not for ever come before the    *)
(* commit timer expires.                                                   *)
CommitsHappen ==
  \/ <>[](left.commit > 0) /\ []<><<Delays>>_vars
  \/ CommitsUnderLoad

(* config/engine.go:55 on DeletingInterval: "the interval to delete the    *)
(* completed timers from the database": what is completed is deleted, as   *)
(* long as offsets leave the delete timer the time to expire.              *)
DeletesHappen ==
  \/ <>[](left.delete > 0) /\ []<><<Delays>>_vars
  \/ \A r \in Timer : (r <= received) ~> (r \notin rows \/ Ended)
=============================================================================
