------------------------- MODULE BatchDeleterProofs -------------------------
(***************************************************************************)
(* Proofs about BatchDeleter, for every number of timers, every delete     *)
(* limit and every pair of intervals.                                      *)
(***************************************************************************)
EXTENDS BatchDeleter, TLAPS

(* Timers 1 .. o have completed.                                           *)
Covered(o) == 1 .. o \subseteq done

(* The inductive invariant.  What is deleted and what is stored is safe    *)
(* only because the RECEIVED offset, which both are taken from, covers     *)
(* completed timers; and a commit that was applied but reported as failed  *)
(* keeps committedOffset behind the record only because committedOffset    *)
(* never overtakes receivedOffset.                                         *)
DInv == /\ TypeOK
        /\ Covered(received)
        /\ committed <= received
        /\ OnlyCompletedDeleted
        /\ RestartSkipsNothing
        /\ CommittedIsStored

(* The new timers of the select are well typed.                            *)
LEMMA NewTimersType == \A t \in NewTimers : t \in [commit : Nat, delete : Nat]
  BY IntervalAssumption DEF NewTimers

(* No step of the deleter or of its environment leaves the types.          *)
LEMMA TypeStep == TypeOK /\ [Next]_vars => TypeOK'
<1> SUFFICES ASSUME TypeOK, [Next]_vars PROVE TypeOK'
  OBVIOUS
<1> USE NewTimersType DEF TypeOK, Timer, Offset, NextRound
<1>1. ASSUME NEW o \in Timer, Notify(o) PROVE TypeOK'
  BY <1>1 DEF Notify, ReceiveOffset
<1>2. CASE ReceiveNil
  BY <1>2 DEF ReceiveNil
<1>3. CASE commitOffset
  <2>1. stored' \in Offset /\ committed' \in Offset /\ loss' \in BOOLEAN
    BY <1>3 DEF commitOffset, CommitApplied, CommitFenced, CommitError, Completed
  <2>2. QED
    BY <1>3, <2>1 DEF commitOffset
<1>4. CASE deleteTimers
  <2>1. rows' \subseteq rows
    BY <1>4 DEF deleteTimers
  <2>2. QED
    BY <1>4, <2>1 DEF deleteTimers
<1>5. CASE StopOnLoss
  BY <1>5 DEF StopOnLoss
<1>6. ASSUME NEW r \in Timer, Complete(r) PROVE TypeOK'
  BY <1>6 DEF Complete
<1>7. CASE Supersede
  BY <1>7 DEF Supersede
<1>8. CASE RemoveChannel
  BY <1>8 DEF RemoveChannel
<1>9. CASE Tick
  BY <1>9 DEF Tick
<1>10. CASE UNCHANGED vars
  BY <1>10 DEF vars
<1>11. QED
  BY <1>1, <1>2, <1>3, <1>4, <1>5, <1>6, <1>7, <1>8, <1>9, <1>10 DEF Next, OffsetArrives

(* The deleter starts with nothing received, stored or deleted.            *)
LEMMA DInvInit == Init => DInv
<1> SUFFICES ASSUME Init PROVE DInv
  OBVIOUS
<1>1. TypeOK
  <2>1. 0 \in Offset
    BY CountAssumption DEF Offset
  <2>2. left \in [commit : Nat, delete : Nat]
    BY NewTimersType DEF Init
  <2>3. QED
    BY <2>1, <2>2 DEF Init, TypeOK
<1>2. 1 .. 0 = {}
  OBVIOUS
<1>3. QED
  BY <1>1, <1>2 DEF Init, DInv, Covered, OnlyCompletedDeleted, RestartSkipsNothing,
                    CommittedIsStored

(* Every step keeps the inductive invariant.                               *)
LEMMA DInvStep == DInv /\ [Next]_vars => DInv'
<1> SUFFICES ASSUME DInv, [Next]_vars PROVE DInv'
  OBVIOUS
<1>1. TypeOK /\ TypeOK'
  BY TypeStep DEF DInv
<1> DEFINE Parts == /\ Covered(received)
                    /\ committed <= received
                    /\ OnlyCompletedDeleted
                    /\ RestartSkipsNothing
                    /\ CommittedIsStored
<1> SUFFICES Parts'
  BY <1>1, Zenon DEF DInv
<1>2. Parts
  BY DEF DInv
<1> USE DEF Covered, OnlyCompletedDeleted, RestartSkipsNothing, CommittedIsStored
(* An offset is a completed prefix, and not behind the one before it.      *)
<1>3. ASSUME NEW o \in Timer, Notify(o) PROVE Parts'
  BY <1>1, <1>2, <1>3 DEF Notify, ReceiveOffset, IsPrefix, TypeOK, Offset, Timer
(* A commit stores the received offset or nothing; committedOffset only    *)
(* moves when the commit is known to have been applied.                    *)
<1>4. CASE commitOffset
  <2>1. received' = received /\ rows' = rows /\ done' = done
    BY <1>4 DEF commitOffset
  <2>2. \/ stored' = stored /\ committed' = committed
        \/ stored' = received /\ committed' \in {received, committed}
    BY <1>4 DEF commitOffset, CommitApplied, CommitFenced, CommitError, Completed
  <2>3. QED
    BY <1>1, <1>2, <2>1, <2>2 DEF TypeOK, Offset
(* What is deleted is below the received offset.                           *)
<1>5. CASE deleteTimers
  <2>1. UNCHANGED <<received, committed, stored, done>>
    BY <1>5 DEF deleteTimers
  <2>2. rows \ rows' \subseteq {r \in rows : r <= received}
    BY <1>5 DEF deleteTimers, DeleteRange
  <2>3. {r \in rows : r <= received} \subseteq 1 .. received
    <3>1. \A r \in rows : r \in 1 .. N
      BY <1>1 DEF TypeOK, Timer
    <3>2. received \in 0 .. N
      BY <1>1 DEF TypeOK, Offset
    <3>3. QED
      BY <3>1, <3>2, CountAssumption
  <2>4. Timer \ rows' \subseteq done
    BY <1>2, <2>2, <2>3
  <2>5. QED
    BY <1>2, <2>1, <2>4
(* A callback that completes only adds to done.                            *)
<1>6. ASSUME NEW r \in Timer, Complete(r) PROVE Parts'
  <2>1. /\ UNCHANGED <<received, committed, stored, rows>>
        /\ done \subseteq done'
    BY <1>6 DEF Complete
  <2>2. QED
    BY <1>2, <2>1
<1>7. CASE UNCHANGED <<received, committed, stored, rows, done>>
  BY <1>2, <1>7
<1>8. CASE ReceiveNil \/ StopOnLoss \/ Supersede \/ RemoveChannel \/ Tick \/ UNCHANGED vars
  <2>1. UNCHANGED <<received, committed, stored, rows, done>>
    BY <1>8 DEF ReceiveNil, StopOnLoss, Supersede, RemoveChannel, Tick, vars
  <2>2. QED
    BY <1>7, <2>1
<1>9. QED
  BY <1>3, <1>4, <1>5, <1>6, <1>8 DEF Next, OffsetArrives

(* The inductive invariant holds in every reachable state.                 *)
LEMMA DInvAlways == Spec => []DInv
  BY DInvInit, DInvStep, PTL DEF Spec

-----------------------------------------------------------------------------
(* Every reachable state of the deleter is well typed.                     *)
THEOREM DeleterTypeCorrect == Spec => []TypeOK
<1>1. DInv => TypeOK
  BY DEF DInv
<1>2. QED
  BY DInvAlways, <1>1, PTL

(* deleteTimers never removes a timer whose callback has not completed,    *)
(* for any number of timers and any order of completions and commits.      *)
THEOREM DeletesOnlyCompleted == Spec => []OnlyCompletedDeleted
<1>1. DInv => OnlyCompletedDeleted
  BY DEF DInv
<1>2. QED
  BY DInvAlways, <1>1, PTL

(* An owner that starts over from the offset commitOffset left in the      *)
(* shard record skips no timer that was not completed.                     *)
THEOREM RestartIsSafe == Spec => []RestartSkipsNothing
<1>1. DInv => RestartSkipsNothing
  BY DEF DInv
<1>2. QED
  BY DInvAlways, <1>1, PTL

(* committedOffset never overtakes what the shard record holds, whichever  *)
(* commits are reported as failed.                                         *)
THEOREM CommittedSurvives == Spec => []CommittedIsStored
<1>1. DInv => CommittedIsStored
  BY DEF DInv
<1>2. QED
  BY DInvAlways, <1>1, PTL
=============================================================================
