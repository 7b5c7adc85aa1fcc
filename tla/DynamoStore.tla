---------------------------- MODULE DynamoStore -----------------------------
(***************************************************************************)
(* The timer operations of the DynamoDB store                              *)
(* (databases/dynamodb/dynamodb_timer_store_impl.go).  The primary key is  *)
(* the timer, so a put replaces; execution time orders a local index.      *)
(* There is no range delete: both range operations query the index first   *)
(* and delete what they found by primary key in later calls, one           *)
(* transaction for RangeDeleteWithBatchInsertTxn and batches that are not  *)
(* atomic for RangeDeleteWithLimit.                                        *)
(*                                                                         *)
(* The query and the deletion being two steps also stands for a query of   *)
(* the index that is answered from an older state.                         *)
(***************************************************************************)
EXTENDS TimerStore

CONSTANT BatchSize     \* deletions in one batch (25), positive

(* The index also holds the shard record, at the zero time and uuid, where *)
(* the ranges of a shard that has committed nothing start.                 *)
ShardItem == [at |-> 0, id |-> 0]

Start == Timer \cup {ShardItem}

\* found: the rows the query returned and the operation has not deleted yet.
Call == [op : RangeOp, ver : Version \cup {NoLock}, lo : Start, hi : Timer,
         found : SUBSET Timer]

TypeOK == TypeOKWith(Call)

\* ConditionExpression shard_version = ...
Applies(ver) == version = ver

Put(items, r) == (items \ RowsOf(items, r.id)) \cup {r}

\* Delete of primary keys, wherever the timers are by now.
DeleteKeys(items, keys) == {r \in items : \A k \in keys : r.id # k.id}

-----------------------------------------------------------------------------
(* A call of one conditional write: what it leaves if it is applied, and   *)
(* its error otherwise.                                                    *)
Write(op, ver, id, put, applies, after, otherwise) ==
  /\ \/ /\ applies /\ rows' = after
        /\ \E res \in Outcome : Return(op, ver, id, put, res)
     \/ ~applies /\ UNCHANGED rows /\ Return(op, ver, id, put, otherwise)
  /\ UNCHANGED <<claimed, open, again>>

CreateTimer(ver, r) ==
  /\ Write("CreateTimer", ver, r.id, {r}, Applies(ver), Put(rows, r), "ShardConditionFail")
  /\ UNCHANGED version

CreateTimerNoLock(r) == Writes("CreateTimerNoLock", NoLock, r.id, {r}, Put(rows, r))

\* SET shard_version = shard_version + :inc
Bump(applied) == version' = version + (IF applied THEN 1 ELSE 0)

(* A new execution time is not supported; without a field to set nothing   *)
(* is sent.                                                                *)
NothingToUpdate(op, ver, id) ==
  \E res \in {"ok", "NotSupport"} : AtOnce(op, ver, id, {}, rows, res)

(* In place.  A timer that is missing is reported as a version mismatch.   *)
UpdateTimer(ver, id) ==
  LET applies == Applies(ver) /\ RowsOf(rows, id) # {} IN
  \/ /\ version < MaxVersion
     /\ Write("UpdateTimer", ver, id, {}, applies, rows, "ShardConditionFail")
     /\ Bump(applies)
  \/ NothingToUpdate("UpdateTimer", ver, id)

(* A missing timer is looked at before a mismatch: the delete is           *)
(* idempotent.                                                             *)
DeleteTimer(ver, id) ==
  LET there == RowsOf(rows, id) # {}
      applies == Applies(ver) /\ there IN
  /\ version < MaxVersion
  /\ Write("DeleteTimer", ver, id, {}, applies, rows \ RowsOf(rows, id),
           IF there THEN "ShardConditionFail" ELSE "ok")
  /\ Bump(applies)

UpdateTimerNoLock(id) ==
  \/ /\ Write("UpdateTimerNoLock", NoLock, id, {}, RowsOf(rows, id) # {}, rows, "NotExists")
     /\ UNCHANGED version
  \/ NothingToUpdate("UpdateTimerNoLock", NoLock, id)

DeleteTimerNoLock(id) ==
  /\ Write("DeleteTimerNoLock", NoLock, id, {}, RowsOf(rows, id) # {},
           rows \ RowsOf(rows, id), "NotExists")
  /\ UNCHANGED version

-----------------------------------------------------------------------------
(* The shard record counts for the limit and is filtered out afterwards.   *)
Query(lo, hi, limit) ==
  LET items == Between(rows \cup {ShardItem}, lo, hi) IN
  (IF limit = 0 THEN items ELSE FirstOf(items, limit)) \ {ShardItem}

QueryRange(c, op, ver, lo, hi, limit) ==
  Opens(c, [op |-> op, ver |-> ver, lo |-> lo, hi |-> hi, found |-> Query(lo, hi, limit)])

(* One transaction: condition on the version, deletes, puts.  DynamoDB     *)
(* refuses one with two operations on an item; an empty one is not sent.   *)
RangeDeleteWithBatchInsertTxn(c, new) ==
  LET q == open[c]
      ids == {r.id : r \in q.found}
      repeated == \E r \in new : r.id \in ids \/ \E s \in new : s # r /\ s.id = r.id
      empty == q.found = {} /\ new = {}
      after == DeleteKeys(rows, q.found \cup new) \cup new
  IN
  /\ Running(c, {"RangeDeleteWithBatchInsertTxn"})
  /\ \/ ~repeated /\ ~empty /\ Applies(q.ver) /\ Ends(c, q.hi.id, new, after)
     \/ ~repeated /\ ~empty /\ ~Applies(q.ver) /\ Closes(c, q.hi.id, new, rows, "ShardConditionFail")
     \/ repeated /\ Closes(c, q.hi.id, new, rows, "error")
     \/ empty /\ Closes(c, q.hi.id, new, rows, "ok")

\* The rows after the keys of "gone" were deleted.
Deletes(q, gone) == DeleteKeys(rows, gone)

(* BatchWriteItem for the next BatchSize keys; some may come back          *)
(* unprocessed, or the answer is lost: the call ends with an error.        *)
RangeDeleteWithLimit(c) ==
  LET q == open[c]
      batch == FirstOf(q.found, BatchSize) IN
  /\ Running(c, {"RangeDeleteWithLimit"})
  /\ \/ /\ q.found # {}
        /\ rows' = Deletes(q, batch)
        /\ open' = [open EXCEPT ![c].found = @ \ batch]
        /\ Return("none", NoLock, q.hi.id, {}, "ok")
        /\ UNCHANGED <<version, claimed, again>>
     \/ \E gone \in SUBSET batch :
          Closes(c, q.hi.id, {}, Deletes(q, gone), "error")
     \/ q.found = {} /\ Closes(c, q.hi.id, {}, rows, "ok")

-----------------------------------------------------------------------------
OneWrite ==
  \/ \E ver \in Held, r \in Timer : CreateTimer(ver, r)
  \/ \E r \in Timer : CreateTimerNoLock(r)
  \/ \E ver \in Held, id \in Id : UpdateTimer(ver, id)
  \/ \E ver \in Held, id \in Id : DeleteTimer(ver, id)
  \/ \E id \in Id : UpdateTimerNoLock(id)
  \/ \E id \in Id : DeleteTimerNoLock(id)

RangeStep(c) ==
  \/ \E lo \in Start, hi \in Timer, ver \in Held :
       QueryRange(c, "RangeDeleteWithBatchInsertTxn", ver, lo, hi, 0)
  \/ \E lo \in Start, hi \in Timer, limit \in Limit :
       QueryRange(c, "RangeDeleteWithLimit", NoLock, lo, hi, limit)
  \/ \E new \in Inserts : RangeDeleteWithBatchInsertTxn(c, new)
  \/ RangeDeleteWithLimit(c)
  \/ Abort(c)

Next == ClaimShard \/ OneWrite \/ Fails \/ \E c \in Client : RangeStep(c)

Spec == Init /\ [][Next]_vars
=============================================================================
