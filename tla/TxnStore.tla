------------------------------ MODULE TxnStore ------------------------------
(***************************************************************************)
(* What the stores with transactions (MySQL, PostgreSQL, MongoDB) have in  *)
(* common: a versioned call reads the shard version in its first request   *)
(* and goes on only if it is the caller's.  The writes, the checks made on *)
(* them and the commit are one step: it stands where the first write takes *)
(* its lock.                                                               *)
(***************************************************************************)
EXTENDS TimerStore

TxnOp == {"CreateTimer", "RangeDeleteWithBatchInsertTxn", "UpdateTimer", "DeleteTimer"}

(* The version check: a plain read.                                        *)
Begin(c, call) ==
  \/ version = call.ver /\ Opens(c, call)
  \/ /\ version # call.ver /\ open[c] = Idle
     /\ \E id \in Id : AtOnce(call.op, call.ver, id, {}, rows, "ShardConditionFail")

\* MUTANT: the index that tells a duplicate is the primary key.
UpsertByTime(r) == rows \cup {r}

(* ON DUPLICATE KEY UPDATE, ON CONFLICT DO UPDATE, UpdateOne with upsert:  *)
(* moves the row the timer has.                                            *)
Upsert(r) == (rows \ RowsOf(rows, r.id)) \cup {r}

\* A plain insert fails on the unique index (namespace, timer id).
Duplicates(rest, new) ==
  \E r \in new : RowsOf(rest, r.id) # {} \/ Cardinality(RowsOf(new, r.id)) > 1

CreateTimerNoLock(r) == Writes("CreateTimerNoLock", NoLock, r.id, {r}, Upsert(r))
=============================================================================
