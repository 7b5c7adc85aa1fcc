----------------------------- MODULE MongoStore -----------------------------
(***************************************************************************)
(* The timer operations of the MongoDB store                               *)
(* (databases/mongodb/mongodb_timer_store_impl.go).  A versioned call is a *)
(* transaction that reads from the snapshot its first request takes, the   *)
(* FindOne of the shard record, and whose writes fail when a document they *)
(* touch was changed since.  The shard record is only read, so the claim   *)
(* of another owner is no such conflict.                                   *)
(*                                                                         *)
(* The unique index on (shard, row type, namespace, timer id) is the       *)
(* store's schema.  A document that was changed and changed back counts as *)
(* unchanged; that the database refuses it too is one of the failures of   *)
(* Abort.  A CommitTransaction that fails may have been applied.           *)
(***************************************************************************)
EXTENDS TxnStore

Call == [op : TxnOp, ver : Version, snapshot : SUBSET Timer]

TypeOK == TypeOKWith(Call)

\* The documents of a set of timers are as the transaction sees them.
Unchanged(c, ids) == {r \in rows : r.id \in ids} = {r \in open[c].snapshot : r.id \in ids}

\* MUTANT: a transaction writes back the whole collection it saw.
SnapshotWritten(c, gone, new) == (open[c].snapshot \ gone) \cup new

Written(c, gone, new) == (rows \ gone) \cup new

(* A transaction that removes "gone" and puts "new": it commits, or a      *)
(* write conflicts or violates the index.                                  *)
Commit(c, id, gone, new) ==
  LET ids == {r.id : r \in gone \cup new} IN
  \/ /\ Unchanged(c, ids) /\ ~Duplicates(open[c].snapshot \ gone, new)
     /\ Ends(c, id, new, Written(c, gone, new))
  \/ /\ ~Unchanged(c, ids) \/ Duplicates(open[c].snapshot \ gone, new)
     /\ Closes(c, id, new, rows, "error")

(* UpdateOne with upsert.                                                  *)
CreateTimer(c, r) ==
  /\ Running(c, {"CreateTimer"})
  /\ Commit(c, r.id, RowsOf(open[c].snapshot, r.id), {r})

(* DeleteMany, one InsertOne for each new timer.                           *)
RangeDeleteWithBatchInsertTxn(c, lo, hi, new) ==
  /\ Running(c, {"RangeDeleteWithBatchInsertTxn"})
  /\ Commit(c, hi.id, Between(open[c].snapshot, lo, hi), new)

UpdateTimer(c, id, at) ==
  LET found == RowsOf(open[c].snapshot, id) IN
  /\ Running(c, {"UpdateTimer"})
  /\ \/ found # {} /\ Commit(c, id, found, {[at |-> at, id |-> id]})
     \/ found = {} /\ Closes(c, id, {}, rows, "NotExists")

(* Idempotent: DeletedCount is not looked at.                              *)
DeleteTimer(c, id) ==
  /\ Running(c, {"DeleteTimer"})
  /\ Commit(c, id, RowsOf(open[c].snapshot, id), {})

-----------------------------------------------------------------------------
(* DeleteMany outside a transaction, the limit ignored: an error may leave *)
(* a part of the range deleted.                                            *)
RangeDeleteWithLimit(lo, hi, limit) ==
  LET range == Between(rows, lo, hi) IN
  \/ AtOnce("RangeDeleteWithLimit", NoLock, hi.id, {}, rows \ range, "ok")
  \/ \E gone \in SUBSET range :
       AtOnce("RangeDeleteWithLimit", NoLock, hi.id, {}, rows \ gone, "error")

UpdateTimerNoLock(id, at) ==
  LET new == [at |-> at, id |-> id] IN
  \/ /\ RowsOf(rows, id) # {}
     /\ Writes("UpdateTimerNoLock", NoLock, id, {new}, Upsert(new))
  \/ /\ RowsOf(rows, id) = {}
     /\ AtOnce("UpdateTimerNoLock", NoLock, id, {}, rows, "NotExists")

DeleteTimerNoLock(id) ==
  LET found == RowsOf(rows, id) IN
  \/ found # {} /\ Writes("DeleteTimerNoLock", NoLock, id, {}, rows \ found)
  \/ found = {} /\ AtOnce("DeleteTimerNoLock", NoLock, id, {}, rows, "NotExists")

-----------------------------------------------------------------------------
Transaction(c) ==
  \/ \E op \in TxnOp, ver \in Held :
       Begin(c, [op |-> op, ver |-> ver, snapshot |-> rows])
  \/ \E r \in Timer : CreateTimer(c, r)
  \/ \E k \in Ranges, new \in Inserts : RangeDeleteWithBatchInsertTxn(c, k[1], k[2], new)
  \/ \E id \in Id, at \in Time : UpdateTimer(c, id, at)
  \/ \E id \in Id : DeleteTimer(c, id)
  \/ Abort(c)

OneRequest ==
  \/ \E r \in Timer : CreateTimerNoLock(r)
  \/ \E k \in Ranges, limit \in Limit : RangeDeleteWithLimit(k[1], k[2], limit)
  \/ \E id \in Id, at \in Time : UpdateTimerNoLock(id, at)
  \/ \E id \in Id : DeleteTimerNoLock(id)

Next == ClaimShard \/ OneRequest \/ Fails \/ \E c \in Client : Transaction(c)

Spec == Init /\ [][Next]_vars
=============================================================================
