----------------------------- MODULE MySQLStore -----------------------------
(***************************************************************************)
(* The timer operations of the MySQL store                                 *)
(* (databases/mysql/mysql_timer_store_impl.go).  A versioned call is a     *)
(* transaction: a plain SELECT of the shard version, then one write, which *)
(* sees the rows as they are by then, and the commit.  A commit that fails *)
(* may have been applied.                                                  *)
(***************************************************************************)
EXTENDS TxnStore

Call == [op : TxnOp, ver : Version]

TypeOK == TypeOKWith(Call)

\* UPDATE ... SET timer_execute_at = ...
Moved(id, at) == (rows \ RowsOf(rows, id)) \cup {[at |-> at, id |-> id]}

\* MUTANT: the connection counts the rows changed (clientFoundRows=false).
MatchesChanged(id, at) == \E r \in RowsOf(rows, id) : r.at # at

\* Rows affected by the UPDATE, with clientFoundRows=true.
Matches(id, at) == RowsOf(rows, id) # {}

\* MUTANT: the deletion stays when an INSERT fails.
RolledBackInPart(rest) == rest

\* What the deferred Rollback leaves, with "rest" the rows after the DELETE.
RolledBack(rest) == rows

-----------------------------------------------------------------------------
CreateTimer(c, r) == Running(c, {"CreateTimer"}) /\ Ends(c, r.id, {r}, Upsert(r))

(* DELETE of the range, one INSERT for each new timer, COMMIT.             *)
RangeDeleteWithBatchInsertTxn(c, lo, hi, new) ==
  LET rest == rows \ Between(rows, lo, hi) IN
  /\ Running(c, {"RangeDeleteWithBatchInsertTxn"})
  /\ \/ ~Duplicates(rest, new) /\ Ends(c, hi.id, new, rest \cup new)
     \/ Duplicates(rest, new) /\ Closes(c, hi.id, new, RolledBack(rest), "error")

UpdateTimer(c, id, at) ==
  /\ Running(c, {"UpdateTimer"})
  /\ \/ Matches(id, at) /\ Ends(c, id, {[at |-> at, id |-> id]}, Moved(id, at))
     \/ ~Matches(id, at) /\ Closes(c, id, {}, rows, "NotExists")

(* Idempotent: that no row was there is not an error.                      *)
DeleteTimer(c, id) ==
  Running(c, {"DeleteTimer"}) /\ Ends(c, id, {}, rows \ RowsOf(rows, id))

(* DELETE ... LIMIT without ORDER BY: any rows of the range.               *)
RangeDeleteWithLimit(lo, hi, limit) ==
  LET range == Between(rows, lo, hi) IN
  \E gone \in SUBSET range :
    /\ Cardinality(gone) = limit \/ (gone = range /\ Cardinality(range) <= limit)
    /\ Writes("RangeDeleteWithLimit", NoLock, hi.id, {}, rows \ gone)

UpdateTimerNoLock(id, at) ==
  LET new == [at |-> at, id |-> id] IN
  \/ Matches(id, at) /\ Writes("UpdateTimerNoLock", NoLock, id, {new}, Moved(id, at))
  \/ ~Matches(id, at) /\ AtOnce("UpdateTimerNoLock", NoLock, id, {}, rows, "NotExists")

(* Unlike DeleteTimer it tells whether there was a row.                    *)
DeleteTimerNoLock(id) ==
  LET found == RowsOf(rows, id) IN
  \/ found # {} /\ Writes("DeleteTimerNoLock", NoLock, id, {}, rows \ found)
  \/ found = {} /\ AtOnce("DeleteTimerNoLock", NoLock, id, {}, rows, "NotExists")

-----------------------------------------------------------------------------
Transaction(c) ==
  \/ \E op \in TxnOp, ver \in Held : Begin(c, [op |-> op, ver |-> ver])
  \/ \E r \in Timer : CreateTimer(c, r)
  \/ \E k \in Ranges, new \in Inserts : RangeDeleteWithBatchInsertTxn(c, k[1], k[2], new)
  \/ \E id \in Id, at \in Time : UpdateTimer(c, id, at)
  \/ \E id \in Id : DeleteTimer(c, id)
  \/ Abort(c)

OneStatement ==
  \/ \E r \in Timer : CreateTimerNoLock(r)
  \/ \E k \in Ranges, limit \in Limit : RangeDeleteWithLimit(k[1], k[2], limit)
  \/ \E id \in Id, at \in Time : UpdateTimerNoLock(id, at)
  \/ \E id \in Id : DeleteTimerNoLock(id)

Next == ClaimShard \/ OneStatement \/ Fails \/ \E c \in Client : Transaction(c)

Spec == Init /\ [][Next]_vars
=============================================================================
