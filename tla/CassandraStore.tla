--------------------------- MODULE CassandraStore ---------------------------
(***************************************************************************)
(* The timer operations of the Cassandra store                             *)
(* (databases/cassandra/cassandra_timer_store_impl.go).  A conditional     *)
(* batch is atomic; Update and Delete look the timer up in a query of      *)
(* their own before it.  A batch or statement whose answer times out may   *)
(* have been applied.                                                      *)
(*                                                                         *)
(* That a range delete and the inserts of the same batch leave the inserts *)
(* in place is what the repository's InsertInDeleteRange test says.        *)
(***************************************************************************)
EXTENDS TimerStore

\* The calls that start with a lookup, what it found and what they ask for.
Call == [op : UpdateOp \cup DeleteOp, ver : Version \cup {NoLock}, found : Timer, at : Time]

TypeOK == TypeOKWith(Call)

\* MUTANT: the batch carries no condition on the version.
AppliesAlways(ver) == TRUE

\* The condition of the batches: IF shard_version = ?
Applies(ver) == version = ver

(* INSERT is an upsert of the key: a row of the timer at another time      *)
(* stays.                                                                  *)
Insert(op, ver, id, rest, new) ==
  /\ rows' = rest \cup new
  /\ again' = again \cup {r.id : r \in {q \in new : RowsOf(rows' \ {q}, q.id) # {}}}
  /\ \E res \in Outcome : Return(op, ver, id, new, res)
  /\ UNCHANGED <<version, claimed, open>>

-----------------------------------------------------------------------------
(* One batch: the version check and the INSERT.                            *)
CreateTimer(ver, r) ==
  \/ Applies(ver) /\ Insert("CreateTimer", ver, r.id, rows, {r})
  \/ ~Applies(ver) /\ AtOnce("CreateTimer", ver, r.id, {r}, rows, "ShardConditionFail")

CreateTimerNoLock(r) == Insert("CreateTimerNoLock", NoLock, r.id, rows, {r})

(* One batch: the version check, the range delete and the INSERTs.         *)
RangeDeleteWithBatchInsertTxn(ver, lo, hi, new) ==
  LET op == "RangeDeleteWithBatchInsertTxn" IN
  \/ Applies(ver) /\ Insert(op, ver, hi.id, rows \ Between(rows, lo, hi), new)
  \/ ~Applies(ver) /\ AtOnce(op, ver, hi.id, new, rows, "ShardConditionFail")

(* The limit is ignored.                                                   *)
RangeDeleteWithLimit(lo, hi, limit) ==
  Writes("RangeDeleteWithLimit", NoLock, hi.id, {}, rows \ Between(rows, lo, hi))

-----------------------------------------------------------------------------
(* The lookup by timer id: the first row found, in no particular order.    *)
LookUp(c, op, ver, id, at) ==
  \/ \E r \in RowsOf(rows, id) : Opens(c, [op |-> op, ver |-> ver, found |-> r, at |-> at])
  \/ /\ open[c] = Idle /\ RowsOf(rows, id) = {}
     /\ AtOnce(op, ver, id, {}, rows, "NotExists")

\* MUTANT: the batch is not conditional on the row that was looked up.
FoundAlways(q) == TRUE

\* ... IF EXISTS
StillThere(q) == q.found \in rows

\* MUTANT: the values of the INSERT are bound in the wrong order.
MovedMisbound(q) == (rows \ {q.found}) \cup {[at |-> q.at, id |-> q.ver]}

Moved(q) == (rows \ {q.found}) \cup {[q.found EXCEPT !.at = q.at]}

Target(q) == [q.found EXCEPT !.at = q.at]

(* The conditional batch that ends UpdateTimer and DeleteTimer, with       *)
(* "after" the rows it leaves: which condition failed is told from the     *)
(* version in the answer.                                                  *)
Batch(c, put, after) ==
  LET q == open[c] IN
  \/ Applies(q.ver) /\ StillThere(q) /\ Ends(c, q.found.id, put, after)
  \/ /\ ~(Applies(q.ver) /\ StillThere(q))
     /\ Closes(c, q.found.id, put, rows,
               IF version = q.ver THEN "NotExists" ELSE "ShardConditionFail")

(* The same time is an UPDATE in place, another one DELETE and INSERT.     *)
UpdateTimer(c) ==
  Running(c, {"UpdateTimer"}) /\ Batch(c, {Target(open[c])}, Moved(open[c]))

DeleteTimer(c) == Running(c, {"DeleteTimer"}) /\ Batch(c, {}, rows \ {open[c].found})

(* The NoLock calls: IF EXISTS is their only condition.                    *)
Conditional(c, put, after) ==
  LET q == open[c] IN
  \/ StillThere(q) /\ Ends(c, q.found.id, put, after)
  \/ ~StillThere(q) /\ Closes(c, q.found.id, put, rows, "NotExists")

SameTime(t, u) == t - u \in -1 .. 1

(* A new time within a millisecond of the old one leaves the old one.      *)
UpdateTimerNoLock(c) ==
  /\ Running(c, {"UpdateTimerNoLock"})
  /\ IF SameTime(open[c].at, open[c].found.at)
     THEN Conditional(c, {open[c].found}, rows)
     ELSE Conditional(c, {Target(open[c])}, Moved(open[c]))

DeleteTimerNoLock(c) ==
  Running(c, {"DeleteTimerNoLock"}) /\ Conditional(c, {}, rows \ {open[c].found})

-----------------------------------------------------------------------------
Begin(c) ==
  \E id \in Id :
    \/ \E ver \in Held, at \in Time : LookUp(c, "UpdateTimer", ver, id, at)
    \/ \E ver \in Held : LookUp(c, "DeleteTimer", ver, id, CHOOSE t \in Time : TRUE)
    \/ \E at \in Time : LookUp(c, "UpdateTimerNoLock", NoLock, id, at)
    \/ LookUp(c, "DeleteTimerNoLock", NoLock, id, CHOOSE t \in Time : TRUE)

End(c) ==
  UpdateTimer(c) \/ DeleteTimer(c) \/ UpdateTimerNoLock(c) \/ DeleteTimerNoLock(c)

OneStatement ==
  \/ \E ver \in Held, r \in Timer : CreateTimer(ver, r)
  \/ \E r \in Timer : CreateTimerNoLock(r)
  \/ \E ver \in Held, k \in Ranges, new \in Inserts :
       RangeDeleteWithBatchInsertTxn(ver, k[1], k[2], new)
  \/ \E k \in Ranges, limit \in Limit : RangeDeleteWithLimit(k[1], k[2], limit)

Next ==
  ClaimShard \/ OneStatement \/ Fails \/ \E c \in Client : Begin(c) \/ End(c) \/ Abort(c)

Spec == Init /\ [][Next]_vars
=============================================================================
