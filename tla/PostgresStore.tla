---------------------------- MODULE PostgresStore ----------------------------
(***************************************************************************)
(* The timer operations of the PostgreSQL store                            *)
(* (databases/postgresql/postgresql_timer_store_impl.go), transactions at  *)
(* READ COMMITTED: every statement sees what is committed when it starts.  *)
(* A versioned call is a plain SELECT of the shard version and then the    *)
(* writes; an update looks the timer up in a statement of its own before   *)
(* it writes, also without a lock.                                         *)
(*                                                                         *)
(* The writes and the commit are the last step of a call, where its locks  *)
(* are released.  The UPDATE or DELETE among them may have started, and    *)
(* waited for the locks of others, long before: it then goes on with the   *)
(* rows it saw when it started, as they are by now.  A row that was moved  *)
(* in place is still that row; one that was deleted and inserted again is  *)
(* another, which it does not see.  What a statement still sees of what it *)
(* saw is "sees".                                                          *)
(***************************************************************************)
EXTENDS TxnStore

WriteOp == TxnOp \cup {"DeleteTimerNoLock"}

\* The calls after their first SELECT, and the updates after the lookup.
Call == [op : WriteOp, ver : Version \cup {NoLock}, sees : SUBSET Timer]
          \cup [op : UpdateOp, ver : Version \cup {NoLock}, found : Timer, at : Time,
                sees : SUBSET Timer]

TypeOK == TypeOKWith(Call)

\* What the UPDATE or DELETE of a call can meet, if it starts now.
Sight(q) ==
  IF "found" \in DOMAIN q THEN RowsOf(rows, q.found.id)
  ELSE IF q.op \in DeleteOp \cup RangeOp THEN rows ELSE {}

Looking(q) == [q EXCEPT !.sees = Sight(q)]

\* It starts, or starts only now.
Starts(c) ==
  /\ open[c] # Idle
  /\ open' = [open EXCEPT ![c] = Looking(@)]
  /\ UNCHANGED <<version, claimed, rows, last, again>>

\* The rows of S, which are there now, that the statement sees.
Seen(c, S) == {r \in S : RowsOf(open[c].sees, r.id) # {}}

\* The calls under way, whose statements lose sight of what is deleted.
Without(gone) ==
  [d \in Client |->
     IF open[d] = Idle THEN Idle
     ELSE [open[d] EXCEPT !.sees = {r \in @ : RowsOf(gone, r.id) = {}}]]

\* The last step of a call that deletes "gone" and inserts "new".
Replaces(c, id, gone, new) ==
  /\ rows' = (rows \ gone) \cup new
  /\ open' = [Without(gone) EXCEPT ![c] = Idle]
  /\ \E res \in Outcome : Return(open[c].op, open[c].ver, id, new, res)
  /\ UNCHANGED <<version, claimed, again>>

-----------------------------------------------------------------------------
(* The upsert takes the row as it is, seen or not.                         *)
CreateTimer(c, r) == Running(c, {"CreateTimer"}) /\ Ends(c, r.id, {r}, Upsert(r))

(* DELETE of the range, one INSERT for each new timer, COMMIT.  A row that *)
(* was moved into the range since is not in it.                            *)
RangeDeleteWithBatchInsertTxn(c, lo, hi, new) ==
  LET range == Between(rows, lo, hi)
      gone == {r \in range : RowsOf(Between(open[c].sees, lo, hi), r.id) # {}} IN
  /\ Running(c, {"RangeDeleteWithBatchInsertTxn"})
  /\ \/ ~Duplicates(rows \ gone, new) /\ Replaces(c, hi.id, gone, new)
     \/ Duplicates(rows \ gone, new) /\ Closes(c, hi.id, new, rows, "error")

(* By timer id.  Without a row DeleteTimer returns before the commit.      *)
DeleteTimer(c, id) ==
  LET found == Seen(c, RowsOf(rows, id)) IN
  /\ Running(c, DeleteOp)
  /\ \/ found # {} /\ Replaces(c, id, found, {})
     \/ found = {} /\ Closes(c, id, {}, rows, "NotExists")

(* DELETE WHERE ctid IN (SELECT ... ORDER BY ... LIMIT): the first rows as *)
(* the statement sees them, so that later ones can go before earlier ones, *)
(* and those of them that are still where they were.                       *)
RangeDeleteWithLimit(lo, hi, limit) ==
  \E gone \in SUBSET Between(rows, lo, hi) :
    /\ Cardinality(gone) <= limit
    /\ rows' = rows \ gone
    /\ open' = Without(gone)
    /\ \E res \in Outcome : Return("RangeDeleteWithLimit", NoLock, hi.id, {}, res)
    /\ UNCHANGED <<version, claimed, again>>

-----------------------------------------------------------------------------
\* The lookup by timer id, in the transaction and without one.
LookUp(c, id, at) ==
  /\ Running(c, {"UpdateTimer"}) /\ "found" \notin DOMAIN open[c]
  /\ \/ \E r \in RowsOf(rows, id) :
          /\ open' = [open EXCEPT ![c] = Looking([op |-> "UpdateTimer", ver |-> open[c].ver,
                                                  found |-> r, at |-> at, sees |-> {}])]
          /\ UNCHANGED <<version, claimed, rows, last, again>>
     \/ RowsOf(rows, id) = {} /\ Closes(c, id, {}, rows, "NotExists")

LookUpNoLock(c, id, at) ==
  \/ \E r \in RowsOf(rows, id) :
       Opens(c, Looking([op |-> "UpdateTimerNoLock", ver |-> NoLock, found |-> r, at |-> at,
                         sees |-> {}]))
  \/ /\ open[c] = Idle /\ RowsOf(rows, id) = {}
     /\ AtOnce("UpdateTimerNoLock", NoLock, id, {}, rows, "NotExists")

\* MUTANT: the UPDATE counts the row as found when it is gone.
StoredAlways(c) == TRUE

\* The UPDATE by timer id affects a row.
Stored(c) == Seen(c, RowsOf(rows, open[c].found.id)) # {}

(* Another time: DELETE of the row that was looked up, whose count is not  *)
(* looked at, and INSERT, which the unique index refuses if the timer has  *)
(* a row by then.  The same time: UPDATE by timer id, which leaves the     *)
(* time alone.                                                             *)
Update(c) ==
  LET q == open[c]
      new == [q.found EXCEPT !.at = q.at]
      gone == {q.found} \cap rows \cap q.sees
      moves == q.at # q.found.at IN
  /\ Running(c, UpdateOp) /\ "found" \in DOMAIN q
  /\ \/ moves /\ ~Duplicates(rows \ gone, {new}) /\ Replaces(c, new.id, gone, {new})
     \/ moves /\ Duplicates(rows \ gone, {new}) /\ Closes(c, new.id, {new}, rows, "error")
     \/ ~moves /\ Stored(c) /\ Ends(c, new.id, {}, rows)
     \/ ~moves /\ ~Stored(c) /\ Closes(c, new.id, {}, rows, "NotExists")

-----------------------------------------------------------------------------
Transaction(c) ==
  \/ \E op \in TxnOp, ver \in Held : Begin(c, Looking([op |-> op, ver |-> ver, sees |-> {}]))
  \/ Opens(c, Looking([op |-> "DeleteTimerNoLock", ver |-> NoLock, sees |-> {}]))
  \/ Starts(c)
  \/ \E r \in Timer : CreateTimer(c, r)
  \/ \E k \in Ranges, new \in Inserts : RangeDeleteWithBatchInsertTxn(c, k[1], k[2], new)
  \/ \E id \in Id, at \in Time : LookUp(c, id, at)
  \/ \E id \in Id, at \in Time : LookUpNoLock(c, id, at)
  \/ Update(c)
  \/ \E id \in Id : DeleteTimer(c, id)
  \/ Abort(c)

OneStatement ==
  \/ \E r \in Timer : CreateTimerNoLock(r)
  \/ \E k \in Ranges, limit \in Limit : RangeDeleteWithLimit(k[1], k[2], limit)

Next == ClaimShard \/ OneStatement \/ Fails \/ \E c \in Client : Transaction(c)

Spec == Init /\ [][Next]_vars
=============================================================================
