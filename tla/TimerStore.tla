----------------------------- MODULE TimerStore -----------------------------
(***************************************************************************)
(* What the five implementations of TimerStore                             *)
(* (databases/db_unified_interfaces.go) have in common, for one shard: the *)
(* state they keep, how a call begins and returns, and what callers may    *)
(* rely on.  A call is one step, or several when the store makes more than *)
(* one request for it; "open" has the calls between their requests.        *)
(*                                                                         *)
(* A write is the step in which the database applies it.  Its answer may   *)
(* be lost - a commit, a conditional batch or a request that times out or  *)
(* whose connection breaks - and then its caller is told of an error, at   *)
(* the latest by then.  A request that a driver repeats is another call.   *)
(*                                                                         *)
(* The shard record exists: the caller's claim (module ShardOwnership) saw *)
(* to it.  A row is its key; payloads, attempts, creation times are left   *)
(* out, so that an update which keeps the time keeps the row.              *)
(***************************************************************************)
EXTENDS TimerRows

CONSTANTS Client,      \* calls that may be under way at the same time
          Time,        \* execution times, positive
          Id,          \* timers, positive numbers
          Limit,       \* limits of RangeDeleteWithLimit
          MaxVersion,  \* bound on the shard version
          Idle         \* no call under way

VARIABLES version,  \* shard_version of the shard record
          claimed,  \* the version the last claim wrote
          rows,     \* the timer rows
          open,     \* per client: a call between its first request and its last
          last,     \* what the call that ended last was, and returned
          again     \* history: timers a store was made to keep twice

vars == <<version, claimed, rows, open, last, again>>

Timer == Key(Time, Id)
Version == 1 .. MaxVersion
NoLock == 0

UpdateOp == {"UpdateTimer", "UpdateTimerNoLock"}
DeleteOp == {"DeleteTimer", "DeleteTimerNoLock"}
RangeOp == {"RangeDeleteWithBatchInsertTxn", "RangeDeleteWithLimit"}

CreateOp == {"CreateTimer", "CreateTimerNoLock"}
Operation == CreateOp \cup UpdateOp \cup DeleteOp \cup RangeOp

\* put: the rows the call asked the database to store.
Result == [op : Operation \cup {"none"}, ver : Version \cup {NoLock},
           id : Id, put : SUBSET Timer,
           res : {"ok", "ShardConditionFail", "NotExists", "NotSupport", "error"}]

\* Each store says what its calls keep between requests.
TypeOKWith(Call) ==
  /\ version \in Version
  /\ claimed \in 1 .. version
  /\ rows \subseteq Timer
  /\ open \in [Client -> Call \cup {Idle}]
  /\ last \in Result
  /\ again \subseteq Id

Init == /\ version = 1
        /\ claimed = 1
        /\ rows = {}
        /\ open = [c \in Client |-> Idle]
        /\ last \in [op : {"none"}, ver : {NoLock}, id : Id, put : {{}}, res : {"ok"}]
        /\ again = {}

-----------------------------------------------------------------------------
Return(op, ver, id, put, res) ==
  last' = [op |-> op, ver |-> ver, id |-> id, put |-> put, res |-> res]

\* A call that is one request.
AtOnce(op, ver, id, put, after, res) ==
  /\ rows' = after
  /\ Return(op, ver, id, put, res)
  /\ UNCHANGED <<version, claimed, open, again>>

\* The first request of a call, with what the call keeps of it ...
Opens(c, call) ==
  /\ open[c] = Idle
  /\ open' = [open EXCEPT ![c] = call]
  /\ UNCHANGED <<version, claimed, rows, last, again>>

Running(c, ops) == open[c] # Idle /\ open[c].op \in ops

\* ... and the last one.
Closes(c, id, put, after, res) ==
  /\ rows' = after
  /\ Return(open[c].op, open[c].ver, id, put, res)
  /\ open' = [open EXCEPT ![c] = Idle]
  /\ UNCHANGED <<version, claimed, again>>

\* What the caller may be told of a write that was applied.
Outcome == {"ok", "error"}

Writes(op, ver, id, put, after) == \E res \in Outcome : AtOnce(op, ver, id, put, after, res)

Ends(c, id, put, after) == \E res \in Outcome : Closes(c, id, put, after, res)

(* A request fails and nothing was applied: the only one of a call, or its *)
(* first one ...                                                           *)
Fails ==
  \E op \in Operation, ver \in Version \cup {NoLock}, id \in Id :
    AtOnce(op, ver, id, {}, rows, "error")

(* ... or a later one.  What a transaction wrote by then is rolled back,   *)
(* by the deferred Rollback or by EndSession.                              *)
Abort(c) == open[c] # Idle /\ \E id \in Id : Closes(c, id, {}, rows, "error")

(* Another owner takes the shard.                                          *)
ClaimShard ==
  /\ version < MaxVersion
  /\ version' = version + 1 /\ claimed' = version'
  /\ UNCHANGED <<rows, open, last, again>>

\* An owner may use any version that was ever handed out by a claim.
Held == 1 .. claimed

\* The bounds of a range, and the timers a batch inserts.
Ranges == {k \in Timer \X Timer : NotAfter(k[1], k[2])}
Inserts == {new \in SUBSET Timer : Cardinality(new) <= 2}

-----------------------------------------------------------------------------
\* A call that carries a superseded version changes no row.
Fenced == last'.ver # NoLock /\ last'.ver # version => rows' = rows

(* docs/design/database-design.md, "Version Check": "During any write      *)
(* operation, instance verifies version hasn't changed within a            *)
(* transaction" - whenever between the requests of a call the claim comes. *)
FencedWrites == [][Fenced]_vars

\* An update or delete gives no timer more rows than it had.
AddsNoRow ==
  last'.op \in UpdateOp \cup DeleteOp =>
    \A id \in Id : Cardinality(RowsOf(rows', id)) <= Cardinality(RowsOf(rows, id))

(* Updates and deletes that overlap with each other, with range deletes    *)
(* and with creations never bring a deleted timer back and never multiply  *)
(* its rows: an update of a timer that is gone returns NotExists.          *)
UpdatesAddNoRow == [][AddsNoRow]_vars

\* NotExists is said of a timer that has no row.
SaysTrueNotExists == last'.res = "NotExists" => RowsOf(rows, last'.id) = {}

(* NotExists lets a caller take its timer for settled, so it is said only  *)
(* of a timer that has no row, whatever happened since it was looked up.   *)
NotExistsIsTrue == [][SaysTrueNotExists]_vars
=============================================================================
