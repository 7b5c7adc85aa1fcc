---------------------------- MODULE StoresProofs ----------------------------
(***************************************************************************)
(* Proofs about the five stores, for every number of overlapping calls,    *)
(* every finite set of timers and times, every limit and batch size and    *)
(* every bound on the shard version.                                       *)
(*                                                                         *)
(* A call ends in one step with new rows and an answer.  What makes such a *)
(* step right is the same in every store, and said once (Right); each      *)
(* store then shows that its steps are right ones.                         *)
(***************************************************************************)
EXTENDS MCStores, FiniteSetTheorems, TLAPS

Ops == {"UpdateTimer", "UpdateTimerNoLock", "DeleteTimer", "DeleteTimerNoLock",
        "RangeDeleteWithBatchInsertTxn", "RangeDeleteWithLimit",
        "none", "CreateTimer", "CreateTimerNoLock"}
Answers == {"ok", "ShardConditionFail", "NotExists", "NotSupport", "error"}
Updates == {"UpdateTimer", "UpdateTimerNoLock"}
Deletes == {"DeleteTimer", "DeleteTimerNoLock"}
Unversioned == {"UpdateTimerNoLock", "DeleteTimerNoLock", "RangeDeleteWithLimit"}

(* The types of a store with times T, timers I, clients C and open calls   *)
(* in Call.                                                                *)
Typed(T, I, C, Call) ==
  /\ version \in 1 .. MaxVersion
  /\ claimed \in 1 .. version
  /\ rows \subseteq Key(T, I)
  /\ open \in [C -> Call \cup {Idle}]
  /\ last \in [op : Ops, ver : 0 .. MaxVersion, id : I, put : SUBSET Key(T, I), res : Answers]
  /\ again \subseteq I

(* At most one row per timer.                                              *)
OneEach(S) == \A r, q \in S : r.id = q.id /\ r.id \notin again => r = q

(* A call without a version carries none.                                  *)
CallsHold == \A c \in DOMAIN open : open[c] # Idle /\ open[c].op \in Unversioned => open[c].ver = 0

(* What the last answer said of its timer holds until the next one.        *)
Gone(S, op, id, res) ==
  db # "mongo" /\ op \in Deletes /\ res = "ok" /\ id \notin again => RowsOf(S, id) = {}
Stored(S, op, id, res) == db # "dynamo" /\ op \in Updates /\ res = "ok" => RowsOf(S, id) # {}
Missing(S, res, id) ==
  db \in {"mysql", "dynamo"} /\ res = "NotExists" => RowsOf(S, id) = {}

Answered == /\ Gone(rows, last.op, last.id, last.res)
            /\ Stored(rows, last.op, last.id, last.res)
            /\ Missing(rows, last.res, last.id)

(* Applied: what was to be stored is there, and nothing else is new.       *)
Whole(put, after) == put \subseteq after /\ after \subseteq rows \cup put

StoreInv(T, I, C, Call) == Typed(T, I, C, Call) /\ OneEach(rows) /\ CallsHold /\ Answered

(* The properties of a step that every store that can keep them keeps.     *)
StepHolds ==
  /\ db \in {"cassandra", "dynamo"} => Store!Fenced
  /\ db # "postgres" => Store!AddsNoRow
  /\ last'.res # "ok" /\ last'.op # "RangeDeleteWithLimit" =>
       \/ rows' = rows
       \/ /\ last'.res = "error"
          /\ last'.put \subseteq rows' /\ rows' \subseteq rows \cup last'.put
  /\ db \in {"mysql", "dynamo"} => Store!SaysTrueNotExists

-----------------------------------------------------------------------------
(* A timer's rows do not get more: none is new, or one takes the place of  *)
(* another.                                                                *)
Replaces(after, id) ==
  \E x \in RowsOf(rows, id) : \E y : RowsOf(after, id) \subseteq (RowsOf(rows, id) \ {x}) \cup {y}
NoMore(after) == \A id : RowsOf(after, id) \subseteq RowsOf(rows, id) \/ Replaces(after, id)

(* A step that leaves "after" and answers is right.                        *)
Right(op, ver, id, put, after, res) ==
  /\ OneEach(after)
  /\ db \in {"cassandra", "dynamo"} => after = rows \/ ver \in {0, version}
  /\ db # "postgres" /\ op \in Updates \cup Deletes => NoMore(after)
  /\ \/ res = "ok" \/ op = "RangeDeleteWithLimit" \/ after = rows
     \/ res = "error" /\ Whole(put, after)
  /\ Gone(after, op, id, res) /\ Stored(after, op, id, res)
  /\ Missing(rows, res, id) /\ Missing(after, res, id)

(* The library's operators, as the stores' modules see them.               *)
LEMMA OneCardinality ==
  \A S : /\ Store!Cardinality(S) = Cardinality(S)
         /\ MySQL!Cardinality(S) = Cardinality(S)
         /\ Postgres!Cardinality(S) = Cardinality(S)
         /\ Mongo!Cardinality(S) = Cardinality(S)
<1>1. \A S : Store!Cardinality(S) = Cardinality(S)
  BY DEF Store!Cardinality, Cardinality
<1>2. \A S : MySQL!Cardinality(S) = Cardinality(S)
  BY DEF MySQL!Cardinality, Cardinality
<1>3. \A S : Postgres!Cardinality(S) = Cardinality(S)
  BY DEF Postgres!Cardinality, Cardinality
<1>4. \A S : Mongo!Cardinality(S) = Cardinality(S)
  BY DEF Mongo!Cardinality, Cardinality
<1>5. QED
  BY <1>1, <1>2, <1>3, <1>4

(* A timer's rows are counted alike by the interface.                      *)
LEMMA AddsNoRowIs ==
  ASSUME last'.op \in Updates \cup Deletes =>
           \A id \in Id : Cardinality(RowsOf(rows', id)) <= Cardinality(RowsOf(rows, id))
  PROVE  Store!AddsNoRow
<1>1. \A S, id : Store!RowsOf(S, id) = RowsOf(S, id)
  BY DEF Store!RowsOf, RowsOf
<1>2. Store!AddsNoRow <=>
        (last'.op \in Updates \cup Deletes =>
           \A id \in Id :
             Cardinality(Store!RowsOf(rows', id)) <= Cardinality(Store!RowsOf(rows, id)))
  BY OneCardinality DEF Store!AddsNoRow, Store!UpdateOp, Store!DeleteOp, Updates, Deletes
<1>3. QED
  BY <1>1, <1>2

(* There are finitely many rows.                                           *)
LEMMA KeysFinite ==
  ASSUME NEW T, NEW I, IsFiniteSet(T), IsFiniteSet(I)
  PROVE  IsFiniteSet(Key(T, I))
<1> DEFINE f == [p \in T \X I |-> [at |-> p[1], id |-> p[2]]]
<1>1. IsFiniteSet(T \X I)
  BY FS_Product
<1>2. f \in Surjection(T \X I, Key(T, I))
  <2>1. f \in [T \X I -> Key(T, I)]
    BY DEF Key
  <2>2. ASSUME NEW k \in Key(T, I) PROVE \E p \in T \X I : f[p] = k
    <3>1. <<k.at, k.id>> \in T \X I /\ f[<<k.at, k.id>>] = k
      BY DEF Key
    <3>2. QED
      BY <3>1
  <2>3. QED
    BY <2>1, <2>2 DEF Surjection
<1>3. QED
  BY <1>1, <1>2, FS_Surjection

(* One row in the place of another.                                        *)
LEMMA ReplacedIsNoMore ==
  ASSUME NEW S, IsFiniteSet(S), NEW x \in S, NEW y, NEW T, T \subseteq (S \ {x}) \cup {y}
  PROVE  Cardinality(T) <= Cardinality(S)
<1> DEFINE R == S \ {x}
<1>1. IsFiniteSet(R) /\ Cardinality(R) = Cardinality(S) - 1
  BY FS_RemoveElement
<1>2. Cardinality(R) \in Nat /\ Cardinality(S) \in Nat
  BY <1>1, FS_CardinalityType
<1>3. IsFiniteSet(R \cup {y}) /\ Cardinality(R \cup {y}) \in {Cardinality(R), Cardinality(R) + 1}
  <2>1. CASE y \in R
    <3>1. R \cup {y} = R
      BY <2>1
    <3>2. QED
      BY <1>1, <3>1
  <2>2. CASE y \notin R
    <3> HIDE DEF R
    <3>1. QED
      BY <1>1, <2>2, FS_AddElement
  <2>3. QED
    BY <2>1, <2>2
<1>4. Cardinality(T) <= Cardinality(R \cup {y}) /\ Cardinality(T) \in Nat
  BY <1>3, FS_Subset, FS_CardinalityType
<1>5. QED
  BY <1>1, <1>2, <1>3, <1>4

(* In numbers.                                                             *)
LEMMA NoMoreCounts ==
  ASSUME IsFiniteSet(rows), NEW after, NoMore(after), NEW id
  PROVE  Cardinality(RowsOf(after, id)) <= Cardinality(RowsOf(rows, id))
<1>1. IsFiniteSet(RowsOf(rows, id))
  BY FS_Subset DEF RowsOf
<1>2. CASE RowsOf(after, id) \subseteq RowsOf(rows, id)
  BY <1>1, <1>2, FS_Subset
<1>3. CASE Replaces(after, id)
  BY <1>1, <1>3, ReplacedIsNoMore DEF Replaces
<1>4. QED
  BY <1>2, <1>3 DEF NoMore

(* The invariant says that a timer has at most one row.                    *)
LEMMA OneEachCounts ==
  ASSUME OneEach(rows), NEW id, id \notin again
  PROVE  Cardinality(RowsOf(rows, id)) <= 1
<1>1. CASE RowsOf(rows, id) = {}
  BY <1>1, FS_EmptySet
<1>2. CASE RowsOf(rows, id) # {}
  <2>1. PICK r \in RowsOf(rows, id) : TRUE
    BY <1>2
  <2>2. RowsOf(rows, id) = {r}
    BY <2>1 DEF OneEach, RowsOf
  <2>3. QED
    BY <2>2, FS_Singleton
<1>3. QED
  BY <1>1, <1>2

-----------------------------------------------------------------------------
(* The steps that every store has.                                         *)

(* Nothing is answered and no row changes: a claim, a first request.       *)
LEMMA QuietStep ==
  ASSUME NEW T, NEW I, NEW C, NEW Call, StoreInv(T, I, C, Call), IsFiniteSet(rows),
         UNCHANGED <<rows, last, again, db>>,
         version' \in 1 .. MaxVersion, claimed' \in 1 .. version',
         open' \in [C -> Call \cup {Idle}], CallsHold'
  PROVE  StoreInv(T, I, C, Call)' /\ StepHolds
<1>1. StoreInv(T, I, C, Call)'
  BY DEF StoreInv, Typed, OneEach, Answered, Gone, Stored, Missing
<1>2. Cardinality(RowsOf(rows', last'.id)) = Cardinality(RowsOf(rows, last'.id))
  OBVIOUS
<1>3. Store!AddsNoRow
  <2>1. \A id \in Id : Cardinality(RowsOf(rows, id)) \in Nat
    BY FS_Subset, FS_CardinalityType DEF RowsOf
  <2>2. QED
    BY <2>1, AddsNoRowIs
<1>4. QED
  BY <1>1, <1>3 DEF StepHolds, Store!Fenced, Store!SaysTrueNotExists, StoreInv, Answered, Missing,
                    Store!RowsOf, RowsOf

(* A call ends.                                                            *)
LEMMA EndStep ==
  ASSUME NEW T, NEW I, NEW C, NEW Call, StoreInv(T, I, C, Call), IsFiniteSet(rows),
         NEW op \in Ops, NEW ver \in 0 .. MaxVersion, NEW id \in I, NEW put \in SUBSET Key(T, I),
         NEW after \in SUBSET Key(T, I), NEW res \in Answers,
         Right(op, ver, id, put, after, res),
         rows' = after, last' = [op |-> op, ver |-> ver, id |-> id, put |-> put, res |-> res],
         UNCHANGED <<again, db>>,
         version' \in 1 .. MaxVersion, claimed' \in 1 .. version',
         open' \in [C -> Call \cup {Idle}], CallsHold'
  PROVE  StoreInv(T, I, C, Call)' /\ StepHolds
<1>1. Typed(T, I, C, Call)'
  BY DEF StoreInv, Typed
<1>2. OneEach(rows)' /\ Answered'
  BY DEF Right, OneEach, Answered, Gone, Stored, Missing
<1>3. db \in {"cassandra", "dynamo"} => Store!Fenced
  BY DEF Right, Store!Fenced, Store!NoLock
<1>4. db # "postgres" => Store!AddsNoRow
  <2>1. ASSUME db # "postgres", last'.op \in Updates \cup Deletes, NEW i \in Id
        PROVE  Cardinality(RowsOf(rows', i)) <= Cardinality(RowsOf(rows, i))
    BY <2>1, NoMoreCounts DEF Right
  <2>2. QED
    BY <2>1, AddsNoRowIs
<1>5. db \in {"mysql", "dynamo"} => Store!SaysTrueNotExists
  BY DEF Right, Missing, Store!SaysTrueNotExists, Store!RowsOf, RowsOf
<1>6. last'.res # "ok" /\ last'.op # "RangeDeleteWithLimit" =>
        \/ rows' = rows
        \/ /\ last'.res = "error"
           /\ last'.put \subseteq rows' /\ rows' \subseteq rows \cup last'.put
  BY DEF Right, Whole
<1>7. QED
  BY <1>1, <1>2, <1>3, <1>4, <1>5, <1>6 DEF StepHolds, StoreInv

(* ... in one request.                                                     *)
LEMMA AtOnceStep ==
  ASSUME NEW T, NEW I, NEW C, NEW Call, StoreInv(T, I, C, Call), IsFiniteSet(rows),
         NEW op \in Ops, NEW ver \in 0 .. MaxVersion, NEW id \in I, NEW put \in SUBSET Key(T, I),
         NEW after \in SUBSET Key(T, I), NEW res \in Answers,
         Right(op, ver, id, put, after, res), Store!AtOnce(op, ver, id, put, after, res), db' = db
  PROVE  StoreInv(T, I, C, Call)' /\ StepHolds
<1>1. /\ rows' = after /\ last' = [op |-> op, ver |-> ver, id |-> id, put |-> put, res |-> res]
      /\ UNCHANGED <<again, db, version, claimed, open>>
  BY DEF Store!AtOnce, Store!Return
<1>2. /\ version' \in 1 .. MaxVersion /\ claimed' \in 1 .. version'
      /\ open' \in [C -> Call \cup {Idle}] /\ CallsHold'
  BY <1>1 DEF StoreInv, Typed, CallsHold
<1>3. QED
  BY <1>1, <1>2, EndStep

(* ... or as the last of several.                                          *)
LEMMA ClosesStep ==
  ASSUME NEW T, NEW I, NEW C, NEW Call, StoreInv(T, I, C, Call), IsFiniteSet(rows),
         NEW c \in C, open[c] # Idle, open[c].op \in Ops, open[c].ver \in 0 .. MaxVersion,
         NEW id \in I, NEW put \in SUBSET Key(T, I),
         NEW after \in SUBSET Key(T, I), NEW res \in Answers,
         Right(open[c].op, open[c].ver, id, put, after, res),
         Store!Closes(c, id, put, after, res), db' = db
  PROVE  StoreInv(T, I, C, Call)' /\ StepHolds
<1>1. /\ rows' = after
      /\ last' = [op |-> open[c].op, ver |-> open[c].ver, id |-> id, put |-> put, res |-> res]
      /\ open' = [open EXCEPT ![c] = Idle]
      /\ UNCHANGED <<again, db, version, claimed>>
  BY DEF Store!Closes, Store!Return
<1>2. open \in [C -> Call \cup {Idle}]
  BY DEF StoreInv, Typed
<1>3. /\ version' \in 1 .. MaxVersion /\ claimed' \in 1 .. version'
      /\ open' \in [C -> Call \cup {Idle}] /\ CallsHold'
  BY <1>1, <1>2 DEF StoreInv, Typed, CallsHold
<1>4. QED
  BY <1>1, <1>3, EndStep

(* A request fails that nothing was applied of.                            *)
LEMMA FailsStep ==
  ASSUME NEW T, NEW I, NEW C, NEW Call, StoreInv(T, I, C, Call), IsFiniteSet(rows),
         NEW op \in Ops, NEW ver \in 0 .. MaxVersion, NEW id \in I,
         Store!AtOnce(op, ver, id, {}, rows, "error"), db' = db
  PROVE  StoreInv(T, I, C, Call)' /\ StepHolds
<1>1. OneEach(rows) /\ rows \in SUBSET Key(T, I)
  BY DEF StoreInv, Typed
<1>2. Right(op, ver, id, {}, rows, "error")
  BY <1>1 DEF Right, NoMore, Gone, Stored, Missing
<1>3. QED
  BY <1>1, <1>2, AtOnceStep DEF Answers

(* A call begins.                                                          *)
LEMMA OpensStep ==
  ASSUME NEW T, NEW I, NEW C, NEW Call, StoreInv(T, I, C, Call), IsFiniteSet(rows),
         NEW c \in C, NEW call \in Call, call.op \in Unversioned => call.ver = 0,
         UNCHANGED <<version, claimed, rows, last, again, db>>, open' = [open EXCEPT ![c] = call]
  PROVE  StoreInv(T, I, C, Call)' /\ StepHolds
<1>1. open \in [C -> Call \cup {Idle}]
  BY DEF StoreInv, Typed
<1>2. /\ version' \in 1 .. MaxVersion /\ claimed' \in 1 .. version'
      /\ open' \in [C -> Call \cup {Idle}] /\ CallsHold'
  BY <1>1 DEF StoreInv, Typed, CallsHold
<1>3. QED
  BY <1>2, QuietStep

(* Another owner takes the shard.                                          *)
LEMMA ClaimStep ==
  ASSUME NEW T, NEW I, NEW C, NEW Call, StoreInv(T, I, C, Call), IsFiniteSet(rows),
         Store!ClaimShard, db' = db
  PROVE  StoreInv(T, I, C, Call)' /\ StepHolds
<1>1. version < MaxVersion /\ version' = version + 1 /\ claimed' = version'
      /\ UNCHANGED <<rows, open, last, again, db>>
  BY DEF Store!ClaimShard
<1>2. /\ version' \in 1 .. MaxVersion /\ claimed' \in 1 .. version'
      /\ open' \in [C -> Call \cup {Idle}] /\ CallsHold'
  BY <1>1, VersionAssumption DEF StoreInv, Typed, CallsHold
<1>3. QED
  BY <1>1, <1>2, QuietStep

-----------------------------------------------------------------------------
(* What kinds of ends are right.                                           *)

(* Nothing was written, and nothing is said of the timer.                  *)
LEMMA RefusalIsRight ==
  ASSUME NEW op, NEW ver, NEW id, NEW put,
         NEW res \in {"ShardConditionFail", "NotSupport", "error"}, OneEach(rows)
  PROVE  Right(op, ver, id, put, rows, res)
BY DEF Right, NoMore, Gone, Stored, Missing

(* The timer has no row.                                                   *)
LEMMA NotExistsIsRight ==
  ASSUME NEW op, NEW ver, NEW id, NEW put, OneEach(rows),
         RowsOf(rows, id) = {} \/ db \in {"cassandra", "postgres", "mongo"}
  PROVE  Right(op, ver, id, put, rows, "NotExists")
BY DEF Right, NoMore, Gone, Stored, Missing

(* Nobody was there to be deleted, or it is deleted now.                   *)
LEMMA DeletionIsRight ==
  ASSUME NEW op \in Deletes, NEW ver, NEW id, NEW put, OneEach(rows),
         NEW after \in SUBSET rows, RowsOf(after, id) = {} \/ id \in again \/ db = "mongo",
         db \in {"cassandra", "dynamo"} => after = rows \/ ver \in {0, version}
  PROVE  Right(op, ver, id, put, after, "ok")
BY DEF Right, NoMore, Gone, Stored, Missing, OneEach, RowsOf, Updates, Deletes

(* A timer's row is moved, or left where it is.                            *)
LEMMA MoveIsRight ==
  ASSUME NEW op \in Updates, NEW ver, NEW id, NEW put,
         NEW after, OneEach(after), NoMore(after) \/ db = "postgres",
         RowsOf(after, id) # {} \/ db = "dynamo",
         db \in {"cassandra", "dynamo"} => after = rows \/ ver \in {0, version}
  PROVE  Right(op, ver, id, put, after, "ok")
BY DEF Right, Gone, Stored, Missing, Updates, Deletes

(* Rows are created, or a range is replaced or deleted.                    *)
LEMMA OtherIsRight ==
  ASSUME NEW op \in Ops \ (Updates \cup Deletes), NEW ver, NEW id, NEW put,
         NEW after, OneEach(after), NEW res \in {"ok", "error"},
         res = "ok" \/ op = "RangeDeleteWithLimit" \/ after = rows,
         db \in {"cassandra", "dynamo"} => after = rows \/ ver \in {0, version}
  PROVE  Right(op, ver, id, put, after, res)
BY DEF Right, Gone, Stored, Missing, Updates, Deletes

(* What is right with success is right when the answer to it is lost.      *)
LEMMA LostAnswerIsRight ==
  ASSUME NEW op, NEW ver, NEW id, NEW put, NEW after, Right(op, ver, id, put, after, "ok"),
         Whole(put, after) \/ op = "RangeDeleteWithLimit", NEW res \in {"ok", "error"}
  PROVE  Right(op, ver, id, put, after, res)
BY DEF Right, Gone, Stored, Missing

-----------------------------------------------------------------------------
(* Cassandra: the conditional batch is on the row that was looked up.      *)
CassandraInv == StoreInv(CassandraTime, CassandraId, Client, Cassandra!Call)

(* An INSERT may leave a second row, of a timer that is remembered for it. *)
LEMMA CassandraInsertStep ==
  ASSUME CassandraInv, IsFiniteSet(rows), db = "cassandra", db' = db,
         NEW op \in Ops \ (Updates \cup Deletes), NEW ver \in {0, version}, NEW id \in CassandraId,
         NEW rest \in SUBSET rows, NEW new \in SUBSET Key(CassandraTime, CassandraId),
         Cassandra!Insert(op, ver, id, rest, new)
  PROVE  CassandraInv' /\ StepHolds
<1> DEFINE more == {r.id : r \in {q \in new : RowsOf(rows' \ {q}, q.id) # {}}}
<1>1. /\ rows' = rest \cup new
      /\ again' = again \cup more
      /\ \E res \in {"ok", "error"} :
           last' = [op |-> op, ver |-> ver, id |-> id, put |-> new, res |-> res]
      /\ UNCHANGED <<version, claimed, open>>
  BY DEF Cassandra!Insert, Cassandra!Outcome, Cassandra!Return, Cassandra!RowsOf, RowsOf
<1>2. more \subseteq CassandraId
  BY DEF Key
<1>3. Typed(CassandraTime, CassandraId, Client, Cassandra!Call)'
  <2> HIDE DEF more
  <2>1. ver \in 0 .. MaxVersion
    BY VersionAssumption DEF CassandraInv, StoreInv, Typed
  <2>2. QED
    BY <1>1, <1>2, <2>1 DEF CassandraInv, StoreInv, Typed, Answers
<1>4. OneEach(rows)'
  <2>1. SUFFICES ASSUME NEW r \in rows', NEW q \in rows', r.id = q.id, r.id \notin again', r # q
                 PROVE  FALSE
    BY DEF OneEach
  <2>2. r \notin new /\ q \notin new
    BY <1>1, <2>1 DEF RowsOf
  <2>3. QED
    BY <1>1, <2>1, <2>2 DEF CassandraInv, StoreInv, OneEach
<1>5. CallsHold'
  BY <1>1 DEF CassandraInv, StoreInv, CallsHold
<1>6. Answered'
  BY <1>1 DEF Answered, Gone, Stored, Missing
<1>7. Store!AddsNoRow
  BY <1>1, AddsNoRowIs
<1>8. StepHolds
  BY <1>1, <1>7 DEF StepHolds, Store!Fenced, Store!NoLock
<1>9. QED
  BY <1>3, <1>4, <1>5, <1>6, <1>8 DEF CassandraInv, StoreInv

(* The rows without the one that was looked up, and with it moved.         *)
LEMMA CassandraMoved ==
  ASSUME CassandraInv, NEW q \in Cassandra!Call, q.found \in rows
  PROVE  /\ Cassandra!Moved(q) \in SUBSET Key(CassandraTime, CassandraId)
         /\ OneEach(Cassandra!Moved(q))
         /\ NoMore(Cassandra!Moved(q))
         /\ RowsOf(Cassandra!Moved(q), q.found.id) # {}
<1> DEFINE x == q.found
           y == [at |-> q.at, id |-> q.found.id]
<1>1. x \in Key(CassandraTime, CassandraId) /\ y \in Key(CassandraTime, CassandraId)
  BY DEF Cassandra!Call, Cassandra!Timer, Cassandra!Key, Key
<1>2. Cassandra!Moved(q) = (rows \ {x}) \cup {y}
  BY <1>1 DEF Cassandra!Moved, Key
<1>3. y.id = x.id
  OBVIOUS
<1>4. rows \subseteq Key(CassandraTime, CassandraId) /\ OneEach(rows)
  BY DEF CassandraInv, StoreInv, Typed
<1> HIDE DEF x, y
<1>5. OneEach(Cassandra!Moved(q))
  BY <1>2, <1>3, <1>4 DEF OneEach, x
<1>6. NoMore(Cassandra!Moved(q))
  <2>1. SUFFICES ASSUME NEW id
                 PROVE  \/ RowsOf((rows \ {x}) \cup {y}, id) \subseteq RowsOf(rows, id)
                        \/ Replaces((rows \ {x}) \cup {y}, id)
    BY <1>2 DEF NoMore
  <2>2. CASE id = x.id
    BY <2>2 DEF Replaces, RowsOf, x
  <2>3. CASE id # x.id
    BY <1>3, <2>3 DEF RowsOf
  <2>4. QED
    BY <2>2, <2>3
<1>7. RowsOf(Cassandra!Moved(q), x.id) # {}
  BY <1>2, <1>3 DEF RowsOf
<1>8. QED
  BY <1>1, <1>2, <1>4, <1>5, <1>6, <1>7 DEF x

(* What a call keeps between its requests.                                 *)
LEMMA CassandraCalls ==
  ASSUME CassandraInv, NEW c \in Client, open[c] # Idle
  PROVE  /\ open[c] \in Cassandra!Call
         /\ open[c].op \in Updates \cup Deletes /\ open[c].op \in Ops
         /\ open[c].ver \in 0 .. MaxVersion
         /\ open[c].op \in Unversioned => open[c].ver = 0
         /\ open[c].found \in Key(CassandraTime, CassandraId)
         /\ open[c].found.id \in CassandraId
<1>1. open[c] \in Cassandra!Call
  BY DEF CassandraInv, StoreInv, Typed
<1>2. open[c].op \in Unversioned => open[c].ver = 0
  BY DEF CassandraInv, StoreInv, Typed, CallsHold
<1>3. QED
  BY <1>1, <1>2, VersionAssumption
  DEF Cassandra!Call, Cassandra!UpdateOp, Cassandra!DeleteOp, Cassandra!Version, Cassandra!NoLock,
      Cassandra!Timer, Cassandra!Key, Key, Updates, Deletes, Ops

(* A batch that was looked up for ends, applied or not.                    *)
LEMMA CassandraEndStep ==
  ASSUME CassandraInv, IsFiniteSet(rows), db = "cassandra", db' = db,
         NEW c \in Client, Cassandra!End(c)
  PROVE  CassandraInv' /\ StepHolds
<1> DEFINE q == open[c]
<1>1. PICK op \in Updates \cup Deletes : Cassandra!Running(c, {op})
  BY DEF Cassandra!End, Cassandra!UpdateTimer, Cassandra!DeleteTimer, Cassandra!UpdateTimerNoLock,
         Cassandra!DeleteTimerNoLock, Updates, Deletes
<1>2. open[c] # Idle /\ q.op = op
  BY <1>1 DEF Cassandra!Running
<1>3. /\ q \in Cassandra!Call /\ q.op \in Ops
      /\ q.ver \in 0 .. MaxVersion /\ (q.op \in Unversioned => q.ver = 0)
      /\ q.found.id \in CassandraId
  BY <1>2, CassandraCalls
<1>4. OneEach(rows) /\ rows \subseteq Key(CassandraTime, CassandraId)
  BY DEF CassandraInv, StoreInv, Typed
<1>5. ASSUME NEW put \in SUBSET Key(CassandraTime, CassandraId),
             NEW after \in SUBSET Key(CassandraTime, CassandraId), NEW res \in Answers,
             Right(q.op, q.ver, q.found.id, put, after, res),
             Cassandra!Closes(c, q.found.id, put, after, res)
      PROVE  CassandraInv' /\ StepHolds
  <2>1. Store!Closes(c, q.found.id, put, after, res)
    BY <1>5 DEF Store!Closes, Cassandra!Closes, Store!Return, Cassandra!Return
  <2>2. QED
    BY <1>2, <1>3, <1>5, <2>1, ClosesStep DEF CassandraInv
<1>6. ASSUME NEW put \in SUBSET Key(CassandraTime, CassandraId),
             NEW after \in SUBSET Key(CassandraTime, CassandraId),
             Right(q.op, q.ver, q.found.id, put, after, "ok"), Whole(put, after),
             Cassandra!Ends(c, q.found.id, put, after)
      PROVE  CassandraInv' /\ StepHolds
  <2>1. PICK res \in {"ok", "error"} : Cassandra!Closes(c, q.found.id, put, after, res)
    BY <1>6 DEF Cassandra!Ends, Cassandra!Outcome
  <2>2. Right(q.op, q.ver, q.found.id, put, after, res)
    BY <1>6, LostAnswerIsRight
  <2>3. QED
    BY <1>5, <2>1, <2>2 DEF Answers
<1>7. ASSUME NEW put \in SUBSET Key(CassandraTime, CassandraId),
             NEW res \in {"NotExists", "ShardConditionFail", "error"},
             Cassandra!Closes(c, q.found.id, put, rows, res)
      PROVE  CassandraInv' /\ StepHolds
  <2>1. Right(q.op, q.ver, q.found.id, put, rows, res)
    BY <1>4, RefusalIsRight, NotExistsIsRight
  <2>2. QED
    BY <1>4, <1>5, <1>7, <2>1 DEF Answers
<1>8. ASSUME q.found \in rows, q.op \in Deletes, q.ver \in {0, version},
             Cassandra!Ends(c, q.found.id, {}, rows \ {q.found})
      PROVE  CassandraInv' /\ StepHolds
  <2>1. RowsOf(rows \ {q.found}, q.found.id) = {} \/ q.found.id \in again
    BY <1>4, <1>8 DEF OneEach, RowsOf
  <2>2. Right(q.op, q.ver, q.found.id, {}, rows \ {q.found}, "ok")
    BY <1>4, <1>8, <2>1, DeletionIsRight
  <2>3. Whole({}, rows \ {q.found})
    BY DEF Whole
  <2>4. QED
    BY <1>4, <1>6, <1>8, <2>2, <2>3
<1>9. ASSUME q.found \in rows, q.op \in Updates, q.ver \in {0, version}, NEW put, NEW after,
             \/ put = {q.found} /\ after = rows
             \/ put = {Cassandra!Target(q)} /\ after = Cassandra!Moved(q),
             Cassandra!Ends(c, q.found.id, put, after)
      PROVE  CassandraInv' /\ StepHolds
  <2>1. /\ after \in SUBSET Key(CassandraTime, CassandraId) /\ OneEach(after) /\ NoMore(after)
        /\ RowsOf(after, q.found.id) # {}
    <3>1. CASE after = rows
      BY <1>4, <1>9, <3>1 DEF NoMore, RowsOf
    <3>2. CASE after = Cassandra!Moved(q)
      BY <1>3, <1>9, <3>2, CassandraMoved
    <3>3. QED
      BY <1>9, <3>1, <3>2
  <2>2. RowsOf(rows, q.found.id) # {}
    BY <1>9 DEF RowsOf
  <2>3. Right(q.op, q.ver, q.found.id, put, after, "ok")
    BY <1>9, <2>1, <2>2, MoveIsRight
  <2>4. Whole(put, after) /\ put \in SUBSET Key(CassandraTime, CassandraId)
    <3>1. CASE put = {q.found} /\ after = rows
      BY <1>4, <1>9, <3>1 DEF Whole
    <3>2. CASE put = {Cassandra!Target(q)} /\ after = Cassandra!Moved(q)
      BY <2>1, <3>2 DEF Whole, Cassandra!Moved, Cassandra!Target
    <3>3. QED
      BY <1>9, <3>1, <3>2
  <2>5. QED
    BY <1>6, <1>9, <2>1, <2>3, <2>4
<1>10. {Cassandra!Target(q)} \in SUBSET Key(CassandraTime, CassandraId)
      /\ {q.found} \in SUBSET Key(CassandraTime, CassandraId)
  BY <1>3 DEF Cassandra!Target, Cassandra!Call, Cassandra!Timer, Cassandra!Key, Key
<1>11. CASE Cassandra!UpdateTimer(c)
  BY <1>7, <1>9, <1>11, <1>10
  DEF Cassandra!UpdateTimer, Cassandra!Batch, Cassandra!Applies, Cassandra!StillThere,
      Cassandra!Running, Updates
<1>12. CASE Cassandra!DeleteTimer(c)
  BY <1>7, <1>8, <1>12
  DEF Cassandra!DeleteTimer, Cassandra!Batch, Cassandra!Applies, Cassandra!StillThere,
      Cassandra!Running, Deletes
<1>13. CASE Cassandra!UpdateTimerNoLock(c)
  BY <1>3, <1>7, <1>9, <1>13, <1>10
  DEF Cassandra!UpdateTimerNoLock, Cassandra!Conditional, Cassandra!StillThere,
      Cassandra!Running, Updates, Unversioned
<1>14. CASE Cassandra!DeleteTimerNoLock(c)
  BY <1>3, <1>7, <1>8, <1>14
  DEF Cassandra!DeleteTimerNoLock, Cassandra!Conditional, Cassandra!StillThere,
      Cassandra!Running, Deletes, Unversioned
<1>15. QED
  BY <1>11, <1>12, <1>13, <1>14 DEF Cassandra!End

(* Every step of the Cassandra store.                                      *)
LEMMA CassandraStep ==
  ASSUME CassandraInv, IsFiniteSet(rows), db = "cassandra", db' = db, Cassandra!Next
  PROVE  CassandraInv' /\ StepHolds
<1> USE DEF CassandraInv
<1>1. OneEach(rows) /\ rows \subseteq Key(CassandraTime, CassandraId)
  BY DEF StoreInv, Typed
<1>2. Cassandra!Held \subseteq 0 .. MaxVersion /\ 0 \in 0 .. MaxVersion
  BY VersionAssumption DEF Cassandra!Held, StoreInv, Typed
<1>3. ASSUME NEW op \in Ops, NEW ver \in 0 .. MaxVersion, NEW id \in CassandraId,
             NEW put \in SUBSET Key(CassandraTime, CassandraId), NEW after \in SUBSET rows,
             NEW res \in Answers, Right(op, ver, id, put, after, res),
             Cassandra!AtOnce(op, ver, id, put, after, res)
      PROVE  CassandraInv' /\ StepHolds
  <2>1. Store!AtOnce(op, ver, id, put, after, res)
    BY <1>3 DEF Store!AtOnce, Cassandra!AtOnce, Store!Return, Cassandra!Return
  <2>2. after \in SUBSET Key(CassandraTime, CassandraId)
    BY <1>1
  <2>3. QED
    BY <1>3, <2>1, <2>2, AtOnceStep
<1>4. ASSUME NEW op \in Ops, NEW ver \in Cassandra!Held, NEW id \in CassandraId,
             NEW put \in SUBSET Key(CassandraTime, CassandraId),
             Cassandra!AtOnce(op, ver, id, put, rows, "ShardConditionFail")
      PROVE  CassandraInv' /\ StepHolds
  <2>1. Right(op, ver, id, put, rows, "ShardConditionFail")
    BY <1>1, RefusalIsRight
  <2>2. QED
    BY <1>2, <1>3, <1>4, <2>1 DEF Answers
<1>5. CASE Cassandra!ClaimShard
  <2>1. Store!ClaimShard
    BY <1>5 DEF Store!ClaimShard, Cassandra!ClaimShard
  <2>2. QED
    BY <2>1, ClaimStep
<1>6. CASE Cassandra!OneStatement
  <2>1. ASSUME NEW ver \in Cassandra!Held, NEW r \in Cassandra!Timer, Cassandra!CreateTimer(ver, r)
        PROVE  CassandraInv' /\ StepHolds
    <3>1. r.id \in CassandraId /\ {r} \in SUBSET Key(CassandraTime, CassandraId)
      BY DEF Cassandra!Timer, Cassandra!Key, Key
    <3>2. CASE Cassandra!Applies(ver) /\ Cassandra!Insert("CreateTimer", ver, r.id, rows, {r})
      BY <3>1, <3>2, CassandraInsertStep DEF Cassandra!Applies, Ops, Updates, Deletes
    <3>3. CASE Cassandra!AtOnce("CreateTimer", ver, r.id, {r}, rows, "ShardConditionFail")
      BY <1>4, <3>1, <3>3 DEF Ops
    <3>4. QED
      BY <2>1, <3>2, <3>3 DEF Cassandra!CreateTimer
  <2>2. ASSUME NEW r \in Cassandra!Timer, Cassandra!CreateTimerNoLock(r)
        PROVE  CassandraInv' /\ StepHolds
    <3>1. r.id \in CassandraId /\ {r} \in SUBSET Key(CassandraTime, CassandraId)
      BY DEF Cassandra!Timer, Cassandra!Key, Key
    <3>2. QED
      BY <2>2, <3>1, CassandraInsertStep
      DEF Cassandra!CreateTimerNoLock, Cassandra!NoLock, Ops, Updates, Deletes
  <2>3. ASSUME NEW ver \in Cassandra!Held,
               NEW k \in Cassandra!Ranges, NEW new \in Cassandra!Inserts,
               Cassandra!RangeDeleteWithBatchInsertTxn(ver, k[1], k[2], new)
        PROVE  CassandraInv' /\ StepHolds
    <3> DEFINE rest == rows \ Cassandra!Between(rows, k[1], k[2])
               op == "RangeDeleteWithBatchInsertTxn"
    <3>1. k[2].id \in CassandraId /\ new \in SUBSET Key(CassandraTime, CassandraId)
      BY DEF Cassandra!Ranges, Cassandra!Inserts, Cassandra!Timer, Cassandra!Key, Key
    <3>2. op \in Ops \ (Updates \cup Deletes) /\ rest \in SUBSET rows
      BY DEF Ops, Updates, Deletes
    <3>3. \/ Cassandra!Applies(ver) /\ Cassandra!Insert(op, ver, k[2].id, rest, new)
          \/ Cassandra!AtOnce(op, ver, k[2].id, new, rows, "ShardConditionFail")
      BY <2>3 DEF Cassandra!RangeDeleteWithBatchInsertTxn
    <3> HIDE DEF rest, op
    <3>4. CASE Cassandra!Applies(ver) /\ Cassandra!Insert(op, ver, k[2].id, rest, new)
      BY <3>1, <3>2, <3>4, CassandraInsertStep DEF Cassandra!Applies
    <3>5. CASE Cassandra!AtOnce(op, ver, k[2].id, new, rows, "ShardConditionFail")
      BY <1>4, <3>1, <3>2, <3>5
    <3>6. QED
      BY <3>3, <3>4, <3>5
  <2>4. ASSUME NEW k \in Cassandra!Ranges, NEW limit \in CassandraLimit,
               Cassandra!RangeDeleteWithLimit(k[1], k[2], limit)
        PROVE  CassandraInv' /\ StepHolds
    <3> DEFINE after == rows \ Cassandra!Between(rows, k[1], k[2])
               op == "RangeDeleteWithLimit"
    <3>1. k[2].id \in CassandraId
      BY DEF Cassandra!Ranges, Cassandra!Timer, Cassandra!Key
    <3>2. op \in Ops \ (Updates \cup Deletes) /\ after \in SUBSET rows /\ OneEach(after)
      BY <1>1 DEF Ops, Updates, Deletes, OneEach
    <3>3. PICK res \in {"ok", "error"} : Cassandra!AtOnce(op, 0, k[2].id, {}, after, res)
      BY <2>4
      DEF Cassandra!RangeDeleteWithLimit, Cassandra!Writes, Cassandra!Outcome, Cassandra!NoLock
    <3>4. op = "RangeDeleteWithLimit"
      OBVIOUS
    <3> HIDE DEF after, op
    <3>5. Right(op, 0, k[2].id, {}, after, res)
      BY <3>2, <3>4, OtherIsRight
    <3>6. QED
      BY <1>2, <1>3, <3>1, <3>2, <3>3, <3>5 DEF Answers
  <2>5. QED
    BY <1>6, <2>1, <2>2, <2>3, <2>4 DEF Cassandra!OneStatement
<1>7. ASSUME NEW c \in Client, Cassandra!Begin(c)
      PROVE  CassandraInv' /\ StepHolds
  <2>1. ASSUME NEW op \in Updates \cup Deletes, NEW ver \in 0 .. MaxVersion,
               op \in Unversioned => ver = 0,
               NEW id \in CassandraId, NEW at, CassandraTime # {} => at \in CassandraTime,
               Cassandra!LookUp(c, op, ver, id, at)
        PROVE  CassandraInv' /\ StepHolds
    <3>1. ASSUME NEW r \in Cassandra!RowsOf(rows, id),
                 Cassandra!Opens(c, [op |-> op, ver |-> ver, found |-> r, at |-> at])
          PROVE  CassandraInv' /\ StepHolds
      <4> DEFINE call == [op |-> op, ver |-> ver, found |-> r, at |-> at]
      <4>1. r \in Key(CassandraTime, CassandraId)
        BY <1>1 DEF Cassandra!RowsOf
      <4>2. at \in CassandraTime
        BY <2>1, <4>1 DEF Key
      <4>3. call \in Cassandra!Call
        BY <4>1, <4>2, VersionAssumption
        DEF Cassandra!Call, Cassandra!UpdateOp, Cassandra!DeleteOp, Cassandra!Version,
            Cassandra!NoLock, Cassandra!Timer, Cassandra!Key, Key, Updates, Deletes
      <4>4. call.op \in Unversioned => call.ver = 0
        BY <2>1
      <4>5. /\ UNCHANGED <<version, claimed, rows, last, again, db>>
            /\ open' = [open EXCEPT ![c] = call]
        BY <3>1 DEF Cassandra!Opens
      <4> HIDE DEF call
      <4>6. QED
        BY <4>3, <4>4, <4>5, OpensStep
    <3>2. ASSUME Cassandra!RowsOf(rows, id) = {}, Cassandra!AtOnce(op, ver, id, {}, rows, "NotExists")
          PROVE  CassandraInv' /\ StepHolds
      <4>1. Right(op, ver, id, {}, rows, "NotExists")
        BY <1>1, NotExistsIsRight
      <4>2. QED
        BY <1>3, <3>2, <4>1 DEF Answers, Ops, Updates, Deletes
    <3>3. QED
      BY <2>1, <3>1, <3>2 DEF Cassandra!LookUp
  <2>2. CassandraTime # {} => (CHOOSE t \in CassandraTime : TRUE) \in CassandraTime
    OBVIOUS
  <2>3. PICK id \in CassandraId :
          \/ \E ver \in Cassandra!Held, at \in CassandraTime :
               Cassandra!LookUp(c, "UpdateTimer", ver, id, at)
          \/ \E ver \in Cassandra!Held :
               Cassandra!LookUp(c, "DeleteTimer", ver, id, CHOOSE t \in CassandraTime : TRUE)
          \/ \E at \in CassandraTime : Cassandra!LookUp(c, "UpdateTimerNoLock", 0, id, at)
          \/ Cassandra!LookUp(c, "DeleteTimerNoLock", 0, id, CHOOSE t \in CassandraTime : TRUE)
    BY <1>7 DEF Cassandra!Begin, Cassandra!NoLock
  <2>4. /\ {"UpdateTimer", "DeleteTimer", "UpdateTimerNoLock", "DeleteTimerNoLock"}
             \subseteq Updates \cup Deletes
        /\ "UpdateTimer" \notin Unversioned /\ "DeleteTimer" \notin Unversioned
    BY DEF Updates, Deletes, Unversioned
  <2>5. QED
    BY <1>2, <2>1, <2>2, <2>3, <2>4
<1>8. CASE Cassandra!Fails
  <2>1. PICK op \in Ops, ver \in 0 .. MaxVersion, id \in CassandraId :
          Cassandra!AtOnce(op, ver, id, {}, rows, "error")
    BY <1>2, <1>8, VersionAssumption
    DEF Cassandra!Fails, Cassandra!Operation, Cassandra!CreateOp, Cassandra!UpdateOp,
        Cassandra!DeleteOp, Cassandra!RangeOp, Cassandra!Version, Cassandra!NoLock, Ops
  <2>2. Store!AtOnce(op, ver, id, {}, rows, "error")
    BY <2>1 DEF Store!AtOnce, Cassandra!AtOnce, Store!Return, Cassandra!Return
  <2>3. QED
    BY <2>2, FailsStep
<1>9. ASSUME NEW c \in Client, Cassandra!Abort(c)
      PROVE  CassandraInv' /\ StepHolds
  <2>1. PICK id \in CassandraId : open[c] # Idle /\ Cassandra!Closes(c, id, {}, rows, "error")
    BY <1>9 DEF Cassandra!Abort
  <2>2. Store!Closes(c, id, {}, rows, "error")
    BY <2>1 DEF Store!Closes, Cassandra!Closes, Store!Return, Cassandra!Return
  <2>3. open[c].op \in Ops /\ open[c].ver \in 0 .. MaxVersion
    BY <2>1, CassandraCalls
  <2>4. Right(open[c].op, open[c].ver, id, {}, rows, "error")
    BY <1>1, RefusalIsRight
  <2>5. QED
    BY <1>1, <2>1, <2>2, <2>3, <2>4, ClosesStep DEF Answers
<1>10. QED
  BY <1>5, <1>6, <1>7, <1>8, <1>9, CassandraEndStep DEF Cassandra!Next

-----------------------------------------------------------------------------
(* What the stores with transactions share.                                *)
Moves(r) == (rows \ RowsOf(rows, r.id)) \cup {r}

(* A row that takes the place of the timer's others.                       *)
LEMMA MovesKeeps ==
  ASSUME OneEach(rows), NEW r
  PROVE  /\ OneEach(Moves(r)) /\ RowsOf(Moves(r), r.id) # {}
         /\ RowsOf(rows, r.id) # {} => NoMore(Moves(r))
<1>1. OneEach(Moves(r)) /\ RowsOf(Moves(r), r.id) # {}
  BY DEF OneEach, Moves, RowsOf
<1>2. ASSUME RowsOf(rows, r.id) # {}, NEW id
      PROVE  RowsOf(Moves(r), id) \subseteq RowsOf(rows, id) \/ Replaces(Moves(r), id)
  <2>1. CASE id = r.id
    <3>1. PICK x \in RowsOf(rows, id) : TRUE
      BY <1>2, <2>1
    <3>2. RowsOf(Moves(r), id) \subseteq (RowsOf(rows, id) \ {x}) \cup {r}
      BY <2>1 DEF Moves, RowsOf
    <3>3. QED
      BY <3>1, <3>2 DEF Replaces
  <2>2. CASE id # r.id
    BY <2>2 DEF Moves, RowsOf
  <2>3. QED
    BY <2>1, <2>2
<1>3. QED
  BY <1>1, <1>2 DEF NoMore

(* ... and of nothing else.                                                *)
LEMMA MovesAreWhole == \A r : Whole({r}, Moves(r))
BY DEF Whole, Moves

(* Inserts that the unique index lets pass.                                *)
LEMMA InsertsKeep ==
  ASSUME NEW rest, OneEach(rest), NEW new, IsFiniteSet(new),
         \A r \in new : RowsOf(rest, r.id) = {} /\ ~(Cardinality(RowsOf(new, r.id)) > 1)
  PROVE  OneEach(rest \cup new)
<1>1. ASSUME NEW r \in new, NEW q \in new, r.id = q.id
      PROVE  r = q
  <2> DEFINE S == RowsOf(new, r.id)
  <2>1. r \in S /\ q \in S /\ IsFiniteSet(S)
    BY <1>1, FS_Subset DEF RowsOf
  <2>2. ~(Cardinality(S) > 1)
    OBVIOUS
  <2> HIDE DEF S
  <2>3. SUFFICES ASSUME r # q
                 PROVE  FALSE
    OBVIOUS
  <2> DEFINE R == S \ {r}
  <2>4. IsFiniteSet(R) /\ Cardinality(R) = Cardinality(S) - 1
    BY <2>1, FS_RemoveElement
  <2>5. q \in R /\ Cardinality(S) \in Nat
    BY <2>1, <2>3, FS_CardinalityType
  <2> HIDE DEF R
  <2>6. Cardinality(R) # 0 /\ Cardinality(R) \in Nat
    BY <2>4, <2>5, FS_EmptySet, FS_CardinalityType
  <2>7. QED
    BY <2>2, <2>4, <2>5, <2>6
<1>2. QED
  BY <1>1 DEF OneEach, RowsOf

(* Fewer rows are no second ones.                                          *)
LEMMA FewerKeep ==
  ASSUME OneEach(rows), NEW after \in SUBSET rows
  PROVE  OneEach(after)
BY DEF OneEach

-----------------------------------------------------------------------------
(* MySQL.                                                                  *)
MySQLInv == StoreInv(Time, Id, Client, MySQL!Call)

(* A transaction that goes on, and its version.                            *)
LEMMA MySQLCalls ==
  ASSUME MySQLInv, NEW c \in Client, NEW op, MySQL!Running(c, {op})
  PROVE  /\ open[c] # Idle /\ open[c].op = op
         /\ op \in Ops /\ open[c].ver \in 0 .. MaxVersion
<1>1. open[c] # Idle /\ open[c].op = op
  BY DEF MySQL!Running
<1>2. open[c] \in MySQL!Call
  BY <1>1 DEF MySQLInv, StoreInv, Typed
<1>3. QED
  BY <1>1, <1>2, VersionAssumption DEF MySQL!Call, MySQL!TxnOp, MySQL!Version, Ops

(* The last statement of a transaction.                                    *)
LEMMA MySQLClosesStep ==
  ASSUME MySQLInv, IsFiniteSet(rows), db = "mysql", db' = db,
         NEW c \in Client, NEW op, MySQL!Running(c, {op}),
         NEW id \in Id, NEW put \in SUBSET Key(Time, Id),
         NEW after \in SUBSET Key(Time, Id), NEW res \in Answers,
         \A ver : Right(op, ver, id, put, after, res), MySQL!Closes(c, id, put, after, res)
  PROVE  MySQLInv' /\ StepHolds
<1>1. Store!Closes(c, id, put, after, res)
  BY DEF Store!Closes, MySQL!Closes, Store!Return, MySQL!Return
<1>2. open[c] # Idle /\ open[c].op = op /\ op \in Ops /\ open[c].ver \in 0 .. MaxVersion
  BY MySQLCalls
<1>3. QED
  BY <1>1, <1>2, ClosesStep DEF MySQLInv

(* ... that writes: the answer may be lost.                                *)
LEMMA MySQLEndsStep ==
  ASSUME MySQLInv, IsFiniteSet(rows), db = "mysql", db' = db,
         NEW c \in Client, NEW op, MySQL!Running(c, {op}),
         NEW id \in Id, NEW put \in SUBSET Key(Time, Id), NEW after \in SUBSET Key(Time, Id),
         \A ver : Right(op, ver, id, put, after, "ok"), Whole(put, after),
         MySQL!Ends(c, id, put, after)
  PROVE  MySQLInv' /\ StepHolds
<1>1. PICK res \in {"ok", "error"} : MySQL!Closes(c, id, put, after, res)
  BY DEF MySQL!Ends, MySQL!Outcome
<1>2. \A ver : Right(op, ver, id, put, after, res)
  BY LostAnswerIsRight
<1>3. QED
  BY <1>1, <1>2, MySQLClosesStep DEF Answers

(* What one statement writes is written to the right rows.                 *)
LEMMA MySQLAtOnceStep ==
  ASSUME MySQLInv, IsFiniteSet(rows), db = "mysql", db' = db,
         NEW op \in Ops, NEW ver \in 0 .. MaxVersion, NEW id \in Id,
         NEW put \in SUBSET Key(Time, Id), NEW after \in SUBSET Key(Time, Id), NEW res \in Answers,
         Right(op, ver, id, put, after, res), MySQL!AtOnce(op, ver, id, put, after, res)
  PROVE  MySQLInv' /\ StepHolds
<1>1. Store!AtOnce(op, ver, id, put, after, res)
  BY DEF Store!AtOnce, MySQL!AtOnce, Store!Return, MySQL!Return
<1>2. QED
  BY <1>1, AtOnceStep DEF MySQLInv

(* The second half of a versioned call.                                    *)
LEMMA MySQLTransactionStep ==
  ASSUME MySQLInv, IsFiniteSet(rows), db = "mysql", db' = db,
         NEW c \in Client, MySQL!Transaction(c)
  PROVE  MySQLInv' /\ StepHolds
<1> DEFINE K == Key(Time, Id)
<1>1. OneEach(rows) /\ rows \in SUBSET K
  BY DEF MySQLInv, StoreInv, Typed
<1>2. IsFiniteSet(K)
  BY KeysFinite, FiniteAssumption
<1>3. MySQL!Timer = K
  BY DEF MySQL!Timer, MySQL!Key, Key
<1> HIDE DEF K
<1>4. MySQL!Held \subseteq 1 .. MaxVersion
  BY VersionAssumption DEF MySQL!Held, MySQLInv, StoreInv, Typed
<1>5. ASSUME NEW op \in MySQL!TxnOp, NEW ver \in MySQL!Held,
             MySQL!Begin(c, [op |-> op, ver |-> ver])
      PROVE  MySQLInv' /\ StepHolds
  <2> DEFINE call == [op |-> op, ver |-> ver]
  <2>1. call \in MySQL!Call /\ op \in Ops /\ ver \in 0 .. MaxVersion
    BY <1>4, VersionAssumption DEF MySQL!Call, MySQL!Version, MySQL!TxnOp, Ops
  <2>2. call.op \in Unversioned => call.ver = 0
    BY DEF MySQL!TxnOp, Unversioned
  <2>3. CASE MySQL!Opens(c, call)
    <3>1. UNCHANGED <<version, claimed, rows, last, again, db>> /\ open' = [open EXCEPT ![c] = call]
      BY <2>3 DEF MySQL!Opens
    <3> HIDE DEF call
    <3>2. QED
      BY <2>1, <2>2, <3>1, OpensStep DEF MySQLInv
  <2>4. ASSUME NEW id \in Id, MySQL!AtOnce(op, ver, id, {}, rows, "ShardConditionFail")
        PROVE  MySQLInv' /\ StepHolds
    <3>1. Right(op, ver, id, {}, rows, "ShardConditionFail")
      BY <1>1, RefusalIsRight
    <3>2. QED
      BY <1>1, <2>1, <2>4, <3>1, MySQLAtOnceStep DEF Answers, K
  <2>5. QED
    BY <1>5, <2>3, <2>4 DEF MySQL!Begin
<1>6. ASSUME NEW r \in MySQL!Timer, MySQL!CreateTimer(c, r)
      PROVE  MySQLInv' /\ StepHolds
  <2>1. r.id \in Id /\ Moves(r) \in SUBSET K
    BY <1>1, <1>3 DEF K, Key, Moves
  <2>2. MySQL!Running(c, {"CreateTimer"}) /\ MySQL!Ends(c, r.id, {r}, Moves(r))
    BY <1>6 DEF MySQL!CreateTimer, MySQL!Upsert, MySQL!RowsOf, RowsOf, Moves
  <2>3. \A ver : Right("CreateTimer", ver, r.id, {r}, Moves(r), "ok")
    BY <1>1, MovesKeeps, OtherIsRight DEF Ops, Updates, Deletes
  <2>4. QED
    BY <1>3, <2>1, <2>2, <2>3, MovesAreWhole, MySQLEndsStep DEF K
<1>7. ASSUME NEW k \in MySQL!Ranges, NEW new \in MySQL!Inserts,
             MySQL!RangeDeleteWithBatchInsertTxn(c, k[1], k[2], new)
      PROVE  MySQLInv' /\ StepHolds
  <2> DEFINE rest == rows \ MySQL!Between(rows, k[1], k[2])
             op == "RangeDeleteWithBatchInsertTxn"
  <2>1. k[2].id \in Id /\ new \in SUBSET K
    BY <1>3 DEF MySQL!Ranges, MySQL!Inserts, K, Key
  <2>2. /\ MySQL!Running(c, {op})
        /\ \/ ~MySQL!Duplicates(rest, new) /\ MySQL!Ends(c, k[2].id, new, rest \cup new)
           \/ MySQL!Closes(c, k[2].id, new, rows, "error")
    BY <1>7 DEF MySQL!RangeDeleteWithBatchInsertTxn, MySQL!RolledBack
  <2>3. op \in Ops \ (Updates \cup Deletes) /\ rest \in SUBSET rows
    BY DEF Ops, Updates, Deletes
  <2> HIDE DEF op, rest
  <2>4. CASE ~MySQL!Duplicates(rest, new) /\ MySQL!Ends(c, k[2].id, new, rest \cup new)
    <3>1. IsFiniteSet(new)
      BY <1>2, <2>1, FS_Subset
    <3>2. \A r \in new : RowsOf(rest, r.id) = {} /\ ~(Cardinality(RowsOf(new, r.id)) > 1)
      BY <2>4, OneCardinality DEF MySQL!Duplicates, MySQL!RowsOf, RowsOf
    <3>3. OneEach(rest \cup new)
      BY <1>1, <2>3, <3>1, <3>2, FewerKeep, InsertsKeep
    <3>4. \A ver : Right(op, ver, k[2].id, new, rest \cup new, "ok")
      BY <2>3, <3>3, OtherIsRight
    <3>5. Whole(new, rest \cup new)
      BY <2>3 DEF Whole
    <3>6. QED
      BY <1>1, <2>1, <2>2, <2>3, <2>4, <3>4, <3>5, MySQLEndsStep DEF K
  <2>5. CASE MySQL!Closes(c, k[2].id, new, rows, "error")
    <3>1. \A ver : Right(op, ver, k[2].id, new, rows, "error")
      BY <1>1, RefusalIsRight
    <3>2. QED
      BY <1>1, <2>1, <2>2, <2>5, <3>1, MySQLClosesStep DEF Answers, K
  <2>6. QED
    BY <2>2, <2>4, <2>5
<1>8. ASSUME NEW id \in Id, NEW at \in Time, MySQL!UpdateTimer(c, id, at)
      PROVE  MySQLInv' /\ StepHolds
  <2> DEFINE r == [at |-> at, id |-> id]
  <2>1. MySQL!Running(c, {"UpdateTimer"})
    BY <1>8 DEF MySQL!UpdateTimer
  <2>2. CASE RowsOf(rows, id) # {} /\ MySQL!Ends(c, id, {r}, Moves(r))
    <3>1. r.id = id /\ Moves(r) \in SUBSET K /\ {r} \in SUBSET K
      BY <1>1 DEF K, Key, Moves
    <3> HIDE DEF r
    <3>2. \A ver : Right("UpdateTimer", ver, id, {r}, Moves(r), "ok")
      BY <1>1, <2>2, <3>1, MovesKeeps, MoveIsRight DEF Updates
    <3>3. QED
      BY <2>1, <2>2, <3>1, <3>2, MovesAreWhole, MySQLEndsStep DEF K
  <2>3. CASE RowsOf(rows, id) = {} /\ MySQL!Closes(c, id, {}, rows, "NotExists")
    <3>1. \A ver : Right("UpdateTimer", ver, id, {}, rows, "NotExists")
      BY <1>1, <2>3, NotExistsIsRight
    <3>2. QED
      BY <1>1, <2>1, <2>3, <3>1, MySQLClosesStep DEF Answers, K
  <2>4. QED
    BY <1>8, <2>2, <2>3
    DEF MySQL!UpdateTimer, MySQL!Matches, MySQL!Moved, MySQL!RowsOf, RowsOf, Moves
<1>9. ASSUME NEW id \in Id, MySQL!DeleteTimer(c, id)
      PROVE  MySQLInv' /\ StepHolds
  <2> DEFINE after == rows \ RowsOf(rows, id)
  <2>1. MySQL!Running(c, {"DeleteTimer"}) /\ MySQL!Ends(c, id, {}, after)
    BY <1>9 DEF MySQL!DeleteTimer, MySQL!RowsOf, RowsOf
  <2>2. after \in SUBSET rows /\ RowsOf(after, id) = {}
    BY DEF RowsOf
  <2> HIDE DEF after
  <2>3. \A ver : Right("DeleteTimer", ver, id, {}, after, "ok")
    BY <1>1, <2>2, DeletionIsRight DEF Deletes
  <2>4. after \in SUBSET Key(Time, Id) /\ Whole({}, after)
    BY <1>1, <2>2 DEF K, Whole
  <2>5. QED
    BY <2>1, <2>3, <2>4, MySQLEndsStep
<1>10. ASSUME MySQL!Abort(c)
       PROVE  MySQLInv' /\ StepHolds
  <2>1. PICK id \in Id : MySQL!Closes(c, id, {}, rows, "error")
    BY <1>10 DEF MySQL!Abort
  <2>2. MySQL!Running(c, {open[c].op})
    BY <1>10 DEF MySQL!Abort, MySQL!Running
  <2>3. \A ver : Right(open[c].op, ver, id, {}, rows, "error")
    BY <1>1, RefusalIsRight
  <2>4. QED
    BY <1>1, <2>1, <2>2, <2>3, MySQLClosesStep DEF Answers, K
<1>11. QED
  BY <1>5, <1>6, <1>7, <1>8, <1>9, <1>10 DEF MySQL!Transaction

(* A call that is one statement.                                           *)
LEMMA MySQLStatementStep ==
  ASSUME MySQLInv, IsFiniteSet(rows), db = "mysql", db' = db, MySQL!OneStatement
  PROVE  MySQLInv' /\ StepHolds
<1> DEFINE K == Key(Time, Id)
<1>1. OneEach(rows) /\ rows \in SUBSET K
  BY DEF MySQLInv, StoreInv, Typed
<1>2. MySQL!Timer = K
  BY DEF MySQL!Timer, MySQL!Key, Key
<1> HIDE DEF K
<1>3. /\ \A S, id : MySQL!RowsOf(S, id) = RowsOf(S, id)
      /\ MySQL!NoLock = 0 /\ 0 \in 0 .. MaxVersion
  BY VersionAssumption DEF MySQL!RowsOf, RowsOf, MySQL!NoLock
<1>4. ASSUME NEW op \in Ops, NEW id \in Id, NEW put \in SUBSET K, NEW after \in SUBSET K,
             NEW res \in Answers,
             Right(op, 0, id, put, after, res), MySQL!AtOnce(op, 0, id, put, after, res)
      PROVE  MySQLInv' /\ StepHolds
  BY <1>3, <1>4, MySQLAtOnceStep DEF K
<1>5. ASSUME NEW op \in Ops, NEW id \in Id, NEW put \in SUBSET K, NEW after \in SUBSET K,
             Right(op, 0, id, put, after, "ok"),
             Whole(put, after) \/ op = "RangeDeleteWithLimit",
             MySQL!Writes(op, 0, id, put, after)
      PROVE  MySQLInv' /\ StepHolds
  <2>1. PICK res \in {"ok", "error"} : MySQL!AtOnce(op, 0, id, put, after, res)
    BY <1>5 DEF MySQL!Writes, MySQL!Outcome
  <2>2. Right(op, 0, id, put, after, res)
    BY <1>5, LostAnswerIsRight
  <2>3. QED
    BY <1>4, <2>1, <2>2 DEF Answers
<1>6. ASSUME NEW r \in MySQL!Timer, MySQL!CreateTimerNoLock(r)
      PROVE  MySQLInv' /\ StepHolds
  <2>1. r.id \in Id /\ Moves(r) \in SUBSET K
    BY <1>1, <1>2 DEF K, Key, Moves
  <2>2. MySQL!Writes("CreateTimerNoLock", 0, r.id, {r}, Moves(r))
    BY <1>3, <1>6 DEF MySQL!CreateTimerNoLock, MySQL!Upsert, Moves
  <2>3. Right("CreateTimerNoLock", 0, r.id, {r}, Moves(r), "ok")
    BY <1>1, MovesKeeps, OtherIsRight DEF Ops, Updates, Deletes
  <2>4. QED
    BY <1>2, <1>5, <2>1, <2>2, <2>3, MovesAreWhole DEF Ops
<1>7. ASSUME NEW k \in MySQL!Ranges, NEW limit \in Limit,
             MySQL!RangeDeleteWithLimit(k[1], k[2], limit)
      PROVE  MySQLInv' /\ StepHolds
  <2>1. k[2].id \in Id
    BY <1>2 DEF MySQL!Ranges, K, Key
  <2>2. PICK gone : MySQL!Writes("RangeDeleteWithLimit", 0, k[2].id, {}, rows \ gone)
    BY <1>3, <1>7 DEF MySQL!RangeDeleteWithLimit
  <2>3. Right("RangeDeleteWithLimit", 0, k[2].id, {}, rows \ gone, "ok")
    BY <1>1, FewerKeep, OtherIsRight DEF Ops, Updates, Deletes
  <2>4. QED
    BY <1>1, <1>5, <2>1, <2>2, <2>3 DEF Ops
<1>8. ASSUME NEW id \in Id, NEW at \in Time, MySQL!UpdateTimerNoLock(id, at)
      PROVE  MySQLInv' /\ StepHolds
  <2> DEFINE r == [at |-> at, id |-> id]
  <2>1. r.id = id /\ Moves(r) \in SUBSET K
    BY <1>1 DEF K, Key, Moves
  <2>2. \/ RowsOf(rows, id) # {} /\ MySQL!Writes("UpdateTimerNoLock", 0, id, {r}, Moves(r))
        \/ RowsOf(rows, id) = {} /\ MySQL!AtOnce("UpdateTimerNoLock", 0, id, {}, rows, "NotExists")
    BY <1>3, <1>8 DEF MySQL!UpdateTimerNoLock, MySQL!Matches, MySQL!Moved, Moves
  <2>3. {r} \in SUBSET K
    BY DEF K, Key
  <2> HIDE DEF r
  <2>4. RowsOf(rows, id) # {} => Right("UpdateTimerNoLock", 0, id, {r}, Moves(r), "ok")
    BY <1>1, <2>1, MovesKeeps, MoveIsRight DEF Updates
  <2>5. RowsOf(rows, id) = {} => Right("UpdateTimerNoLock", 0, id, {}, rows, "NotExists")
    BY <1>1, NotExistsIsRight
  <2>6. QED
    BY <1>1, <1>4, <1>5, <2>1, MovesAreWhole, <2>2, <2>4, <2>5, <2>3 DEF Ops, Answers
<1>9. ASSUME NEW id \in Id, MySQL!DeleteTimerNoLock(id)
      PROVE  MySQLInv' /\ StepHolds
  <2> DEFINE after == rows \ RowsOf(rows, id)
  <2>1. \/ MySQL!Writes("DeleteTimerNoLock", 0, id, {}, after)
        \/ RowsOf(rows, id) = {} /\ MySQL!AtOnce("DeleteTimerNoLock", 0, id, {}, rows, "NotExists")
    BY <1>3, <1>9 DEF MySQL!DeleteTimerNoLock
  <2>2. after \in SUBSET rows /\ RowsOf(after, id) = {}
    BY DEF RowsOf
  <2> HIDE DEF after
  <2>3. Right("DeleteTimerNoLock", 0, id, {}, after, "ok")
    BY <1>1, <2>2, DeletionIsRight DEF Deletes
  <2>4. RowsOf(rows, id) = {} => Right("DeleteTimerNoLock", 0, id, {}, rows, "NotExists")
    BY <1>1, NotExistsIsRight
  <2>5. after \in SUBSET K /\ Whole({}, after)
    BY <1>1, <2>2 DEF Whole
  <2>6. QED
    BY <1>1, <1>4, <1>5, <2>1, <2>3, <2>4, <2>5 DEF Ops, Answers
<1>10. QED
  BY <1>6, <1>7, <1>8, <1>9 DEF MySQL!OneStatement

(* Every step of the MySQL store.                                          *)
LEMMA MySQLStep ==
  ASSUME MySQLInv, IsFiniteSet(rows), db = "mysql", db' = db, MySQL!Next
  PROVE  MySQLInv' /\ StepHolds
<1>1. ASSUME MySQL!ClaimShard PROVE Store!ClaimShard
  BY <1>1 DEF Store!ClaimShard, MySQL!ClaimShard
<1>2. CASE MySQL!Fails
  <2>1. PICK op \in Ops, ver \in 0 .. MaxVersion, id \in Id :
          MySQL!AtOnce(op, ver, id, {}, rows, "error")
    BY <1>2, VersionAssumption
    DEF MySQL!Fails, MySQL!Operation, MySQL!CreateOp, MySQL!UpdateOp, MySQL!DeleteOp,
        MySQL!RangeOp, MySQL!Version, MySQL!NoLock, Ops
  <2>2. Store!AtOnce(op, ver, id, {}, rows, "error")
    BY <2>1 DEF Store!AtOnce, MySQL!AtOnce, Store!Return, MySQL!Return
  <2>3. QED
    BY <2>2, FailsStep DEF MySQLInv
<1>3. QED
  BY <1>1, <1>2, ClaimStep, MySQLStatementStep, MySQLTransactionStep DEF MySQL!Next, MySQLInv
-----------------------------------------------------------------------------
(* PostgreSQL.                                                             *)
PostgresInv == StoreInv(Time, Id, Client, Postgres!Call)

(* A transaction or an update that goes on, and its version.               *)
LEMMA PostgresCalls ==
  ASSUME PostgresInv, NEW c \in Client, NEW op, Postgres!Running(c, {op})
  PROVE  /\ open[c] # Idle /\ open[c].op = op
         /\ op \in Ops /\ open[c].ver \in 0 .. MaxVersion
<1>1. open[c] # Idle /\ open[c].op = op
  BY DEF Postgres!Running
<1>2. open[c] \in Postgres!Call
  BY <1>1 DEF PostgresInv, StoreInv, Typed
<1>3. QED
  BY <1>1, <1>2, VersionAssumption
  DEF Postgres!Call, Postgres!WriteOp, Postgres!TxnOp, Postgres!DeleteOp, Postgres!UpdateOp,
      Postgres!Version, Postgres!NoLock, Ops

(* The last statement of a transaction.                                    *)
LEMMA PostgresClosesStep ==
  ASSUME PostgresInv, IsFiniteSet(rows), db = "postgres", db' = db,
         NEW c \in Client, NEW op, Postgres!Running(c, {op}),
         NEW id \in Id, NEW put \in SUBSET Key(Time, Id),
         NEW after \in SUBSET Key(Time, Id), NEW res \in Answers,
         \A ver : Right(op, ver, id, put, after, res), Postgres!Closes(c, id, put, after, res)
  PROVE  PostgresInv' /\ StepHolds
<1>1. Store!Closes(c, id, put, after, res)
  BY DEF Store!Closes, Postgres!Closes, Store!Return, Postgres!Return
<1>2. open[c] # Idle /\ open[c].op = op /\ op \in Ops /\ open[c].ver \in 0 .. MaxVersion
  BY PostgresCalls
<1>3. QED
  BY <1>1, <1>2, ClosesStep DEF PostgresInv

(* ... that writes: the answer may be lost.                                *)
LEMMA PostgresEndsStep ==
  ASSUME PostgresInv, IsFiniteSet(rows), db = "postgres", db' = db,
         NEW c \in Client, NEW op, Postgres!Running(c, {op}),
         NEW id \in Id, NEW put \in SUBSET Key(Time, Id), NEW after \in SUBSET Key(Time, Id),
         \A ver : Right(op, ver, id, put, after, "ok"), Whole(put, after),
         Postgres!Ends(c, id, put, after)
  PROVE  PostgresInv' /\ StepHolds
<1>1. PICK res \in {"ok", "error"} : Postgres!Closes(c, id, put, after, res)
  BY DEF Postgres!Ends, Postgres!Outcome
<1>2. \A ver : Right(op, ver, id, put, after, res)
  BY LostAnswerIsRight
<1>3. QED
  BY <1>1, <1>2, PostgresClosesStep DEF Answers

(* What one statement writes is written to the right rows.                 *)
LEMMA PostgresAtOnceStep ==
  ASSUME PostgresInv, IsFiniteSet(rows), db = "postgres", db' = db,
         NEW op \in Ops, NEW ver \in 0 .. MaxVersion, NEW id \in Id,
         NEW put \in SUBSET Key(Time, Id), NEW after \in SUBSET Key(Time, Id), NEW res \in Answers,
         Right(op, ver, id, put, after, res), Postgres!AtOnce(op, ver, id, put, after, res)
  PROVE  PostgresInv' /\ StepHolds
<1>1. Store!AtOnce(op, ver, id, put, after, res)
  BY DEF Store!AtOnce, Postgres!AtOnce, Store!Return, Postgres!Return
<1>2. QED
  BY <1>1, AtOnceStep DEF PostgresInv

(* A statement that starts does so within its call.                        *)
LEMMA PostgresLooks ==
  ASSUME PostgresInv, NEW q \in Postgres!Call
  PROVE  /\ Postgres!Looking(q) \in Postgres!Call
         /\ Postgres!Looking(q).op = q.op /\ Postgres!Looking(q).ver = q.ver
<1> DEFINE V == Postgres!Version \cup {Postgres!NoLock}
           P == SUBSET Postgres!Timer
           s == Postgres!Sight(q)
<1>1. s \in P
  BY DEF PostgresInv, StoreInv, Typed, Postgres!Sight, Postgres!RowsOf, Postgres!Timer,
         Postgres!Key, Key
<1> HIDE DEF V, P, s
<1>2. CASE q \in [op : Postgres!WriteOp, ver : V, sees : P]
  <2>1. [q EXCEPT !.sees = s] \in [op : Postgres!WriteOp, ver : V, sees : P]
    BY <1>1, <1>2
  <2>2. QED
    BY <1>2, <2>1 DEF Postgres!Looking, Postgres!Call, s, V, P
<1>3. CASE q \in [op : Postgres!UpdateOp, ver : V, found : Postgres!Timer, at : Time, sees : P]
  <2>1. [q EXCEPT !.sees = s]
          \in [op : Postgres!UpdateOp, ver : V, found : Postgres!Timer, at : Time, sees : P]
    BY <1>1, <1>3
  <2>2. QED
    BY <1>3, <2>1 DEF Postgres!Looking, Postgres!Call, s, V, P
<1>4. QED
  BY <1>2, <1>3 DEF Postgres!Call, V, P

(* A statement that loses sight of a row is still that of its call.        *)
LEMMA PostgresWithout ==
  ASSUME PostgresInv, NEW gone, NEW d \in Client, open[d] # Idle
  PROVE  /\ Postgres!Without(gone)[d] \in Postgres!Call
         /\ Postgres!Without(gone)[d].op = open[d].op /\ Postgres!Without(gone)[d].ver = open[d].ver
<1> DEFINE V == Postgres!Version \cup {Postgres!NoLock}
           P == SUBSET Postgres!Timer
           q == open[d]
           s == {r \in q.sees : Postgres!RowsOf(gone, r.id) = {}}
<1>1. q \in Postgres!Call
  BY DEF PostgresInv, StoreInv, Typed
<1>2. q.sees \in P
  BY <1>1 DEF Postgres!Call
<1>3. s \in P
  BY <1>2
<1>4. Postgres!Without(gone)[d] = [q EXCEPT !.sees = s]
  BY DEF Postgres!Without
<1> HIDE DEF V, P, q, s
<1>5. CASE q \in [op : Postgres!WriteOp, ver : V, sees : P]
  <2>1. [q EXCEPT !.sees = s] \in [op : Postgres!WriteOp, ver : V, sees : P]
    BY <1>3, <1>5
  <2>2. QED
    BY <1>4, <1>5, <2>1 DEF Postgres!Call, q, V, P
<1>6. CASE q \in [op : Postgres!UpdateOp, ver : V, found : Postgres!Timer, at : Time, sees : P]
  <2>1. [q EXCEPT !.sees = s]
          \in [op : Postgres!UpdateOp, ver : V, found : Postgres!Timer, at : Time, sees : P]
    BY <1>3, <1>6
  <2>2. QED
    BY <1>4, <1>6, <2>1 DEF Postgres!Call, q, V, P
<1>7. QED
  BY <1>1, <1>5, <1>6 DEF Postgres!Call, V, P

(* The calls that go on after rows were deleted.                           *)
LEMMA PostgresGoesOn ==
  ASSUME PostgresInv, NEW gone
  PROVE  /\ Postgres!Without(gone) \in [Client -> Postgres!Call \cup {Idle}]
         /\ \A d \in Client :
              Postgres!Without(gone)[d] # Idle /\ Postgres!Without(gone)[d].op \in Unversioned
              => Postgres!Without(gone)[d].ver = 0
<1> DEFINE W == Postgres!Without(gone)
<1>1. \A d \in Client : open[d] = Idle => W[d] = Idle
  BY DEF Postgres!Without
<1>2. W = [d \in Client |-> W[d]]
  BY DEF Postgres!Without
<1>3. \A d \in Client : open[d] # Idle /\ open[d].op \in Unversioned => open[d].ver = 0
  BY DEF PostgresInv, StoreInv, Typed, CallsHold
<1> HIDE DEF W
<1>4. \A d \in Client : open[d] # Idle =>
        W[d] \in Postgres!Call /\ W[d].op = open[d].op /\ W[d].ver = open[d].ver
  BY PostgresWithout DEF W
<1>5. \A d \in Client : W[d] \in Postgres!Call \cup {Idle}
  BY <1>1, <1>4
<1>6. W \in [Client -> Postgres!Call \cup {Idle}]
  BY <1>2, <1>5
<1>7. \A d \in Client : W[d] # Idle /\ W[d].op \in Unversioned => W[d].ver = 0
  BY <1>1, <1>3, <1>4
<1>8. QED
  BY <1>6, <1>7 DEF W

(* The last statement of a call that deletes and inserts.                  *)
LEMMA PostgresReplacesStep ==
  ASSUME PostgresInv, IsFiniteSet(rows), db = "postgres", db' = db,
         NEW c \in Client, NEW op, Postgres!Running(c, {op}),
         NEW id \in Id, NEW gone, NEW new \in SUBSET Key(Time, Id),
         \A ver : Right(op, ver, id, new, (rows \ gone) \cup new, "ok"),
         Postgres!Replaces(c, id, gone, new)
  PROVE  PostgresInv' /\ StepHolds
<1> DEFINE after == (rows \ gone) \cup new
           W == Postgres!Without(gone)
<1>1. open[c] # Idle /\ open[c].op = op /\ op \in Ops /\ open[c].ver \in 0 .. MaxVersion
  BY PostgresCalls
<1>2. PICK res \in {"ok", "error"} :
        /\ rows' = after /\ open' = [W EXCEPT ![c] = Idle]
        /\ last' = [op |-> op, ver |-> open[c].ver, id |-> id, put |-> new, res |-> res]
        /\ UNCHANGED <<again, db, version, claimed>>
  BY <1>1 DEF Postgres!Replaces, Postgres!Outcome, Postgres!Return
<1>3. Whole(new, after)
  BY DEF Whole
<1>4. after \in SUBSET Key(Time, Id)
  BY DEF PostgresInv, StoreInv, Typed
<1>5. /\ W \in [Client -> Postgres!Call \cup {Idle}]
      /\ \A d \in Client : W[d] # Idle /\ W[d].op \in Unversioned => W[d].ver = 0
  BY PostgresGoesOn
<1>6. \A ver : Right(op, ver, id, new, after, "ok")
  OBVIOUS
<1> HIDE DEF W, after
<1>7. open' \in [Client -> Postgres!Call \cup {Idle}] /\ CallsHold'
  BY <1>2, <1>5 DEF CallsHold
<1>8. Right(op, open[c].ver, id, new, after, res) /\ res \in Answers
  BY <1>3, <1>6, LostAnswerIsRight DEF Answers
<1>9. version' \in 1 .. MaxVersion /\ claimed' \in 1 .. version'
  BY <1>2 DEF PostgresInv, StoreInv, Typed
<1>10. QED
  BY <1>1, <1>2, <1>4, <1>7, <1>8, <1>9, EndStep DEF PostgresInv

(* The steps of a call that is several statements.                         *)
LEMMA PostgresTransactionStep ==
  ASSUME PostgresInv, IsFiniteSet(rows), db = "postgres", db' = db,
         NEW c \in Client, Postgres!Transaction(c)
  PROVE  PostgresInv' /\ StepHolds
<1> DEFINE K == Key(Time, Id)
<1>1. OneEach(rows) /\ rows \in SUBSET K
  BY DEF PostgresInv, StoreInv, Typed
<1>2. IsFiniteSet(K)
  BY KeysFinite, FiniteAssumption
<1>3. Postgres!Timer = K
  BY DEF Postgres!Timer, Postgres!Key, Key
<1> HIDE DEF K
<1>4. Postgres!Held \subseteq 1 .. MaxVersion
  BY VersionAssumption DEF Postgres!Held, PostgresInv, StoreInv, Typed
<1>5. ASSUME NEW q \in Postgres!Call, q.op \in Unversioned => q.ver = 0,
             UNCHANGED <<version, claimed, rows, last, again>>,
             open' = [open EXCEPT ![c] = Postgres!Looking(q)]
      PROVE  PostgresInv' /\ StepHolds
  <2> DEFINE call == Postgres!Looking(q)
  <2>1. call \in Postgres!Call /\ (call.op \in Unversioned => call.ver = 0)
    BY <1>5, PostgresLooks
  <2>2. UNCHANGED <<version, claimed, rows, last, again, db>> /\ open' = [open EXCEPT ![c] = call]
    BY <1>5
  <2> HIDE DEF call
  <2>3. QED
    BY <2>1, <2>2, OpensStep DEF PostgresInv
<1>6. ASSUME NEW op \in Postgres!TxnOp, NEW ver \in Postgres!Held,
             Postgres!Begin(c, Postgres!Looking([op |-> op, ver |-> ver, sees |-> {}]))
      PROVE  PostgresInv' /\ StepHolds
  <2> DEFINE q == [op |-> op, ver |-> ver, sees |-> {}]
  <2>1. q \in Postgres!Call /\ op \in Ops /\ ver \in 0 .. MaxVersion
    BY <1>4, VersionAssumption
    DEF Postgres!Call, Postgres!Version, Postgres!WriteOp, Postgres!TxnOp, Ops
  <2>2. q.op \in Unversioned => q.ver = 0
    BY DEF Postgres!TxnOp, Unversioned
  <2>3. q.op = op /\ q.ver = ver
    OBVIOUS
  <2> HIDE DEF q
  <2>4. Postgres!Looking(q).op = op /\ Postgres!Looking(q).ver = ver
    BY <2>1, <2>3, PostgresLooks
  <2>5. CASE Postgres!Opens(c, Postgres!Looking(q))
    BY <1>5, <2>1, <2>2, <2>5 DEF Postgres!Opens
  <2>6. ASSUME NEW id \in Id, Postgres!AtOnce(op, ver, id, {}, rows, "ShardConditionFail")
        PROVE  PostgresInv' /\ StepHolds
    <3>1. Right(op, ver, id, {}, rows, "ShardConditionFail")
      BY <1>1, RefusalIsRight
    <3>2. QED
      BY <1>1, <2>1, <2>6, <3>1, PostgresAtOnceStep DEF Answers, K
  <2>7. QED
    BY <1>6, <2>4, <2>5, <2>6 DEF Postgres!Begin, q
<1>7. ASSUME NEW r \in Postgres!Timer, Postgres!CreateTimer(c, r)
      PROVE  PostgresInv' /\ StepHolds
  <2>1. r.id \in Id /\ Moves(r) \in SUBSET K
    BY <1>1, <1>3 DEF K, Key, Moves
  <2>2. Postgres!Running(c, {"CreateTimer"}) /\ Postgres!Ends(c, r.id, {r}, Moves(r))
    BY <1>7 DEF Postgres!CreateTimer, Postgres!Upsert, Postgres!RowsOf, RowsOf, Moves
  <2>3. \A ver : Right("CreateTimer", ver, r.id, {r}, Moves(r), "ok")
    BY <1>1, MovesKeeps, OtherIsRight DEF Ops, Updates, Deletes
  <2>4. QED
    BY <1>3, <2>1, <2>2, <2>3, MovesAreWhole, PostgresEndsStep DEF K
<1>8. ASSUME NEW k \in Postgres!Ranges, NEW new \in Postgres!Inserts,
             Postgres!RangeDeleteWithBatchInsertTxn(c, k[1], k[2], new)
      PROVE  PostgresInv' /\ StepHolds
  <2> DEFINE op == "RangeDeleteWithBatchInsertTxn"
  <2>1. k[2].id \in Id /\ new \in SUBSET K
    BY <1>3 DEF Postgres!Ranges, Postgres!Inserts, K, Key
  <2>2. /\ Postgres!Running(c, {op})
        /\ \/ \E gone : /\ ~Postgres!Duplicates(rows \ gone, new)
                        /\ Postgres!Replaces(c, k[2].id, gone, new)
           \/ Postgres!Closes(c, k[2].id, new, rows, "error")
    BY <1>8 DEF Postgres!RangeDeleteWithBatchInsertTxn
  <2>3. op \in Ops \ (Updates \cup Deletes)
    BY DEF Ops, Updates, Deletes
  <2> HIDE DEF op
  <2>4. ASSUME NEW gone, ~Postgres!Duplicates(rows \ gone, new),
               Postgres!Replaces(c, k[2].id, gone, new)
        PROVE  PostgresInv' /\ StepHolds
    <3> DEFINE rest == rows \ gone
    <3>1. IsFiniteSet(new) /\ rest \in SUBSET rows
      BY <1>2, <2>1, FS_Subset
    <3>2. \A r \in new : RowsOf(rest, r.id) = {} /\ ~(Cardinality(RowsOf(new, r.id)) > 1)
      BY <2>4, OneCardinality DEF Postgres!Duplicates, Postgres!RowsOf, RowsOf
    <3> HIDE DEF rest
    <3>3. OneEach(rest \cup new)
      BY <1>1, <3>1, <3>2, FewerKeep, InsertsKeep
    <3>4. \A ver : Right(op, ver, k[2].id, new, rest \cup new, "ok")
      BY <2>3, <3>3, OtherIsRight
    <3>5. QED
      BY <2>1, <2>2, <2>4, <3>4, PostgresReplacesStep DEF K, rest
  <2>5. CASE Postgres!Closes(c, k[2].id, new, rows, "error")
    <3>1. \A ver : Right(op, ver, k[2].id, new, rows, "error")
      BY <1>1, RefusalIsRight
    <3>2. QED
      BY <1>1, <2>1, <2>2, <2>5, <3>1, PostgresClosesStep DEF Answers, K
  <2>6. QED
    BY <2>2, <2>4, <2>5
<1>9. ASSUME NEW id \in Id, NEW at \in Time, Postgres!LookUp(c, id, at)
      PROVE  PostgresInv' /\ StepHolds
  <2>1. Postgres!Running(c, {"UpdateTimer"})
    BY <1>9 DEF Postgres!LookUp
  <2>2. ASSUME NEW r \in Postgres!RowsOf(rows, id),
               open' = [open EXCEPT ![c] =
                          Postgres!Looking([op |-> "UpdateTimer", ver |-> open[c].ver,
                                            found |-> r, at |-> at, sees |-> {}])],
               UNCHANGED <<version, claimed, rows, last, again>>
        PROVE  PostgresInv' /\ StepHolds
    <3> DEFINE q == [op |-> "UpdateTimer", ver |-> open[c].ver, found |-> r, at |-> at,
                     sees |-> {}]
    <3>1. q \in Postgres!Call
      <4>1. open[c].ver \in 0 .. MaxVersion
        BY <2>1, PostgresCalls
      <4>2. r \in Postgres!Timer
        BY <1>1, <1>3 DEF Postgres!RowsOf
      <4>3. QED
        BY <4>1, <4>2, VersionAssumption
        DEF Postgres!Call, Postgres!UpdateOp, Postgres!Version, Postgres!NoLock
    <3>2. q.op \in Unversioned => q.ver = 0
      BY DEF Unversioned
    <3> HIDE DEF q
    <3>3. QED
      BY <1>5, <2>2, <3>1, <3>2 DEF q
  <2>3. CASE RowsOf(rows, id) = {} /\ Postgres!Closes(c, id, {}, rows, "NotExists")
    <3>1. \A ver : Right("UpdateTimer", ver, id, {}, rows, "NotExists")
      BY <1>1, <2>3, NotExistsIsRight
    <3>2. QED
      BY <1>1, <2>1, <2>3, <3>1, PostgresClosesStep DEF Answers, K
  <2>4. QED
    BY <1>9, <2>2, <2>3 DEF Postgres!LookUp, Postgres!RowsOf, RowsOf
<1>10. ASSUME NEW id \in Id, NEW at \in Time, Postgres!LookUpNoLock(c, id, at)
       PROVE  PostgresInv' /\ StepHolds
  <2>1. ASSUME NEW r \in Postgres!RowsOf(rows, id),
               Postgres!Opens(c, Postgres!Looking([op |-> "UpdateTimerNoLock",
                                                   ver |-> Postgres!NoLock, found |-> r,
                                                   at |-> at, sees |-> {}]))
        PROVE  PostgresInv' /\ StepHolds
    <3> DEFINE q == [op |-> "UpdateTimerNoLock", ver |-> Postgres!NoLock, found |-> r, at |-> at,
                     sees |-> {}]
    <3>1. q \in Postgres!Call
      <4>1. r \in Postgres!Timer
        BY <1>1, <1>3 DEF Postgres!RowsOf
      <4>2. QED
        BY <4>1 DEF Postgres!Call, Postgres!UpdateOp, Postgres!NoLock
    <3>2. q.op \in Unversioned => q.ver = 0
      BY DEF Postgres!NoLock
    <3> HIDE DEF q
    <3>3. QED
      BY <1>5, <2>1, <3>1, <3>2 DEF Postgres!Opens, q
  <2>2. CASE RowsOf(rows, id) = {} /\ Postgres!AtOnce("UpdateTimerNoLock", 0, id, {}, rows, "NotExists")
    <3>1. Right("UpdateTimerNoLock", 0, id, {}, rows, "NotExists")
      BY <1>1, <2>2, NotExistsIsRight
    <3>2. QED
      BY <1>1, <2>2, <3>1, PostgresAtOnceStep, VersionAssumption DEF Answers, Ops, K
  <2>3. QED
    BY <1>10, <2>1, <2>2 DEF Postgres!LookUpNoLock, Postgres!RowsOf, RowsOf, Postgres!NoLock
<1>11. ASSUME Postgres!Update(c)
       PROVE  PostgresInv' /\ StepHolds
  <2> DEFINE q == open[c]
             new == [at |-> q.at, id |-> q.found.id]
             gone == {q.found} \cap rows \cap q.sees
             rest == rows \ gone
  <2>1. q \in Postgres!Call /\ "found" \in DOMAIN q
    BY <1>11 DEF Postgres!Update, Postgres!Running, PostgresInv, StoreInv, Typed
  <2>2. q \in [op : Postgres!UpdateOp, ver : Postgres!Version \cup {Postgres!NoLock},
               found : Postgres!Timer, at : Time, sees : SUBSET Postgres!Timer]
    BY <2>1 DEF Postgres!Call
  <2>3. q.op \in Updates /\ Postgres!Running(c, {q.op})
    BY <1>11 DEF Postgres!Update, Postgres!Running, Postgres!UpdateOp, Updates
  <2>4. new \in K /\ new.id = q.found.id /\ [q.found EXCEPT !.at = q.at] = new
    BY <1>3, <2>2 DEF K, Key
  <2>5. new.id \in Id /\ {new} \in SUBSET K
    BY <2>4 DEF K, Key
  <2>6. \/ ~Postgres!Duplicates(rest, {new}) /\ Postgres!Replaces(c, new.id, gone, {new})
        \/ Postgres!Closes(c, new.id, {new}, rows, "error")
        \/ RowsOf(rows, new.id) # {} /\ Postgres!Ends(c, new.id, {}, rows)
        \/ Postgres!Closes(c, new.id, {}, rows, "NotExists")
    BY <1>11, <2>4
    DEF Postgres!Update, Postgres!Stored, Postgres!Seen, Postgres!RowsOf, RowsOf
  <2> HIDE DEF q, new
  <2>7. CASE ~Postgres!Duplicates(rest, {new}) /\ Postgres!Replaces(c, new.id, gone, {new})
    <3>1. RowsOf(rest, new.id) = {}
      BY <2>7 DEF Postgres!Duplicates, Postgres!RowsOf, RowsOf
    <3>2. OneEach(rest \cup {new}) /\ RowsOf(rest \cup {new}, new.id) # {}
      BY <1>1, <3>1 DEF OneEach, RowsOf
    <3> HIDE DEF rest, gone
    <3>3. \A ver : Right(q.op, ver, new.id, {new}, rest \cup {new}, "ok")
      BY <2>3, <3>2, MoveIsRight
    <3>4. QED
      BY <2>3, <2>5, <2>7, <3>3, PostgresReplacesStep DEF K, rest
  <2>8. CASE Postgres!Closes(c, new.id, {new}, rows, "error")
    <3>1. \A ver : Right(q.op, ver, new.id, {new}, rows, "error")
      BY <1>1, RefusalIsRight
    <3>2. QED
      BY <1>1, <2>3, <2>5, <2>8, <3>1, PostgresClosesStep DEF Answers, K
  <2>9. CASE RowsOf(rows, new.id) # {} /\ Postgres!Ends(c, new.id, {}, rows)
    <3>1. \A ver : Right(q.op, ver, new.id, {}, rows, "ok")
      BY <1>1, <2>3, <2>9, MoveIsRight
    <3>2. Whole({}, rows)
      BY DEF Whole
    <3>3. QED
      BY <1>1, <2>3, <2>5, <2>9, <3>1, <3>2, PostgresEndsStep DEF K
  <2>10. CASE Postgres!Closes(c, new.id, {}, rows, "NotExists")
    <3>1. \A ver : Right(q.op, ver, new.id, {}, rows, "NotExists")
      BY <1>1, NotExistsIsRight
    <3>2. QED
      BY <1>1, <2>3, <2>5, <2>10, <3>1, PostgresClosesStep DEF Answers, K
  <2>11. QED
    BY <2>6, <2>7, <2>8, <2>9, <2>10
<1>12. ASSUME NEW id \in Id, Postgres!DeleteTimer(c, id)
       PROVE  PostgresInv' /\ StepHolds
  <2> DEFINE op == open[c].op
             found == Postgres!Seen(c, RowsOf(rows, id))
             after == (rows \ found) \cup {}
  <2>1. op \in Deletes /\ Postgres!Running(c, {op})
    BY <1>12 DEF Postgres!DeleteTimer, Postgres!Running, Postgres!DeleteOp, Deletes
  <2>2. \/ found # {} /\ Postgres!Replaces(c, id, found, {})
        \/ Postgres!Closes(c, id, {}, rows, "NotExists")
    BY <1>12 DEF Postgres!DeleteTimer, Postgres!RowsOf, RowsOf
  <2>3. found \in SUBSET RowsOf(rows, id)
    BY DEF Postgres!Seen
  <2> HIDE DEF op, found
  <2>4. CASE found # {} /\ Postgres!Replaces(c, id, found, {})
    <3>1. after \in SUBSET rows /\ (RowsOf(after, id) = {} \/ id \in again)
      BY <1>1, <2>3, <2>4 DEF OneEach, RowsOf
    <3> HIDE DEF after
    <3>2. \A ver : Right(op, ver, id, {}, after, "ok")
      BY <1>1, <2>1, <3>1, DeletionIsRight
    <3>3. QED
      BY <2>1, <2>4, <3>2, PostgresReplacesStep DEF after
  <2>5. CASE Postgres!Closes(c, id, {}, rows, "NotExists")
    <3>1. \A ver : Right(op, ver, id, {}, rows, "NotExists")
      BY <1>1, NotExistsIsRight
    <3>2. QED
      BY <1>1, <2>1, <2>5, <3>1, PostgresClosesStep DEF Answers, K
  <2>6. QED
    BY <2>2, <2>4, <2>5
<1>13. ASSUME Postgres!Abort(c)
       PROVE  PostgresInv' /\ StepHolds
  <2>1. PICK id \in Id : Postgres!Closes(c, id, {}, rows, "error")
    BY <1>13 DEF Postgres!Abort
  <2>2. Postgres!Running(c, {open[c].op})
    BY <1>13 DEF Postgres!Abort, Postgres!Running
  <2>3. \A ver : Right(open[c].op, ver, id, {}, rows, "error")
    BY <1>1, RefusalIsRight
  <2>4. QED
    BY <1>1, <2>1, <2>2, <2>3, PostgresClosesStep DEF Answers, K
<1>14. CASE Postgres!Opens(c, Postgres!Looking([op |-> "DeleteTimerNoLock",
                                                ver |-> Postgres!NoLock, sees |-> {}]))
  <2> DEFINE q == [op |-> "DeleteTimerNoLock", ver |-> Postgres!NoLock, sees |-> {}]
  <2>1. q \in Postgres!Call /\ q.ver = 0
    BY DEF Postgres!Call, Postgres!WriteOp, Postgres!NoLock
  <2> HIDE DEF q
  <2>2. QED
    BY <1>14, <1>5, <2>1 DEF Postgres!Opens, q
<1>15. CASE Postgres!Starts(c)
  <2>1. open[c] \in Postgres!Call /\ (open[c].op \in Unversioned => open[c].ver = 0)
    BY <1>15 DEF Postgres!Starts, PostgresInv, StoreInv, Typed, CallsHold
  <2>2. open' = [open EXCEPT ![c] = Postgres!Looking(open[c])]
    BY <1>15 DEF Postgres!Starts
  <2>3. UNCHANGED <<version, claimed, rows, last, again>>
    BY <1>15 DEF Postgres!Starts
  <2>4. QED
    BY <1>5, <2>1, <2>2, <2>3
<1>16. QED
  BY <1>6, <1>7, <1>8, <1>9, <1>10, <1>11, <1>12, <1>13, <1>14, <1>15 DEF Postgres!Transaction

(* A call that is one statement.                                           *)
LEMMA PostgresStatementStep ==
  ASSUME PostgresInv, IsFiniteSet(rows), db = "postgres", db' = db, Postgres!OneStatement
  PROVE  PostgresInv' /\ StepHolds
<1> DEFINE K == Key(Time, Id)
<1>1. OneEach(rows) /\ rows \in SUBSET K
  BY DEF PostgresInv, StoreInv, Typed
<1>2. Postgres!Timer = K
  BY DEF Postgres!Timer, Postgres!Key, Key
<1> HIDE DEF K
<1>3. /\ \A S, id : Postgres!RowsOf(S, id) = RowsOf(S, id)
      /\ Postgres!NoLock = 0 /\ 0 \in 0 .. MaxVersion
  BY VersionAssumption DEF Postgres!RowsOf, RowsOf, Postgres!NoLock
<1>4. ASSUME NEW r \in Postgres!Timer, Postgres!CreateTimerNoLock(r)
      PROVE  PostgresInv' /\ StepHolds
  <2>1. r.id \in Id /\ Moves(r) \in SUBSET K /\ {r} \in SUBSET K
    BY <1>1, <1>2 DEF K, Key, Moves
  <2>2. PICK res \in {"ok", "error"} :
          Postgres!AtOnce("CreateTimerNoLock", 0, r.id, {r}, Moves(r), res)
    BY <1>3, <1>4
    DEF Postgres!CreateTimerNoLock, Postgres!Writes, Postgres!Outcome, Postgres!Upsert, Moves
  <2>3. Right("CreateTimerNoLock", 0, r.id, {r}, Moves(r), "ok")
    BY <1>1, MovesKeeps, OtherIsRight DEF Ops, Updates, Deletes
  <2>4. Right("CreateTimerNoLock", 0, r.id, {r}, Moves(r), res)
    BY <2>3, MovesAreWhole, LostAnswerIsRight
  <2>5. QED
    BY <1>3, <2>1, <2>2, <2>4, PostgresAtOnceStep DEF Ops, Answers, K
<1>5. ASSUME NEW k \in Postgres!Ranges, NEW limit \in Limit,
             Postgres!RangeDeleteWithLimit(k[1], k[2], limit)
      PROVE  PostgresInv' /\ StepHolds
  <2> DEFINE op == "RangeDeleteWithLimit"
  <2>1. k[2].id \in Id /\ op \in Ops
    BY <1>2 DEF Postgres!Ranges, K, Key, Ops
  <2>2. PICK gone \in SUBSET rows, res \in {"ok", "error"} :
          /\ rows' = rows \ gone /\ open' = Postgres!Without(gone)
          /\ last' = [op |-> op, ver |-> 0, id |-> k[2].id, put |-> {}, res |-> res]
          /\ UNCHANGED <<version, claimed, again>>
    BY <1>3, <1>5
    DEF Postgres!RangeDeleteWithLimit, Postgres!Between, Postgres!Outcome, Postgres!Return
  <2>3. Right(op, 0, k[2].id, {}, rows \ gone, res) /\ res \in Answers
    BY <1>1, FewerKeep, OtherIsRight DEF Ops, Updates, Deletes, Answers
  <2>4. open' \in [Client -> Postgres!Call \cup {Idle}] /\ CallsHold'
    BY <2>2, PostgresGoesOn DEF CallsHold
  <2>5. version' \in 1 .. MaxVersion /\ claimed' \in 1 .. version'
    BY <2>2 DEF PostgresInv, StoreInv, Typed
  <2>6. rows \ gone \in SUBSET Key(Time, Id)
    BY <1>1 DEF K
  <2> HIDE DEF op
  <2>7. QED
    BY <1>3, <2>1, <2>2, <2>3, <2>4, <2>5, <2>6, EndStep DEF PostgresInv
<1>6. QED
  BY <1>4, <1>5 DEF Postgres!OneStatement

(* Every step of the PostgreSQL store.                                     *)
LEMMA PostgresStep ==
  ASSUME PostgresInv, IsFiniteSet(rows), db = "postgres", db' = db, Postgres!Next
  PROVE  PostgresInv' /\ StepHolds
<1>1. ASSUME Postgres!ClaimShard PROVE Store!ClaimShard
  BY <1>1 DEF Store!ClaimShard, Postgres!ClaimShard
<1>2. CASE Postgres!Fails
  <2>1. PICK op \in Ops, ver \in 0 .. MaxVersion, id \in Id :
          Postgres!AtOnce(op, ver, id, {}, rows, "error")
    BY <1>2, VersionAssumption
    DEF Postgres!Fails, Postgres!Operation, Postgres!CreateOp, Postgres!UpdateOp, Postgres!DeleteOp,
        Postgres!RangeOp, Postgres!Version, Postgres!NoLock, Ops
  <2>2. Store!AtOnce(op, ver, id, {}, rows, "error")
    BY <2>1 DEF Store!AtOnce, Postgres!AtOnce, Store!Return, Postgres!Return
  <2>3. QED
    BY <2>2, FailsStep DEF PostgresInv
<1>3. QED
  BY <1>1, <1>2, ClaimStep, PostgresStatementStep, PostgresTransactionStep DEF Postgres!Next, PostgresInv
-----------------------------------------------------------------------------
(* MongoDB.                                                                *)
MongoInv == StoreInv(Time, Id, Client, Mongo!Call)

(* A transaction that goes on, and its version.                            *)
LEMMA MongoCalls ==
  ASSUME MongoInv, NEW c \in Client, NEW op, Mongo!Running(c, {op})
  PROVE  /\ open[c] # Idle /\ open[c].op = op
         /\ op \in Ops /\ open[c].ver \in 0 .. MaxVersion
<1>1. open[c] # Idle /\ open[c].op = op
  BY DEF Mongo!Running
<1>2. open[c] \in Mongo!Call
  BY <1>1 DEF MongoInv, StoreInv, Typed
<1>3. QED
  BY <1>1, <1>2, VersionAssumption DEF Mongo!Call, Mongo!TxnOp, Mongo!Version, Ops

(* The last statement of a transaction.                                    *)
LEMMA MongoClosesStep ==
  ASSUME MongoInv, IsFiniteSet(rows), db = "mongo", db' = db,
         NEW c \in Client, NEW op, Mongo!Running(c, {op}),
         NEW id \in Id, NEW put \in SUBSET Key(Time, Id),
         NEW after \in SUBSET Key(Time, Id), NEW res \in Answers,
         \A ver : Right(op, ver, id, put, after, res), Mongo!Closes(c, id, put, after, res)
  PROVE  MongoInv' /\ StepHolds
<1>1. Store!Closes(c, id, put, after, res)
  BY DEF Store!Closes, Mongo!Closes, Store!Return, Mongo!Return
<1>2. open[c] # Idle /\ open[c].op = op /\ op \in Ops /\ open[c].ver \in 0 .. MaxVersion
  BY MongoCalls
<1>3. QED
  BY <1>1, <1>2, ClosesStep DEF MongoInv

(* ... that writes: the answer may be lost.                                *)
LEMMA MongoEndsStep ==
  ASSUME MongoInv, IsFiniteSet(rows), db = "mongo", db' = db,
         NEW c \in Client, NEW op, Mongo!Running(c, {op}),
         NEW id \in Id, NEW put \in SUBSET Key(Time, Id), NEW after \in SUBSET Key(Time, Id),
         \A ver : Right(op, ver, id, put, after, "ok"), Whole(put, after),
         Mongo!Ends(c, id, put, after)
  PROVE  MongoInv' /\ StepHolds
<1>1. PICK res \in {"ok", "error"} : Mongo!Closes(c, id, put, after, res)
  BY DEF Mongo!Ends, Mongo!Outcome
<1>2. \A ver : Right(op, ver, id, put, after, res)
  BY LostAnswerIsRight
<1>3. QED
  BY <1>1, <1>2, MongoClosesStep DEF Answers

(* What one request writes is written to the right rows.                   *)
LEMMA MongoAtOnceStep ==
  ASSUME MongoInv, IsFiniteSet(rows), db = "mongo", db' = db,
         NEW op \in Ops, NEW ver \in 0 .. MaxVersion, NEW id \in Id,
         NEW put \in SUBSET Key(Time, Id), NEW after \in SUBSET Key(Time, Id), NEW res \in Answers,
         Right(op, ver, id, put, after, res), Mongo!AtOnce(op, ver, id, put, after, res)
  PROVE  MongoInv' /\ StepHolds
<1>1. Store!AtOnce(op, ver, id, put, after, res)
  BY DEF Store!AtOnce, Mongo!AtOnce, Store!Return, Mongo!Return
<1>2. QED
  BY <1>1, AtOnceStep DEF MongoInv

(* A commit: nothing the transaction touches has changed, so that its      *)
(* inserts are not of timers that have a row by now.                       *)
LEMMA MongoCommitStep ==
  ASSUME MongoInv, IsFiniteSet(rows), db = "mongo", db' = db,
         NEW c \in Client, NEW op, Mongo!Running(c, {op}),
         NEW id \in Id, NEW gone, NEW new \in SUBSET Key(Time, Id),
         Mongo!Commit(c, id, gone, new),
         (Mongo!Unchanged(c, {r.id : r \in gone \cup new}) /\ OneEach(Mongo!Written(c, gone, new)))
         => \A ver : Right(op, ver, id, new, Mongo!Written(c, gone, new), "ok")
  PROVE  MongoInv' /\ StepHolds
<1> DEFINE ids == {r.id : r \in gone \cup new}
           after == (rows \ gone) \cup new
<1>1. OneEach(rows) /\ rows \in SUBSET Key(Time, Id)
  BY DEF MongoInv, StoreInv, Typed
<1>2. IsFiniteSet(new)
  BY KeysFinite, FiniteAssumption, FS_Subset
<1>3. Mongo!Written(c, gone, new) = after
  BY DEF Mongo!Written
<1>4. CASE /\ Mongo!Unchanged(c, ids) /\ ~Mongo!Duplicates(open[c].snapshot \ gone, new)
           /\ Mongo!Ends(c, id, new, after)
  <2>1. \A r \in new : /\ RowsOf(open[c].snapshot \ gone, r.id) = {}
                       /\ ~(Cardinality(RowsOf(new, r.id)) > 1)
    BY <1>4, OneCardinality DEF Mongo!Duplicates, Mongo!RowsOf, RowsOf
  <2>2. ASSUME NEW r \in new, NEW q \in rows \ gone, q.id = r.id
        PROVE  FALSE
    <3>1. r.id \in ids
      OBVIOUS
    <3> HIDE DEF ids
    <3>2. q \in {x \in rows : x.id \in ids}
      BY <2>2, <3>1
    <3>3. q \in open[c].snapshot
      BY <1>4, <3>2 DEF Mongo!Unchanged
    <3>4. QED
      BY <2>1, <2>2, <3>3 DEF RowsOf
  <2>3. \A r \in new : RowsOf(rows \ gone, r.id) = {}
    BY <2>2 DEF RowsOf
  <2>4. OneEach(rows \ gone)
    BY <1>1, FewerKeep
  <2>5. OneEach(after)
    BY <1>2, <2>1, <2>3, <2>4, InsertsKeep
  <2>6. \A ver : Right(op, ver, id, new, after, "ok")
    BY <1>3, <1>4, <2>5
  <2>7. after \in SUBSET Key(Time, Id) /\ Whole(new, after)
    BY <1>1 DEF Whole
  <2> HIDE DEF after
  <2>8. QED
    BY <1>4, <2>6, <2>7, MongoEndsStep
<1>5. CASE Mongo!Closes(c, id, new, rows, "error")
  <2>1. \A ver : Right(op, ver, id, new, rows, "error")
    BY <1>1, RefusalIsRight
  <2>2. QED
    BY <1>1, <1>5, <2>1, MongoClosesStep DEF Answers
<1>6. QED
  BY <1>3, <1>4, <1>5 DEF Mongo!Commit

(* The second half of a versioned call.                                    *)
LEMMA MongoTransactionStep ==
  ASSUME MongoInv, IsFiniteSet(rows), db = "mongo", db' = db,
         NEW c \in Client, Mongo!Transaction(c)
  PROVE  MongoInv' /\ StepHolds
<1> DEFINE K == Key(Time, Id)
<1>1. OneEach(rows) /\ rows \in SUBSET K
  BY DEF MongoInv, StoreInv, Typed
<1>2. IsFiniteSet(K)
  BY KeysFinite, FiniteAssumption
<1>3. Mongo!Timer = K
  BY DEF Mongo!Timer, Mongo!Key, Key
<1> HIDE DEF K
<1>4. Mongo!Held \subseteq 1 .. MaxVersion
  BY VersionAssumption DEF Mongo!Held, MongoInv, StoreInv, Typed
<1>5. ASSUME NEW op \in Mongo!TxnOp, NEW ver \in Mongo!Held,
             Mongo!Begin(c, [op |-> op, ver |-> ver, snapshot |-> rows])
      PROVE  MongoInv' /\ StepHolds
  <2> DEFINE call == [op |-> op, ver |-> ver, snapshot |-> rows]
  <2>1. call \in Mongo!Call /\ op \in Ops /\ ver \in 0 .. MaxVersion
    BY <1>1, <1>3, <1>4, VersionAssumption DEF Mongo!Call, Mongo!Version, Mongo!TxnOp, Ops
  <2>2. call.op \in Unversioned => call.ver = 0
    BY DEF Mongo!TxnOp, Unversioned
  <2>3. CASE Mongo!Opens(c, call)
    <3>1. UNCHANGED <<version, claimed, rows, last, again, db>> /\ open' = [open EXCEPT ![c] = call]
      BY <2>3 DEF Mongo!Opens
    <3> HIDE DEF call
    <3>2. QED
      BY <2>1, <2>2, <3>1, OpensStep DEF MongoInv
  <2>4. ASSUME NEW id \in Id, Mongo!AtOnce(op, ver, id, {}, rows, "ShardConditionFail")
        PROVE  MongoInv' /\ StepHolds
    <3>1. Right(op, ver, id, {}, rows, "ShardConditionFail")
      BY <1>1, RefusalIsRight
    <3>2. QED
      BY <1>1, <2>1, <2>4, <3>1, MongoAtOnceStep DEF Answers, K
  <2>5. QED
    BY <1>5, <2>3, <2>4 DEF Mongo!Begin
<1>6. ASSUME NEW r \in Mongo!Timer, Mongo!CreateTimer(c, r)
      PROVE  MongoInv' /\ StepHolds
  <2> DEFINE gone == RowsOf(open[c].snapshot, r.id)
  <2>1. r.id \in Id /\ {r} \in SUBSET K
    BY <1>3 DEF K, Key
  <2>2. Mongo!Running(c, {"CreateTimer"}) /\ Mongo!Commit(c, r.id, gone, {r})
    BY <1>6 DEF Mongo!CreateTimer, Mongo!RowsOf, RowsOf
  <2> HIDE DEF gone
  <2>3. ASSUME OneEach(Mongo!Written(c, gone, {r}))
        PROVE  \A ver : Right("CreateTimer", ver, r.id, {r}, Mongo!Written(c, gone, {r}), "ok")
    BY <2>3, OtherIsRight DEF Ops, Updates, Deletes
  <2>4. QED
    BY <2>1, <2>2, <2>3, MongoCommitStep DEF K
<1>7. ASSUME NEW k \in Mongo!Ranges, NEW new \in Mongo!Inserts,
             Mongo!RangeDeleteWithBatchInsertTxn(c, k[1], k[2], new)
      PROVE  MongoInv' /\ StepHolds
  <2> DEFINE gone == Mongo!Between(open[c].snapshot, k[1], k[2])
             op == "RangeDeleteWithBatchInsertTxn"
  <2>1. k[2].id \in Id /\ new \in SUBSET K
    BY <1>3 DEF Mongo!Ranges, Mongo!Inserts, K, Key
  <2>2. Mongo!Running(c, {op}) /\ Mongo!Commit(c, k[2].id, gone, new)
    BY <1>7 DEF Mongo!RangeDeleteWithBatchInsertTxn
  <2>3. op \in Ops \ (Updates \cup Deletes)
    BY DEF Ops, Updates, Deletes
  <2> HIDE DEF gone, op
  <2>4. ASSUME OneEach(Mongo!Written(c, gone, new))
        PROVE  \A ver : Right(op, ver, k[2].id, new, Mongo!Written(c, gone, new), "ok")
    BY <2>3, <2>4, OtherIsRight
  <2>5. QED
    BY <2>1, <2>2, <2>4, MongoCommitStep DEF K
<1>8. ASSUME NEW id \in Id, NEW at \in Time, Mongo!UpdateTimer(c, id, at)
      PROVE  MongoInv' /\ StepHolds
  <2> DEFINE r == [at |-> at, id |-> id]
             gone == RowsOf(open[c].snapshot, id)
  <2>1. r.id = id /\ {r} \in SUBSET K
    BY DEF K, Key
  <2>2. /\ Mongo!Running(c, {"UpdateTimer"})
        /\ \/ gone # {} /\ Mongo!Commit(c, id, gone, {r})
           \/ Mongo!Closes(c, id, {}, rows, "NotExists")
    BY <1>8 DEF Mongo!UpdateTimer, Mongo!RowsOf, RowsOf
  <2> HIDE DEF r
  <2>3. CASE gone # {} /\ Mongo!Commit(c, id, gone, {r})
    <3>1. ASSUME Mongo!Unchanged(c, {x.id : x \in gone \cup {r}}),
                 OneEach(Mongo!Written(c, gone, {r}))
          PROVE  \A ver : Right("UpdateTimer", ver, id, {r}, Mongo!Written(c, gone, {r}), "ok")
      <4>1. {x.id : x \in gone \cup {r}} = {id}
        BY <2>1 DEF RowsOf
      <4>2. RowsOf(rows, id) = gone
        BY <3>1, <4>1 DEF Mongo!Unchanged, RowsOf
      <4>3. Mongo!Written(c, gone, {r}) = Moves(r)
        BY <2>1, <4>2 DEF Mongo!Written, Moves
      <4>4. QED
        BY <1>1, <2>1, <2>3, <4>2, <4>3, MovesKeeps, MoveIsRight DEF Updates
    <3> HIDE DEF gone
    <3>2. QED
      BY <2>1, <2>2, <2>3, <3>1, MongoCommitStep DEF K
  <2>4. CASE Mongo!Closes(c, id, {}, rows, "NotExists")
    <3>1. \A ver : Right("UpdateTimer", ver, id, {}, rows, "NotExists")
      BY <1>1, NotExistsIsRight
    <3>2. QED
      BY <1>1, <2>2, <2>4, <3>1, MongoClosesStep DEF Answers, K
  <2>5. QED
    BY <2>2, <2>3, <2>4
<1>9. ASSUME NEW id \in Id, Mongo!DeleteTimer(c, id)
      PROVE  MongoInv' /\ StepHolds
  <2> DEFINE gone == RowsOf(open[c].snapshot, id)
  <2>1. Mongo!Running(c, {"DeleteTimer"}) /\ Mongo!Commit(c, id, gone, {})
    BY <1>9 DEF Mongo!DeleteTimer, Mongo!RowsOf, RowsOf
  <2> HIDE DEF gone
  <2>2. \A ver : Right("DeleteTimer", ver, id, {}, Mongo!Written(c, gone, {}), "ok")
    BY <1>1, DeletionIsRight DEF Mongo!Written, Deletes
  <2>3. QED
    BY <2>1, <2>2, MongoCommitStep DEF K
<1>10. ASSUME Mongo!Abort(c)
       PROVE  MongoInv' /\ StepHolds
  <2>1. PICK id \in Id : Mongo!Closes(c, id, {}, rows, "error")
    BY <1>10 DEF Mongo!Abort
  <2>2. Mongo!Running(c, {open[c].op})
    BY <1>10 DEF Mongo!Abort, Mongo!Running
  <2>3. \A ver : Right(open[c].op, ver, id, {}, rows, "error")
    BY <1>1, RefusalIsRight
  <2>4. QED
    BY <1>1, <2>1, <2>2, <2>3, MongoClosesStep DEF Answers, K
<1>11. QED
  BY <1>5, <1>6, <1>7, <1>8, <1>9, <1>10 DEF Mongo!Transaction

(* A call that is one statement.                                           *)
LEMMA MongoStatementStep ==
  ASSUME MongoInv, IsFiniteSet(rows), db = "mongo", db' = db, Mongo!OneRequest
  PROVE  MongoInv' /\ StepHolds
<1> DEFINE K == Key(Time, Id)
<1>1. OneEach(rows) /\ rows \in SUBSET K
  BY DEF MongoInv, StoreInv, Typed
<1>2. Mongo!Timer = K
  BY DEF Mongo!Timer, Mongo!Key, Key
<1> HIDE DEF K
<1>3. /\ \A S, id : Mongo!RowsOf(S, id) = RowsOf(S, id)
      /\ Mongo!NoLock = 0 /\ 0 \in 0 .. MaxVersion
  BY VersionAssumption DEF Mongo!RowsOf, RowsOf, Mongo!NoLock
<1>4. ASSUME NEW op \in Ops, NEW id \in Id, NEW put \in SUBSET K, NEW after \in SUBSET K,
             NEW res \in Answers,
             Right(op, 0, id, put, after, res), Mongo!AtOnce(op, 0, id, put, after, res)
      PROVE  MongoInv' /\ StepHolds
  BY <1>3, <1>4, MongoAtOnceStep DEF K
<1>5. ASSUME NEW op \in Ops, NEW id \in Id, NEW put \in SUBSET K, NEW after \in SUBSET K,
             Right(op, 0, id, put, after, "ok"),
             Whole(put, after) \/ op = "RangeDeleteWithLimit",
             Mongo!Writes(op, 0, id, put, after)
      PROVE  MongoInv' /\ StepHolds
  <2>1. PICK res \in {"ok", "error"} : Mongo!AtOnce(op, 0, id, put, after, res)
    BY <1>5 DEF Mongo!Writes, Mongo!Outcome
  <2>2. Right(op, 0, id, put, after, res)
    BY <1>5, LostAnswerIsRight
  <2>3. QED
    BY <1>4, <2>1, <2>2 DEF Answers
<1>6. ASSUME NEW r \in Mongo!Timer, Mongo!CreateTimerNoLock(r)
      PROVE  MongoInv' /\ StepHolds
  <2>1. r.id \in Id /\ Moves(r) \in SUBSET K
    BY <1>1, <1>2 DEF K, Key, Moves
  <2>2. Mongo!Writes("CreateTimerNoLock", 0, r.id, {r}, Moves(r))
    BY <1>3, <1>6 DEF Mongo!CreateTimerNoLock, Mongo!Upsert, Moves
  <2>3. Right("CreateTimerNoLock", 0, r.id, {r}, Moves(r), "ok")
    BY <1>1, MovesKeeps, OtherIsRight DEF Ops, Updates, Deletes
  <2>4. QED
    BY <1>2, <1>5, <2>1, <2>2, <2>3, MovesAreWhole DEF Ops
<1>7. ASSUME NEW k \in Mongo!Ranges, NEW limit \in Limit,
             Mongo!RangeDeleteWithLimit(k[1], k[2], limit)
      PROVE  MongoInv' /\ StepHolds
  <2>1. k[2].id \in Id
    BY <1>2 DEF Mongo!Ranges, K, Key
  <2>2. PICK gone \in SUBSET rows, res \in {"ok", "error"} :
          Mongo!AtOnce("RangeDeleteWithLimit", 0, k[2].id, {}, rows \ gone, res)
    BY <1>3, <1>7 DEF Mongo!RangeDeleteWithLimit, Mongo!Between
  <2>3. Right("RangeDeleteWithLimit", 0, k[2].id, {}, rows \ gone, res)
    BY <1>1, FewerKeep, OtherIsRight DEF Ops, Updates, Deletes
  <2>4. QED
    BY <1>1, <1>4, <2>1, <2>2, <2>3 DEF Ops, Answers
<1>8. ASSUME NEW id \in Id, NEW at \in Time, Mongo!UpdateTimerNoLock(id, at)
      PROVE  MongoInv' /\ StepHolds
  <2> DEFINE r == [at |-> at, id |-> id]
  <2>1. r.id = id /\ Moves(r) \in SUBSET K
    BY <1>1 DEF K, Key, Moves
  <2>2. \/ RowsOf(rows, id) # {} /\ Mongo!Writes("UpdateTimerNoLock", 0, id, {r}, Moves(r))
        \/ RowsOf(rows, id) = {} /\ Mongo!AtOnce("UpdateTimerNoLock", 0, id, {}, rows, "NotExists")
    BY <1>3, <1>8 DEF Mongo!UpdateTimerNoLock, Mongo!Upsert, Moves
  <2>3. {r} \in SUBSET K
    BY DEF K, Key
  <2> HIDE DEF r
  <2>4. RowsOf(rows, id) # {} => Right("UpdateTimerNoLock", 0, id, {r}, Moves(r), "ok")
    BY <1>1, <2>1, MovesKeeps, MoveIsRight DEF Updates
  <2>5. RowsOf(rows, id) = {} => Right("UpdateTimerNoLock", 0, id, {}, rows, "NotExists")
    BY <1>1, NotExistsIsRight
  <2>6. QED
    BY <1>1, <1>4, <1>5, <2>1, MovesAreWhole, <2>2, <2>4, <2>5, <2>3 DEF Ops, Answers
<1>9. ASSUME NEW id \in Id, Mongo!DeleteTimerNoLock(id)
      PROVE  MongoInv' /\ StepHolds
  <2> DEFINE after == rows \ RowsOf(rows, id)
  <2>1. \/ Mongo!Writes("DeleteTimerNoLock", 0, id, {}, after)
        \/ RowsOf(rows, id) = {} /\ Mongo!AtOnce("DeleteTimerNoLock", 0, id, {}, rows, "NotExists")
    BY <1>3, <1>9 DEF Mongo!DeleteTimerNoLock
  <2>2. after \in SUBSET rows /\ RowsOf(after, id) = {}
    BY DEF RowsOf
  <2> HIDE DEF after
  <2>3. Right("DeleteTimerNoLock", 0, id, {}, after, "ok")
    BY <1>1, <2>2, DeletionIsRight DEF Deletes
  <2>4. RowsOf(rows, id) = {} => Right("DeleteTimerNoLock", 0, id, {}, rows, "NotExists")
    BY <1>1, NotExistsIsRight
  <2>5. after \in SUBSET K /\ Whole({}, after)
    BY <1>1, <2>2 DEF Whole
  <2>6. QED
    BY <1>1, <1>4, <1>5, <2>1, <2>3, <2>4, <2>5 DEF Ops, Answers
<1>10. QED
  BY <1>6, <1>7, <1>8, <1>9 DEF Mongo!OneRequest

(* Every step of the MongoDB store.                                        *)
LEMMA MongoStep ==
  ASSUME MongoInv, IsFiniteSet(rows), db = "mongo", db' = db, Mongo!Next
  PROVE  MongoInv' /\ StepHolds
<1>1. ASSUME Mongo!ClaimShard PROVE Store!ClaimShard
  BY <1>1 DEF Store!ClaimShard, Mongo!ClaimShard
<1>2. CASE Mongo!Fails
  <2>1. PICK op \in Ops, ver \in 0 .. MaxVersion, id \in Id :
          Mongo!AtOnce(op, ver, id, {}, rows, "error")
    BY <1>2, VersionAssumption
    DEF Mongo!Fails, Mongo!Operation, Mongo!CreateOp, Mongo!UpdateOp, Mongo!DeleteOp,
        Mongo!RangeOp, Mongo!Version, Mongo!NoLock, Ops
  <2>2. Store!AtOnce(op, ver, id, {}, rows, "error")
    BY <2>1 DEF Store!AtOnce, Mongo!AtOnce, Store!Return, Mongo!Return
  <2>3. QED
    BY <2>2, FailsStep DEF MongoInv
<1>3. QED
  BY <1>1, <1>2, ClaimStep, MongoStatementStep, MongoTransactionStep DEF Mongo!Next, MongoInv
-----------------------------------------------------------------------------
(* DynamoDB: the timer is the primary key.                                 *)
DynamoInv == StoreInv(Time, Id, DynamoClient, Dynamo!Call)

(* The rows, and the versions a caller may hold.                           *)
LEMMA DynamoRows ==
  ASSUME DynamoInv
  PROVE  /\ OneEach(rows) /\ rows \in SUBSET Key(Time, Id) /\ Dynamo!Timer = Key(Time, Id)
         /\ \A S, id : Dynamo!RowsOf(S, id) = RowsOf(S, id)
         /\ Dynamo!NoLock = 0 /\ 0 \in 0 .. MaxVersion
         /\ Dynamo!Held \subseteq 0 .. MaxVersion
  BY VersionAssumption
  DEF DynamoInv, StoreInv, Typed, Dynamo!Timer, Dynamo!Key, Key, Dynamo!RowsOf, RowsOf,
      Dynamo!NoLock, Dynamo!Held

(* One conditional write.  An update and a delete move the version.        *)
LEMMA DynamoWriteStep ==
  ASSUME DynamoInv, IsFiniteSet(rows), db = "dynamo", db' = db,
         NEW op \in Ops, NEW ver \in 0 .. MaxVersion, NEW id \in Id,
         NEW put \in SUBSET Key(Time, Id), NEW applies,
         NEW after \in SUBSET Key(Time, Id), NEW otherwise \in Answers,
         applies => Right(op, ver, id, put, after, "ok"), Whole(put, after),
         ~applies => Right(op, ver, id, put, rows, otherwise),
         Dynamo!Write(op, ver, id, put, applies, after, otherwise),
         version' \in 1 .. MaxVersion, version <= version'
  PROVE  DynamoInv' /\ StepHolds
<1>1. rows \in SUBSET Key(Time, Id)
  BY DynamoRows
<1>2. UNCHANGED <<claimed, open, again, db>>
  BY DEF Dynamo!Write
<1>3. /\ claimed' \in 1 .. version' /\ CallsHold'
      /\ open' \in [DynamoClient -> Dynamo!Call \cup {Idle}]
  BY <1>2 DEF DynamoInv, StoreInv, Typed, CallsHold
<1>4. ASSUME applies, rows' = after, NEW res \in {"ok", "error"},
             last' = [op |-> op, ver |-> ver, id |-> id, put |-> put, res |-> res]
      PROVE  DynamoInv' /\ StepHolds
  <2>1. Right(op, ver, id, put, after, res) /\ res \in Answers
    BY <1>4, LostAnswerIsRight DEF Answers
  <2>2. QED
    BY <1>2, <1>3, <1>4, <2>1, EndStep DEF DynamoInv
<1>5. CASE ~applies /\ rows' = rows
           /\ last' = [op |-> op, ver |-> ver, id |-> id, put |-> put, res |-> otherwise]
  BY <1>1, <1>2, <1>3, <1>5, EndStep DEF DynamoInv
<1>6. QED
  BY <1>4, <1>5 DEF Dynamo!Write, Dynamo!Return, Dynamo!Outcome

(* A write without a condition.                                            *)
LEMMA DynamoAtOnceStep ==
  ASSUME DynamoInv, IsFiniteSet(rows), db = "dynamo", db' = db,
         NEW op \in Ops, NEW ver \in 0 .. MaxVersion, NEW id \in Id,
         NEW put \in SUBSET Key(Time, Id),
         NEW after \in SUBSET Key(Time, Id), NEW res \in Answers,
         Right(op, ver, id, put, after, res), Dynamo!AtOnce(op, ver, id, put, after, res)
  PROVE  DynamoInv' /\ StepHolds
<1>1. Store!AtOnce(op, ver, id, put, after, res)
  BY DEF Store!AtOnce, Dynamo!AtOnce, Store!Return, Dynamo!Return
<1>2. QED
  BY <1>1, AtOnceStep DEF DynamoInv

(* A call without a field to set is not sent.                              *)
LEMMA DynamoNothingStep ==
  ASSUME DynamoInv, IsFiniteSet(rows), db = "dynamo", db' = db,
         NEW op \in Updates, NEW ver \in 0 .. MaxVersion, NEW id \in Id,
         Dynamo!NothingToUpdate(op, ver, id)
  PROVE  DynamoInv' /\ StepHolds
<1>1. PICK res \in {"ok", "NotSupport"} : Dynamo!AtOnce(op, ver, id, {}, rows, res)
  BY DEF Dynamo!NothingToUpdate
<1>2. OneEach(rows) /\ rows \in SUBSET Key(Time, Id)
  BY DynamoRows
<1>3. Right(op, ver, id, {}, rows, "NotSupport")
  BY <1>2, RefusalIsRight
<1>4. Right(op, ver, id, {}, rows, "ok")
  BY <1>2, MoveIsRight DEF NoMore
<1>5. QED
  BY <1>1, <1>2, <1>3, <1>4, DynamoAtOnceStep DEF Answers, Ops, Updates

(* The calls that are one write.                                           *)
LEMMA DynamoOneWriteStep ==
  ASSUME DynamoInv, IsFiniteSet(rows), db = "dynamo", db' = db, Dynamo!OneWrite
  PROVE  DynamoInv' /\ StepHolds
<1> DEFINE K == Key(Time, Id)
<1>1. OneEach(rows) /\ rows \in SUBSET K /\ Dynamo!Timer = K
  BY DynamoRows
<1> HIDE DEF K
<1>2. /\ \A S, id : Dynamo!RowsOf(S, id) = RowsOf(S, id)
      /\ Dynamo!NoLock = 0 /\ 0 \in 0 .. MaxVersion /\ Dynamo!Held \subseteq 0 .. MaxVersion
  BY DynamoRows
<1>3. version \in 1 .. MaxVersion /\ (version' = version => version <= version')
  BY VersionAssumption DEF DynamoInv, StoreInv, Typed
<1>4. ASSUME version < MaxVersion, NEW applied \in BOOLEAN, Dynamo!Bump(applied)
      PROVE  version' \in 1 .. MaxVersion /\ version <= version'
  BY <1>3, <1>4, VersionAssumption DEF Dynamo!Bump
<1>5. /\ {"CreateTimer", "CreateTimerNoLock"} \subseteq Ops \ (Updates \cup Deletes)
      /\ {"UpdateTimer", "UpdateTimerNoLock"} \subseteq Updates /\ Updates \subseteq Ops
      /\ {"DeleteTimer", "DeleteTimerNoLock"} \subseteq Deletes /\ Deletes \subseteq Ops
      /\ {"ok", "NotExists", "ShardConditionFail"} \subseteq Answers
  BY DEF Ops, Updates, Deletes, Answers
<1>6. ASSUME NEW r \in Dynamo!Timer
      PROVE  /\ r.id \in Id /\ Dynamo!Put(rows, r) = Moves(r)
             /\ Moves(r) \in SUBSET K /\ {r} \in SUBSET K /\ OneEach(Moves(r))
  <2>1. r.id \in Id /\ Moves(r) \in SUBSET K /\ {r} \in SUBSET K
    BY <1>1 DEF K, Key, Moves
  <2>2. Dynamo!Put(rows, r) = Moves(r)
    BY <1>2 DEF Dynamo!Put, Moves
  <2>3. QED
    BY <1>1, <2>1, <2>2, MovesKeeps
<1>7. ASSUME NEW ver \in Dynamo!Held, NEW r \in Dynamo!Timer, Dynamo!CreateTimer(ver, r)
      PROVE  DynamoInv' /\ StepHolds
  <2>1. /\ Dynamo!Write("CreateTimer", ver, r.id, {r}, version = ver, Moves(r), "ShardConditionFail")
        /\ version' = version
    BY <1>6, <1>7 DEF Dynamo!CreateTimer, Dynamo!Applies
  <2>2. version = ver => Right("CreateTimer", ver, r.id, {r}, Moves(r), "ok")
    BY <1>5, <1>6, OtherIsRight
  <2>3. Right("CreateTimer", ver, r.id, {r}, rows, "ShardConditionFail")
    BY <1>1, RefusalIsRight
  <2>4. QED
    BY <1>2, <1>3, <1>5, <1>6, <2>1, <2>2, <2>3, MovesAreWhole, DynamoWriteStep DEF K
<1>8. ASSUME NEW r \in Dynamo!Timer, Dynamo!CreateTimerNoLock(r)
      PROVE  DynamoInv' /\ StepHolds
  <2>1. PICK res \in {"ok", "error"} :
          Dynamo!AtOnce("CreateTimerNoLock", 0, r.id, {r}, Moves(r), res)
    BY <1>2, <1>6, <1>8 DEF Dynamo!CreateTimerNoLock, Dynamo!Writes, Dynamo!Outcome
  <2>2. Right("CreateTimerNoLock", 0, r.id, {r}, Moves(r), "ok")
    BY <1>5, <1>6, OtherIsRight
  <2>3. Right("CreateTimerNoLock", 0, r.id, {r}, Moves(r), res) /\ res \in Answers
    BY <2>2, MovesAreWhole, LostAnswerIsRight DEF Answers
  <2>4. QED
    BY <1>2, <1>5, <1>6, <2>1, <2>3, DynamoAtOnceStep DEF K
<1>9. ASSUME NEW ver \in Dynamo!Held, NEW id \in Id, Dynamo!UpdateTimer(ver, id)
      PROVE  DynamoInv' /\ StepHolds
  <2> DEFINE applies == version = ver /\ RowsOf(rows, id) # {}
  <2>1. CASE /\ version < MaxVersion
             /\ Dynamo!Write("UpdateTimer", ver, id, {}, applies, rows, "ShardConditionFail")
             /\ Dynamo!Bump(applies)
    <3>1. version' \in 1 .. MaxVersion /\ version <= version'
      BY <1>4, <2>1
    <3>2. applies => Right("UpdateTimer", ver, id, {}, rows, "ok")
      BY <1>1, <1>5, MoveIsRight DEF NoMore
    <3>3. Right("UpdateTimer", ver, id, {}, rows, "ShardConditionFail")
      BY <1>1, RefusalIsRight
    <3>4. Whole({}, rows)
      BY DEF Whole
    <3> HIDE DEF applies
    <3>5. QED
      BY <1>1, <1>2, <1>5, <2>1, <3>1, <3>2, <3>3, <3>4, DynamoWriteStep DEF K
  <2>2. CASE Dynamo!NothingToUpdate("UpdateTimer", ver, id)
    BY <1>2, <1>5, <2>2, DynamoNothingStep
  <2>3. QED
    BY <1>2, <1>9, <2>1, <2>2 DEF Dynamo!UpdateTimer, Dynamo!Applies
<1>10. ASSUME NEW ver \in Dynamo!Held, NEW id \in Id, Dynamo!DeleteTimer(ver, id)
       PROVE  DynamoInv' /\ StepHolds
  <2> DEFINE there == RowsOf(rows, id) # {}
             applies == version = ver /\ there
             after == rows \ RowsOf(rows, id)
             otherwise == IF there THEN "ShardConditionFail" ELSE "ok"
  <2>1. /\ version < MaxVersion
        /\ Dynamo!Write("DeleteTimer", ver, id, {}, applies, after, otherwise)
        /\ Dynamo!Bump(applies)
    BY <1>2, <1>10 DEF Dynamo!DeleteTimer, Dynamo!Applies
  <2>2. version' \in 1 .. MaxVersion /\ version <= version'
    BY <1>4, <2>1
  <2>3. after \in SUBSET rows /\ RowsOf(after, id) = {}
    BY DEF RowsOf
  <2>4. applies => Right("DeleteTimer", ver, id, {}, after, "ok")
    BY <1>1, <1>5, <2>3, DeletionIsRight
  <2>5. Right("DeleteTimer", ver, id, {}, rows, otherwise) /\ otherwise \in Answers
    <3>1. there => Right("DeleteTimer", ver, id, {}, rows, "ShardConditionFail")
      BY <1>1, RefusalIsRight
    <3>2. ~there => Right("DeleteTimer", ver, id, {}, rows, "ok")
      BY <1>1, <1>5, DeletionIsRight
    <3>3. QED
      BY <1>5, <3>1, <3>2
  <2> HIDE DEF there, applies, after, otherwise
  <2>6. after \in SUBSET K /\ Whole({}, after)
    BY <1>1, <2>3 DEF Whole
  <2>7. QED
    BY <1>2, <1>5, <2>1, <2>2, <2>4, <2>5, <2>6, DynamoWriteStep DEF K
<1>11. ASSUME NEW id \in Id, Dynamo!UpdateTimerNoLock(id)
       PROVE  DynamoInv' /\ StepHolds
  <2> DEFINE there == RowsOf(rows, id) # {}
  <2>1. CASE /\ Dynamo!Write("UpdateTimerNoLock", 0, id, {}, there, rows, "NotExists")
             /\ version' = version
    <3>1. Right("UpdateTimerNoLock", 0, id, {}, rows, "ok")
      BY <1>1, <1>5, MoveIsRight DEF NoMore
    <3>2. ~there => Right("UpdateTimerNoLock", 0, id, {}, rows, "NotExists")
      BY <1>1, NotExistsIsRight
    <3>3. Whole({}, rows)
      BY DEF Whole
    <3> HIDE DEF there
    <3>4. QED
      BY <1>1, <1>2, <1>3, <1>5, <2>1, <3>1, <3>2, <3>3, DynamoWriteStep DEF K
  <2>2. CASE Dynamo!NothingToUpdate("UpdateTimerNoLock", 0, id)
    BY <1>2, <1>5, <2>2, DynamoNothingStep
  <2>3. QED
    BY <1>2, <1>11, <2>1, <2>2 DEF Dynamo!UpdateTimerNoLock
<1>12. ASSUME NEW id \in Id, Dynamo!DeleteTimerNoLock(id)
       PROVE  DynamoInv' /\ StepHolds
  <2> DEFINE there == RowsOf(rows, id) # {}
             after == rows \ RowsOf(rows, id)
  <2>1. /\ Dynamo!Write("DeleteTimerNoLock", 0, id, {}, there, after, "NotExists")
        /\ version' = version
    BY <1>2, <1>12 DEF Dynamo!DeleteTimerNoLock
  <2>2. after \in SUBSET rows /\ RowsOf(after, id) = {}
    BY DEF RowsOf
  <2>3. Right("DeleteTimerNoLock", 0, id, {}, after, "ok")
    BY <1>1, <1>5, <2>2, DeletionIsRight
  <2>4. ~there => Right("DeleteTimerNoLock", 0, id, {}, rows, "NotExists")
    BY <1>1, NotExistsIsRight
  <2> HIDE DEF there, after
  <2>5. after \in SUBSET K /\ Whole({}, after)
    BY <1>1, <2>2 DEF Whole
  <2>6. QED
    BY <1>2, <1>3, <1>5, <2>1, <2>3, <2>4, <2>5, DynamoWriteStep DEF K
<1>13. QED
  BY <1>7, <1>8, <1>9, <1>10, <1>11, <1>12 DEF Dynamo!OneWrite

(* What a range operation keeps between its requests.                      *)
LEMMA DynamoCalls ==
  ASSUME DynamoInv, NEW c \in DynamoClient, open[c] # Idle
  PROVE  /\ open[c] \in Dynamo!Call
         /\ open[c].op \in {"RangeDeleteWithBatchInsertTxn", "RangeDeleteWithLimit"}
         /\ open[c].ver \in 0 .. MaxVersion
         /\ open[c].op \in Unversioned => open[c].ver = 0
         /\ open[c].hi.id \in Id
<1>1. open[c] \in Dynamo!Call
  BY DEF DynamoInv, StoreInv, Typed
<1>2. open[c].op \in Unversioned => open[c].ver = 0
  BY DEF DynamoInv, StoreInv, Typed, CallsHold
<1>3. QED
  BY <1>1, <1>2, VersionAssumption
  DEF Dynamo!Call, Dynamo!RangeOp, Dynamo!Version, Dynamo!NoLock, Dynamo!Timer, Dynamo!Key

(* The last call of a range operation.                                     *)
LEMMA DynamoClosesStep ==
  ASSUME DynamoInv, IsFiniteSet(rows), db = "dynamo", db' = db,
         NEW c \in DynamoClient, open[c] # Idle, NEW id \in Id,
         NEW put \in SUBSET Key(Time, Id), NEW after \in SUBSET Key(Time, Id), OneEach(after),
         NEW res \in {"ok", "error", "ShardConditionFail"},
         \/ res = "ok" \/ open[c].op = "RangeDeleteWithLimit" \/ after = rows
         \/ res = "error" /\ Whole(put, after),
         after = rows \/ open[c].ver \in {0, version},
         Dynamo!Closes(c, id, put, after, res)
  PROVE  DynamoInv' /\ StepHolds
<1>1. Store!Closes(c, id, put, after, res)
  BY DEF Store!Closes, Dynamo!Closes, Store!Return, Dynamo!Return
<1>2. /\ open[c].op \in Ops \ (Updates \cup Deletes) /\ open[c].ver \in 0 .. MaxVersion
      /\ res \in Answers
  BY DynamoCalls DEF Ops, Updates, Deletes, Answers
<1>3. Right(open[c].op, open[c].ver, id, put, after, res)
  BY <1>2, DynamoRows DEF Right, Gone, Stored, Missing
<1>4. QED
  BY <1>1, <1>2, <1>3, ClosesStep DEF DynamoInv

(* The query, and the deletions it leads to.                               *)
LEMMA DynamoRangeStep ==
  ASSUME DynamoInv, IsFiniteSet(rows), db = "dynamo", db' = db,
         NEW c \in DynamoClient, Dynamo!RangeStep(c)
  PROVE  DynamoInv' /\ StepHolds
<1> DEFINE K == Key(Time, Id)
<1>1. OneEach(rows) /\ rows \in SUBSET K /\ Dynamo!Timer = K
  BY DynamoRows
<1>2. Dynamo!NoLock = 0 /\ 0 \in 0 .. MaxVersion /\ Dynamo!Held \subseteq 0 .. MaxVersion
  BY DynamoRows
<1> HIDE DEF K
<1>3. ASSUME NEW op \in Dynamo!RangeOp, NEW ver \in 0 .. MaxVersion, op \in Unversioned => ver = 0,
             NEW lo \in Dynamo!Start, NEW hi \in Dynamo!Timer, NEW limit,
             Dynamo!QueryRange(c, op, ver, lo, hi, limit)
      PROVE  DynamoInv' /\ StepHolds
  <2> DEFINE found == Dynamo!Query(lo, hi, limit)
             call == [op |-> op, ver |-> ver, lo |-> lo, hi |-> hi, found |-> found]
  <2>1. found \in SUBSET rows
    BY DEF Dynamo!Query, Dynamo!Between, Dynamo!FirstOf
  <2>2. UNCHANGED <<version, claimed, rows, last, again, db>> /\ open' = [open EXCEPT ![c] = call]
    BY <1>3 DEF Dynamo!QueryRange, Dynamo!Opens
  <2> HIDE DEF found
  <2>3. call \in Dynamo!Call
    BY <1>1, <2>1, <1>2, VersionAssumption DEF Dynamo!Call, Dynamo!Version
  <2>4. call.op \in Unversioned => call.ver = 0
    BY <1>3
  <2> HIDE DEF call
  <2>5. QED
    BY <2>2, <2>3, <2>4, OpensStep DEF DynamoInv
<1>4. ASSUME NEW new \in Dynamo!Inserts, Dynamo!RangeDeleteWithBatchInsertTxn(c, new)
      PROVE  DynamoInv' /\ StepHolds
  <2> DEFINE q == open[c]
             repeated == \E r \in new : r.id \in {x.id : x \in q.found}
                                        \/ \E s \in new : s # r /\ s.id = r.id
             after == Dynamo!DeleteKeys(rows, q.found \cup new) \cup new
  <2>1. /\ open[c] # Idle
        /\ \/ /\ ~repeated /\ version = q.ver
              /\ \E res \in {"ok", "error"} : Dynamo!Closes(c, q.hi.id, new, after, res)
           \/ \E res \in {"ok", "error", "ShardConditionFail"} :
                Dynamo!Closes(c, q.hi.id, new, rows, res)
    BY <1>4
    DEF Dynamo!RangeDeleteWithBatchInsertTxn, Dynamo!Running, Dynamo!Applies, Dynamo!Ends,
        Dynamo!Outcome
  <2>2. after \in SUBSET K /\ new \in SUBSET K /\ Whole(new, after)
    BY <1>1 DEF Dynamo!DeleteKeys, Dynamo!Inserts, Whole
  <2>3. ~repeated => OneEach(after)
    BY <1>1 DEF OneEach, Dynamo!DeleteKeys
  <2>4. q.hi.id \in Id
    BY <2>1, DynamoCalls
  <2> HIDE DEF after, repeated
  <2>5. QED
    BY <1>1, <2>1, <2>2, <2>3, <2>4, DynamoClosesStep DEF K
<1>5. ASSUME Dynamo!RangeDeleteWithLimit(c)
      PROVE  DynamoInv' /\ StepHolds
  <2> DEFINE q == open[c]
             batch == Dynamo!FirstOf(q.found, BatchSize)
  <2>1. /\ open[c] # Idle /\ q.op = "RangeDeleteWithLimit"
        /\ \/ /\ rows' = Dynamo!Deletes(q, batch)
              /\ open' = [open EXCEPT ![c].found = @ \ batch]
              /\ last' = [op |-> "none", ver |-> 0, id |-> q.hi.id, put |-> {}, res |-> "ok"]
              /\ UNCHANGED <<version, claimed, again>>
           \/ \E gone : Dynamo!Closes(c, q.hi.id, {}, Dynamo!Deletes(q, gone), "error")
           \/ Dynamo!Closes(c, q.hi.id, {}, rows, "ok")
    BY <1>2, <1>5 DEF Dynamo!RangeDeleteWithLimit, Dynamo!Running, Dynamo!Return
  <2>2. \A gone : Dynamo!Deletes(q, gone) \in SUBSET rows
    BY DEF Dynamo!Deletes, Dynamo!DeleteKeys
  <2>3. /\ q \in Dynamo!Call /\ q.ver = 0 /\ q.hi.id \in Id
    BY <2>1, DynamoCalls DEF Unversioned
  <2>4. CASE /\ rows' = Dynamo!Deletes(q, batch)
             /\ open' = [open EXCEPT ![c].found = @ \ batch]
             /\ last' = [op |-> "none", ver |-> 0, id |-> q.hi.id, put |-> {}, res |-> "ok"]
             /\ UNCHANGED <<version, claimed, again>>
    <3> DEFINE after == Dynamo!Deletes(q, batch)
               call == [q EXCEPT !.found = @ \ batch]
    <3>1. after \in SUBSET rows
      BY <2>2
    <3>2. Right("none", 0, q.hi.id, {}, after, "ok")
      BY <1>1, <3>1, FewerKeep, OtherIsRight DEF Ops, Updates, Deletes
    <3>3. call \in Dynamo!Call /\ call.op = q.op /\ call.ver = 0
      BY <2>3 DEF Dynamo!Call
    <3>4. open \in [DynamoClient -> Dynamo!Call \cup {Idle}] /\ CallsHold
      BY DEF DynamoInv, StoreInv, Typed
    <3>5. open' = [open EXCEPT ![c] = call]
      BY <2>4, <3>4
    <3> HIDE DEF q, call, batch, after
    <3>6. open' \in [DynamoClient -> Dynamo!Call \cup {Idle}] /\ CallsHold'
      BY <3>3, <3>4, <3>5 DEF CallsHold
    <3>7. version' \in 1 .. MaxVersion /\ claimed' \in 1 .. version'
      BY <2>4 DEF DynamoInv, StoreInv, Typed
    <3>8. after \in SUBSET Key(Time, Id) /\ rows' = after
      BY <1>1, <2>4, <3>1 DEF K, after
    <3>9. /\ "none" \in Ops /\ "ok" \in Answers /\ again' = again
          /\ StoreInv(Time, Id, DynamoClient, Dynamo!Call)
      BY <2>4 DEF Ops, Answers, DynamoInv
    <3>10. last' = [op |-> "none", ver |-> 0, id |-> q.hi.id, put |-> {}, res |-> "ok"]
      BY <2>4
    <3>11. StoreInv(Time, Id, DynamoClient, Dynamo!Call)' /\ StepHolds
      BY <1>2, <2>3, <3>2, <3>6, <3>7, <3>8, <3>9, <3>10, EndStep
    <3>12. QED
      BY <3>11 DEF DynamoInv
  <2>5. ASSUME NEW gone, Dynamo!Closes(c, q.hi.id, {}, Dynamo!Deletes(q, gone), "error")
        PROVE  DynamoInv' /\ StepHolds
    <3>1. Dynamo!Deletes(q, gone) \in SUBSET K /\ OneEach(Dynamo!Deletes(q, gone))
      BY <1>1, <2>2, FewerKeep
    <3>2. QED
      BY <2>1, <2>3, <2>5, <3>1, DynamoClosesStep DEF K
  <2>6. CASE Dynamo!Closes(c, q.hi.id, {}, rows, "ok")
    BY <1>1, <2>1, <2>3, <2>6, DynamoClosesStep DEF K
  <2>7. QED
    BY <2>1, <2>4, <2>5, <2>6
<1>6. /\ {"RangeDeleteWithBatchInsertTxn", "RangeDeleteWithLimit"} = Dynamo!RangeOp
      /\ "RangeDeleteWithBatchInsertTxn" \notin Unversioned
  BY DEF Dynamo!RangeOp, Unversioned
<1>7. CASE Dynamo!Abort(c)
  BY <1>1, <1>7, DynamoClosesStep DEF Dynamo!Abort, K
<1>8. QED
  BY <1>2, <1>3, <1>4, <1>5, <1>6, <1>7 DEF Dynamo!RangeStep

(* Every step of the DynamoDB store.                                       *)
LEMMA DynamoStep ==
  ASSUME DynamoInv, IsFiniteSet(rows), db = "dynamo", db' = db, Dynamo!Next
  PROVE  DynamoInv' /\ StepHolds
<1>1. ASSUME Dynamo!ClaimShard PROVE Store!ClaimShard
  BY <1>1 DEF Store!ClaimShard, Dynamo!ClaimShard
<1>2. CASE Dynamo!Fails
  <2>1. PICK op \in Ops, ver \in 0 .. MaxVersion, id \in Id :
          Dynamo!AtOnce(op, ver, id, {}, rows, "error")
    BY <1>2, VersionAssumption
    DEF Dynamo!Fails, Dynamo!Operation, Dynamo!CreateOp, Dynamo!UpdateOp, Dynamo!DeleteOp,
        Dynamo!RangeOp, Dynamo!Version, Dynamo!NoLock, Ops
  <2>2. Store!AtOnce(op, ver, id, {}, rows, "error")
    BY <2>1 DEF Store!AtOnce, Dynamo!AtOnce, Store!Return, Dynamo!Return
  <2>3. QED
    BY <2>2, FailsStep DEF DynamoInv
<1>3. QED
  BY <1>1, <1>2, ClaimStep, DynamoOneWriteStep, DynamoRangeStep DEF Dynamo!Next, DynamoInv

-----------------------------------------------------------------------------
(* The five side by side.                                                  *)
Dbs == {"cassandra", "dynamo", "mysql", "postgres", "mongo"}

StoresInv ==
  /\ db \in Dbs
  /\ db = "cassandra" => CassandraInv
  /\ db = "dynamo" => DynamoInv
  /\ db = "mysql" => MySQLInv
  /\ db = "postgres" => PostgresInv
  /\ db = "mongo" => MongoInv

(* No store has infinitely many rows.                                      *)
LEMMA RowsAreFinite == StoresInv => IsFiniteSet(rows)
<1>1. IsFiniteSet(Key(Time, Id)) /\ IsFiniteSet(Key(CassandraTime, CassandraId))
  BY KeysFinite, FiniteAssumption
<1>2. StoresInv => rows \subseteq Key(Time, Id) \/ rows \subseteq Key(CassandraTime, CassandraId)
  BY DEF StoresInv, Dbs, CassandraInv, DynamoInv, MySQLInv, PostgresInv, MongoInv, StoreInv, Typed
<1>3. QED
  BY <1>1, <1>2, FS_Subset

(* An empty shard, claimed once.                                           *)
LEMMA StoresBegin == MCInit => StoresInv
<1>1. ASSUME NEW T, NEW I, NEW C, NEW Call,
             version = 1, claimed = 1, rows = {}, open = [c \in C |-> Idle],
             last \in [op : {"none"}, ver : {0}, id : I, put : {{}}, res : {"ok"}], again = {}
      PROVE  StoreInv(T, I, C, Call)
  <2>1. Typed(T, I, C, Call)
    BY <1>1, VersionAssumption DEF Typed, Ops, Answers
  <2>2. OneEach(rows) /\ CallsHold
    BY <1>1 DEF OneEach, CallsHold
  <2>3. Answered
    BY <1>1 DEF Answered, Gone, Stored, Missing, Updates, Deletes
  <2>4. QED
    BY <2>1, <2>2, <2>3 DEF StoreInv
<1>2. db = "cassandra" /\ Cassandra!Init => CassandraInv
  BY <1>1 DEF Cassandra!Init, Cassandra!NoLock, CassandraInv
<1>3. db = "dynamo" /\ Dynamo!Init => DynamoInv
  BY <1>1 DEF Dynamo!Init, Dynamo!NoLock, DynamoInv
<1>4. db = "mysql" /\ MySQL!Init => MySQLInv
  BY <1>1 DEF MySQL!Init, MySQL!NoLock, MySQLInv
<1>5. db = "postgres" /\ Postgres!Init => PostgresInv
  BY <1>1 DEF Postgres!Init, Postgres!NoLock, PostgresInv
<1>6. db = "mongo" /\ Mongo!Init => MongoInv
  BY <1>1 DEF Mongo!Init, Mongo!NoLock, MongoInv
<1>7. QED
  BY <1>2, <1>3, <1>4, <1>5, <1>6 DEF MCInit, StoresInv, Dbs

(* Every step keeps the invariant and is one the interface promises.       *)
LEMMA StoresStep == StoresInv /\ MCNext => StoresInv' /\ StepHolds
<1>1. SUFFICES ASSUME StoresInv, MCNext
               PROVE  StoresInv' /\ StepHolds
  OBVIOUS
<1>2. IsFiniteSet(rows) /\ db' = db
  BY <1>1, RowsAreFinite DEF MCNext
<1>3. CASE db = "cassandra"
  BY <1>1, <1>2, <1>3, CassandraStep DEF MCNext, StoresInv
<1>4. CASE db = "dynamo"
  BY <1>1, <1>2, <1>4, DynamoStep DEF MCNext, StoresInv
<1>5. CASE db = "mysql"
  BY <1>1, <1>2, <1>5, MySQLStep DEF MCNext, StoresInv
<1>6. CASE db = "postgres"
  BY <1>1, <1>2, <1>6, PostgresStep DEF MCNext, StoresInv
<1>7. CASE db = "mongo"
  BY <1>1, <1>2, <1>7, MongoStep DEF MCNext, StoresInv
<1>8. QED
  BY <1>1, <1>3, <1>4, <1>5, <1>6, <1>7 DEF StoresInv, Dbs

(* A step that changes nothing keeps it.                                   *)
LEMMA StoresStutter ==
  StoresInv /\ UNCHANGED <<Store!vars, db>> => StoresInv'
BY DEF Store!vars, StoresInv, CassandraInv, DynamoInv, MySQLInv, PostgresInv, MongoInv, StoreInv,
       Typed, OneEach, CallsHold, Answered, Gone, Stored, Missing

(* The invariant holds in every reachable state.                           *)
LEMMA StoresInvariant == MCSpec => []StoresInv
BY StoresBegin, StoresStep, StoresStutter, PTL DEF MCSpec

-----------------------------------------------------------------------------
(* Whatever calls overlap, what a store keeps of them has its shape.       *)
THEOREM StoresTypeCorrect == MCSpec => []TypeOK
<1>1. 1 .. MaxVersion \cup {0} = 0 .. MaxVersion
  BY VersionAssumption
<1>2. db = "cassandra" /\ CassandraInv => Cassandra!TypeOK
  BY <1>1
  DEF CassandraInv, StoreInv, Typed, Cassandra!TypeOK, Cassandra!TypeOKWith, Cassandra!Version,
      Cassandra!Timer, Cassandra!Key, Key, Cassandra!Result, Cassandra!UpdateOp,
      Cassandra!DeleteOp, Cassandra!RangeOp, Cassandra!CreateOp, Cassandra!Operation,
      Cassandra!NoLock, Ops, Answers
<1>3. db = "dynamo" /\ DynamoInv => Dynamo!TypeOK
  BY <1>1
  DEF DynamoInv, StoreInv, Typed, Dynamo!TypeOK, Dynamo!TypeOKWith, Dynamo!Version,
      Dynamo!Timer, Dynamo!Key, Key, Dynamo!Result, Dynamo!UpdateOp,
      Dynamo!DeleteOp, Dynamo!RangeOp, Dynamo!CreateOp, Dynamo!Operation,
      Dynamo!NoLock, Ops, Answers
<1>4. db = "mysql" /\ MySQLInv => MySQL!TypeOK
  BY <1>1
  DEF MySQLInv, StoreInv, Typed, MySQL!TypeOK, MySQL!TypeOKWith, MySQL!Version,
      MySQL!Timer, MySQL!Key, Key, MySQL!Result, MySQL!UpdateOp,
      MySQL!DeleteOp, MySQL!RangeOp, MySQL!CreateOp, MySQL!Operation,
      MySQL!NoLock, Ops, Answers
<1>5. db = "postgres" /\ PostgresInv => Postgres!TypeOK
  BY <1>1
  DEF PostgresInv, StoreInv, Typed, Postgres!TypeOK, Postgres!TypeOKWith, Postgres!Version,
      Postgres!Timer, Postgres!Key, Key, Postgres!Result, Postgres!UpdateOp,
      Postgres!DeleteOp, Postgres!RangeOp, Postgres!CreateOp, Postgres!Operation,
      Postgres!NoLock, Ops, Answers
<1>6. db = "mongo" /\ MongoInv => Mongo!TypeOK
  BY <1>1
  DEF MongoInv, StoreInv, Typed, Mongo!TypeOK, Mongo!TypeOKWith, Mongo!Version,
      Mongo!Timer, Mongo!Key, Key, Mongo!Result, Mongo!UpdateOp,
      Mongo!DeleteOp, Mongo!RangeOp, Mongo!CreateOp, Mongo!Operation,
      Mongo!NoLock, Ops, Answers
<1>7. StoresInv => TypeOK
  BY <1>2, <1>3, <1>4, <1>5, <1>6 DEF StoresInv, TypeOK
<1>8. QED
  BY <1>7, StoresInvariant, PTL

(* Calls that overlap never leave two rows of one timer: creates that      *)
(* upsert, moves, batches of inserts.  The timers that Cassandra was made  *)
(* to create a second time are excepted: they may have two.                *)
THEOREM TimersHaveOneRow == MCSpec => []OneRowPerTimer
<1>1. StoresInv => OneEach(rows)
  BY DEF StoresInv, Dbs, CassandraInv, DynamoInv, MySQLInv, PostgresInv, MongoInv, StoreInv
<1>2. StoresInv => OneRowPerTimer
  BY <1>1, OneEachCounts DEF OneRowPerTimer
<1>3. QED
  BY <1>2, StoresInvariant, PTL

(* A superseded owner's call changes no row of Cassandra or DynamoDB,      *)
(* wherever between its requests the claim of the shard falls.             *)
THEOREM StoresAreFenced == MCSpec => FencedConditionally
<1>1. StoresInv /\ [MCNext]_<<Store!vars, db>>
        => [(db \in {"cassandra", "dynamo"}) => Store!Fenced]_(Store!vars)
  BY StoresStep DEF StepHolds, Store!vars
<1>2. QED
  BY <1>1, StoresInvariant, PTL DEF MCSpec, FencedConditionally

(* An update or a delete gives no timer a row more than it had, except in  *)
(* PostgreSQL.                                                             *)
THEOREM MovesNeverMultiply == MCSpec => MovesAddNoRow
<1>1. StoresInv /\ [MCNext]_<<Store!vars, db>> => [db # "postgres" => Store!AddsNoRow]_(Store!vars)
  BY StoresStep DEF StepHolds, Store!vars
<1>2. QED
  BY <1>1, StoresInvariant, PTL DEF MCSpec, MovesAddNoRow

(* MySQL and DynamoDB say NotExists only of a timer that has no row at     *)
(* that moment.                                                            *)
THEOREM NotExistsIsSaidTruly == MCSpec => NotExistsIsTrueNow
<1>1. StoresInv /\ [MCNext]_<<Store!vars, db>>
        => [(db \in {"mysql", "dynamo"}) => Store!SaysTrueNotExists]_(Store!vars)
  BY StoresStep DEF StepHolds, Store!vars
<1>2. QED
  BY <1>1, StoresInvariant, PTL DEF MCSpec, NotExistsIsTrueNow

(* A call that is refused has written nothing; one that failed has written *)
(* all it was to store or nothing, whichever of its statements failed and  *)
(* whether its commit was applied or not; the range delete with a limit    *)
(* excepted.                                                               *)
THEOREM FailuresAreWhole == MCSpec => WritesAreWhole
<1>1. StoresInv /\ [MCNext]_<<Store!vars, db>>
        => [last'.res # "ok" /\ last'.op # "RangeDeleteWithLimit" =>
              \/ rows' = rows
              \/ /\ last'.res = "error"
                 /\ last'.put \subseteq rows' /\ rows' \subseteq rows \cup last'.put]_(Store!vars)
  BY StoresStep DEF StepHolds, Store!vars
<1>2. QED
  BY <1>1, StoresInvariant, PTL DEF MCSpec, WritesAreWhole

(* What a successful answer said of its timer.                             *)
LEMMA AnswersHold == StoresInv' => Answered'
BY DEF StoresInv, Dbs, CassandraInv, DynamoInv, MySQLInv, PostgresInv, MongoInv, StoreInv

(* A delete that succeeds leaves no row of its timer, wherever the row was *)
(* moved since the delete looked it up; MongoDB excepted.                  *)
THEOREM DeletesDelete == MCSpec => DeletedIsGone
<1>1. StoresInv /\ [MCNext]_<<Store!vars, db>>
        => [/\ db # "mongo"
            /\ last'.op \in Store!DeleteOp /\ last'.res = "ok" /\ last'.id \notin again'
            => RowsOf(rows', last'.id) = {}]_(Store!vars)
  <2>1. StoresInv /\ MCNext => Answered' /\ db' = db
    BY StoresStep, AnswersHold DEF MCNext
  <2>2. QED
    BY <2>1 DEF Answered, Gone, Deletes, Store!DeleteOp, Store!vars
<1>2. QED
  BY <1>1, StoresInvariant, PTL DEF MCSpec, DeletedIsGone

(* An update that succeeds has a row to show for it, wherever the row was  *)
(* moved or deleted since it was looked up; DynamoDB excepted.             *)
THEOREM UpdatesStore == MCSpec => UpdatedIsStored
<1>1. StoresInv /\ [MCNext]_<<Store!vars, db>>
        => [/\ db # "dynamo"
            /\ last'.op \in Store!UpdateOp /\ last'.res = "ok"
            => RowsOf(rows', last'.id) # {}]_(Store!vars)
  <2>1. StoresInv /\ MCNext => Answered' /\ db' = db
    BY StoresStep, AnswersHold DEF MCNext
  <2>2. QED
    BY <2>1 DEF Answered, Stored, Updates, Store!UpdateOp, Store!vars
<1>2. QED
  BY <1>1, StoresInvariant, PTL DEF MCSpec, UpdatedIsStored

-----------------------------------------------------------------------------
(* DynamoDB deletes the keys a query found, and no others.                 *)
LEMMA DynamoSurvivors ==
  ASSUME DynamoInv, Dynamo!Next, NEW c \in DynamoClient, open[c] # Idle, open'[c] # open[c],
         NEW r \in rows
  PROVE  RowsOf(rows', r.id) # {} \/ RowsOf(open[c].found, r.id) # {}
<1>1. open \in [DynamoClient -> Dynamo!Call \cup {Idle}]
  BY DEF DynamoInv, StoreInv, Typed
<1>2. PICK d \in DynamoClient : Dynamo!RangeStep(d)
  BY DEF Dynamo!Next, Dynamo!ClaimShard, Dynamo!Fails, Dynamo!OneWrite, Dynamo!CreateTimer,
         Dynamo!CreateTimerNoLock, Dynamo!UpdateTimer, Dynamo!NothingToUpdate, Dynamo!DeleteTimer,
         Dynamo!UpdateTimerNoLock, Dynamo!DeleteTimerNoLock, Dynamo!Write, Dynamo!Writes,
         Dynamo!AtOnce
<1>3. \/ Dynamo!RangeDeleteWithLimit(d) \/ Dynamo!Abort(d)
      \/ \E new : Dynamo!RangeDeleteWithBatchInsertTxn(d, new)
  BY <1>1, <1>2 DEF Dynamo!RangeStep, Dynamo!QueryRange, Dynamo!Opens
<1>4. d = c
  BY <1>1, <1>3
  DEF Dynamo!RangeDeleteWithLimit, Dynamo!RangeDeleteWithBatchInsertTxn, Dynamo!Abort,
      Dynamo!Ends, Dynamo!Closes
<1>5. CASE Dynamo!RangeDeleteWithLimit(c)
  <2>1. PICK keys \in SUBSET open[c].found : rows' = rows \/ rows' = Dynamo!DeleteKeys(rows, keys)
    BY <1>5 DEF Dynamo!RangeDeleteWithLimit, Dynamo!Closes, Dynamo!Deletes, Dynamo!FirstOf
  <2>2. QED
    BY <2>1 DEF Dynamo!DeleteKeys, RowsOf
<1>6. ASSUME NEW new, Dynamo!RangeDeleteWithBatchInsertTxn(c, new)
      PROVE  RowsOf(rows', r.id) # {} \/ RowsOf(open[c].found, r.id) # {}
  <2>1. rows' = rows \/ rows' = Dynamo!DeleteKeys(rows, open[c].found \cup new) \cup new
    BY <1>6 DEF Dynamo!RangeDeleteWithBatchInsertTxn, Dynamo!Ends, Dynamo!Closes
  <2>2. QED
    BY <2>1 DEF Dynamo!DeleteKeys, RowsOf
<1>7. CASE Dynamo!Abort(c)
  BY <1>7 DEF Dynamo!Abort, Dynamo!Closes, RowsOf
<1>8. QED
  BY <1>3, <1>4, <1>5, <1>6, <1>7

(* A transaction of MongoDB deletes what its snapshot has.                 *)
LEMMA MongoSurvivors ==
  ASSUME MongoInv, Mongo!Next, NEW c \in Client, open[c] # Idle, open'[c] # open[c],
         NEW r \in rows
  PROVE  RowsOf(rows', r.id) # {} \/ RowsOf(open[c].snapshot, r.id) # {}
<1>1. open \in [Client -> Mongo!Call \cup {Idle}]
  BY DEF MongoInv, StoreInv, Typed
<1>2. PICK d \in Client : Mongo!Transaction(d)
  BY DEF Mongo!Next, Mongo!ClaimShard, Mongo!OneRequest, Mongo!Fails, Mongo!CreateTimerNoLock,
         Mongo!RangeDeleteWithLimit, Mongo!UpdateTimerNoLock, Mongo!DeleteTimerNoLock,
         Mongo!Writes, Mongo!AtOnce
<1> DEFINE Closed == \E gone \in SUBSET open[d].snapshot : \E id, new, after, res :
                       /\ Mongo!Closes(d, id, new, after, res)
                       /\ after \in {rows, (rows \ gone) \cup new}
<1>3. Closed
  <2>1. ASSUME NEW id, NEW new, NEW gone \in SUBSET open[d].snapshot, Mongo!Commit(d, id, gone, new)
        PROVE  Closed
    BY <2>1 DEF Mongo!Commit, Mongo!Ends, Mongo!Written
  <2>2. ASSUME NEW id, NEW res, Mongo!Closes(d, id, {}, rows, res)
        PROVE  Closed
    BY <2>2
  <2> HIDE DEF Closed
  <2>3. CASE \E op, ver : Mongo!Begin(d, [op |-> op, ver |-> ver, snapshot |-> rows])
    BY <1>1, <2>3 DEF Mongo!Begin, Mongo!Opens, Mongo!AtOnce
  <2>4. CASE \E x : Mongo!CreateTimer(d, x)
    <3>1. PICK x : Mongo!Commit(d, x.id, Mongo!RowsOf(open[d].snapshot, x.id), {x})
      BY <2>4 DEF Mongo!CreateTimer
    <3> DEFINE gone == Mongo!RowsOf(open[d].snapshot, x.id)
               id == x.id
               new == {x}
    <3>2. gone \in SUBSET open[d].snapshot /\ Mongo!Commit(d, id, gone, new)
      BY <3>1 DEF Mongo!RowsOf
    <3> HIDE DEF gone, id, new
    <3>3. QED
      BY <2>1, <3>2
  <2>5. CASE \E lo, hi, new : Mongo!RangeDeleteWithBatchInsertTxn(d, lo, hi, new)
    <3>1. PICK lo, hi, new : Mongo!Commit(d, hi.id, Mongo!Between(open[d].snapshot, lo, hi), new)
      BY <2>5 DEF Mongo!RangeDeleteWithBatchInsertTxn
    <3> DEFINE gone == Mongo!Between(open[d].snapshot, lo, hi)
               id == hi.id
    <3>2. gone \in SUBSET open[d].snapshot /\ Mongo!Commit(d, id, gone, new)
      BY <3>1 DEF Mongo!Between
    <3> HIDE DEF gone, id
    <3>3. QED
      BY <2>1, <3>2
  <2>6. CASE \E id, at : Mongo!UpdateTimer(d, id, at)
    <3>1. PICK id, at :
            \/ Mongo!Commit(d, id, Mongo!RowsOf(open[d].snapshot, id), {[at |-> at, id |-> id]})
            \/ Mongo!Closes(d, id, {}, rows, "NotExists")
      BY <2>6 DEF Mongo!UpdateTimer
    <3> DEFINE gone == Mongo!RowsOf(open[d].snapshot, id)
               new == {[at |-> at, id |-> id]}
    <3>2. gone \in SUBSET open[d].snapshot
      BY DEF Mongo!RowsOf
    <3>3. Mongo!Commit(d, id, gone, new) \/ Mongo!Closes(d, id, {}, rows, "NotExists")
      BY <3>1
    <3> HIDE DEF gone, new
    <3>4. QED
      BY <2>1, <2>2, <3>2, <3>3
  <2>7. CASE \E id : Mongo!DeleteTimer(d, id)
    <3>1. PICK id : Mongo!Commit(d, id, Mongo!RowsOf(open[d].snapshot, id), {})
      BY <2>7 DEF Mongo!DeleteTimer
    <3> DEFINE gone == Mongo!RowsOf(open[d].snapshot, id)
    <3>2. gone \in SUBSET open[d].snapshot /\ Mongo!Commit(d, id, gone, {})
      BY <3>1 DEF Mongo!RowsOf
    <3> HIDE DEF gone
    <3>3. QED
      BY <2>1, <3>2
  <2>8. CASE Mongo!Abort(d)
    BY <2>8, <2>2 DEF Mongo!Abort
  <2>9. QED
    BY <1>2, <2>3, <2>4, <2>5, <2>6, <2>7, <2>8 DEF Mongo!Transaction
<1>4. d = c
  BY <1>1, <1>3 DEF Mongo!Closes
<1>5. QED
  BY <1>3, <1>4 DEF Mongo!Closes, RowsOf

(* A timer created after a range operation looked is not lost to it: what  *)
(* is deleted was in the query's answer or in the snapshot.                *)
THEOREM LateTimersAreKept == MCSpec => LateTimersSurvive
<1>1. ASSUME StoresInv, MCNext, NEW c \in DOMAIN open, db \in {"dynamo", "mongo"},
             open[c] # Idle, open'[c] # open[c], NEW r \in rows
      PROVE  RowsOf(rows', r.id) # {} \/ RowsOf(Known(c), r.id) # {}
  <2>1. CASE db = "dynamo"
    <3>1. DynamoInv /\ Dynamo!Next /\ DOMAIN open = DynamoClient
      BY <1>1, <2>1 DEF StoresInv, MCNext, DynamoInv, StoreInv, Typed
    <3>2. QED
      BY <1>1, <2>1, <3>1, DynamoSurvivors DEF Known
  <2>2. CASE db = "mongo"
    <3>1. MongoInv /\ Mongo!Next /\ DOMAIN open = Client
      BY <1>1, <2>2 DEF StoresInv, MCNext, MongoInv, StoreInv, Typed
    <3>2. QED
      BY <1>1, <2>2, <3>1, MongoSurvivors DEF Known
  <2>3. QED
    BY <1>1, <2>1, <2>2
<1>2. StoresInv /\ [MCNext]_<<Store!vars, db>>
        => [\A c \in DOMAIN open :
              /\ db \in {"dynamo", "mongo"} /\ open[c] # Idle /\ open'[c] # open[c]
              => \A r \in rows :
                   RowsOf(rows', r.id) # {} \/ RowsOf(Known(c), r.id) # {}]_(Store!vars)
  BY <1>1 DEF Store!vars
<1>3. QED
  BY <1>2, StoresInvariant, PTL DEF MCSpec, LateTimersSurvive
=============================================================================
