------------------------------ MODULE MCStores ------------------------------
(***************************************************************************)
(* The five stores side by side: "db" is chosen once and for all, and what *)
(* the TimerStore interface lets callers rely on is claimed of each store  *)
(* that can keep it.  Every store has the bounds at which its own          *)
(* interleavings happen.                                                   *)
(***************************************************************************)
EXTENDS TimerRows, TLC

CONSTANTS Client, Time, Id, Limit, MaxVersion, Idle

\* The bounds of the two stores that need others than the rest.
CONSTANTS CassandraTime, CassandraId, CassandraLimit, DynamoClient, BatchSize

ASSUME FiniteAssumption ==
  \A S \in {Time, Id, CassandraTime, CassandraId} : IsFiniteSet(S)
ASSUME VersionAssumption == MaxVersion \in Nat \ {0}

VARIABLES version, claimed, rows, open, last, again, db

Store == INSTANCE TimerStore

Cassandra == INSTANCE CassandraStore WITH Time <- CassandraTime, Id <- CassandraId,
                                       Limit <- CassandraLimit
Dynamo == INSTANCE DynamoStore WITH Client <- DynamoClient
MySQL == INSTANCE MySQLStore
Postgres == INSTANCE PostgresStore
Mongo == INSTANCE MongoStore

Symmetry == Permutations(Client)

\* No step depends on what the last call returned; the properties look at it
\* in the step that sets it.
View == <<version, claimed, rows, open, again, db>>

MCInit ==
  \/ db = "cassandra" /\ Cassandra!Init
  \/ db = "dynamo" /\ Dynamo!Init
  \/ db = "mysql" /\ MySQL!Init
  \/ db = "postgres" /\ Postgres!Init
  \/ db = "mongo" /\ Mongo!Init

MCNext ==
  /\ \/ db = "cassandra" /\ Cassandra!Next
     \/ db = "dynamo" /\ Dynamo!Next
     \/ db = "mysql" /\ MySQL!Next
     \/ db = "postgres" /\ Postgres!Next
     \/ db = "mongo" /\ Mongo!Next
  /\ UNCHANGED db

MCSpec == MCInit /\ [][MCNext]_<<Store!vars, db>>

-----------------------------------------------------------------------------
(* What each store keeps of an open call has its shape.                    *)
TypeOK ==
  /\ db = "cassandra" => Cassandra!TypeOK
  /\ db = "dynamo" => Dynamo!TypeOK
  /\ db = "mysql" => MySQL!TypeOK
  /\ db = "postgres" => Postgres!TypeOK
  /\ db = "mongo" => Mongo!TypeOK

(* A superseded owner's call changes no row, whenever between its requests *)
(* the claim comes.  The stores with transactions read the version without *)
(* locking it and cannot promise this (run MySQL_fenced).                  *)
FencedConditionally == [][(db \in {"cassandra", "dynamo"}) => Store!Fenced]_(Store!vars)

(* Updates and deletes never bring a timer back and never multiply its     *)
(* rows, also when rows were moved or deleted since they were looked up.   *)
(* PostgreSQL cannot promise this (run Postgres_update).                   *)
MovesAddNoRow == [][db # "postgres" => Store!AddsNoRow]_(Store!vars)

(* Upserts, moves and batches of inserts that overlap never leave two rows *)
(* of one timer (docs/design/database-design.md, "True upsert"), except    *)
(* where Cassandra was made to create a timer that existed.                *)
OneRowPerTimer == \A id \in Id \ again : Cardinality(RowsOf(rows, id)) <= 1

(* A delete that succeeds leaves no row of the timer behind, even if it    *)
(* was moved meanwhile.  MongoDB's delete succeeds without deleting if the *)
(* timer was created after the snapshot.                                   *)
DeletedIsGone ==
  [][/\ db # "mongo"
     /\ last'.op \in Store!DeleteOp /\ last'.res = "ok" /\ last'.id \notin again'
     => RowsOf(rows', last'.id) = {}]_(Store!vars)

(* NotExists is said only of a timer that has no row: also not by an       *)
(* update that repeats what is stored.  Cassandra and PostgreSQL say it of *)
(* a timer that was moved (Cassandra_notexists, Postgres_notexists.cfg),   *)
(* MongoDB of one that is younger than its snapshot.                       *)
NotExistsIsTrueNow ==
  [][(db \in {"mysql", "dynamo"}) => Store!SaysTrueNotExists]_(Store!vars)

(* An update that succeeds has a row to show for it, also when the row was *)
(* deleted, or moved, since it was looked up.  DynamoDB's is not sent      *)
(* without a field to set, so it succeeds of a timer that is gone.         *)
UpdatedIsStored ==
  [][/\ db # "dynamo"
     /\ last'.op \in Store!UpdateOp /\ last'.res = "ok"
     => RowsOf(rows', last'.id) # {}]_(Store!vars)

(* A call that is refused - a version, a timer that is not there - wrote   *)
(* nothing.  One that fails wrote all it was asked to store and nothing    *)
(* else, or nothing at all: the rows it deleted are never missing without  *)
(* those that take their place, whether the second insert is the one that  *)
(* fails or the answer to the commit is lost.  The range delete with a     *)
(* limit, which is not atomic in every store, is left out.                 *)
WritesAreWhole ==
  [][last'.res # "ok" /\ last'.op # "RangeDeleteWithLimit" =>
       \/ rows' = rows
       \/ /\ last'.res = "error"
          /\ last'.put \subseteq rows' /\ rows' \subseteq rows \cup last'.put]_(Store!vars)

\* The timers a range operation knew of when it began.
Known(c) == IF db = "dynamo" THEN open[c].found ELSE open[c].snapshot

(* A timer created after a range operation queried the range, or took its  *)
(* snapshot, is not lost to it: only timers it knew are ever deleted.      *)
LateTimersSurvive ==
  [][\A c \in DOMAIN open :
       /\ db \in {"dynamo", "mongo"} /\ open[c] # Idle /\ open'[c] # open[c]
       => \A r \in rows : RowsOf(rows', r.id) # {} \/ RowsOf(Known(c), r.id) # {}]_(Store!vars)
=============================================================================
