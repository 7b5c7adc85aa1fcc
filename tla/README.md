# A verification of the durable timer service

TLA+ modules, TLC runs and TLAPS proofs about the server in `src/server`: the
engine that keeps the timers of a shard (ownership, timer gate, batch reader,
batch deleter, back-off) and the timer stores under it.

* [The system](#the-system)
* [The modules](#the-modules)
* [The runs](#the-runs)
* [Fairness](#fairness)
* [The proofs](#the-proofs)
* [Where code and text disagree](#where-code-and-text-disagree)
* [What is not modelled](#what-is-not-modelled)
* [The plan](#the-plan)

## The system

A timer is a row of one shard: an execution time, a uuid derived from
namespace and timer id, a callback. A shard is owned by one server process at a
time. The owner's *reader* looks for the rows that are due and hands them to
the *queue*; the *callback processor* calls back; the queue reports the
prefix of completed timers to the *deleter*, which *commits* it to the
shard record and range-deletes the rows. Any process may create, update or
delete timers of a shard, with calls that carry the shard version (fenced) or
not (NoLock).

```
 callers --CreateTimer...--> TimerStore <--ClaimShardOwnership, UpdateShardMetadata-- ShardOwnership
    |                         ^      ^                                                   |  ^
    | newTimerChannel         |      | RangeDeleteWithLimit          ownership-loss channel  | commit
    v            RangeGetTimers      |                                                   v  |
 TimerGate <--> BatchReader --loadingBuffer--> TimerQueue --offset channel--> BatchDeleter
                                                |   ^
                                            CallbackProcessor
```

| Component | State | Operations | What is hard | What makes it correct |
|---|---|---|---|---|
| Shard ownership (`engine/shard_ownership.go`, claim and metadata calls of the stores) | version and metadata in the shard record; cached copies; the loss channel | claim (two database calls), update metadata, release | races of two claims, writes applied but reported as failed, restarts, stale owners | versions separate owners; only the holder of the current version writes; a stale owner notices |
| Timer gate (`engine/timer_gate.go`) | runtime timer, wake-up time, `isActive`, one-slot `fireChan` | `Update`, `Stop`, `Close`, forwarding goroutine | `Update` against expiry against delivery | fires for the earliest time asked for, never early, never silently |
| Batch reader (`engine/batch_reader.go`) | read offset, `readTimers`, look-ahead time, its gate | two queries, send, notices, stop | late inserts, failing reads, a query that hangs, a full buffer, ownership loss | no timer skipped, none early or out of order, the gate is armed, loss stops it |
| Batch deleter (`engine/batch_deleter.go`) | received and committed offset, two timers | receive, commit, range-delete, stop | completions out of order, commits with unknown outcome, starvation in the select | deletes and stores only what completed; commits in the end |
| Back-off (`engine/backoff`) | attempt counters, elapsed time; a mutex and a count of failures | `ComputeNextDelay`, `NextBackOff`, `Do`; `Throttle`, `Succeeded`, `Failed` | phases, expiration, jitter, throttle; a lock held while sleeping | no late attempt, no early end, `Do` returns; callers get through |
| Timer stores (`databases/*`) | shard record, timer rows | create, update, delete, range get and delete, fenced and NoLock | lookup and write in separate calls, version checks, statements that wait for locks, partial batches, lost answers | stale versions write nothing; one row per timer; deleted timers stay deleted; a call writes all or nothing, also when it fails |
| Offset channels (`engine/offset_channels.go`) | a map of channels under a lock | get, create, remove | a channel closed under its receiver | modelled only as the deleter meets it |
| Timer engine | none yet: `NewTimerEngine` returns nil (`TODO`) | the wiring of the parts, described by the comments of `engine/interfaces.go` | several owners, crashes, clocks that differ, an unfenced range delete over one table | no timer is skipped, lost or early |
| Timer queue, callback processor, membership | none: interfaces or constructors that return nil (`TODO`) | | | appear as environments |
| HTTP API (`cmd`), configuration, logging, clock, deployment, SDKs | none | | | not modelled |

`PROJECT.json` lists every component with its files and status, and under
"hazards" every place where the code is hard to test, with the property that
watches it or the reason there is none; its "map" names, for each definition,
the lines of the source it stands for.

## The modules

**FencedRegister**, **Alarm** and **DurableTimers** are abstract
specifications: what ownership, a timer gate and the whole shard promise, without
the code's means.

**ShardOwnership** is the life of one shard among the processes that compete
for it. `shard` is the shard record (version 0: no record). `ClaimRead` and
`ClaimWrite` are the two database calls all five stores make in
`ClaimShardOwnership`; `ClaimWrite` is also the constructor, which caches the
metadata the claim READ. `ClaimError` and `UpdateShardMetadataError` are calls
that fail on the client, applied or not. `UpdateShardMetadata` closes the loss
channel on a version mismatch; an object stays usable after it ("lost").
`Crash` drops the object at any point; a later claim is a new incarnation.

**TimerGate** has one record `gate` for the runtime timer, the fields and the
goroutine. The goroutine takes three steps for an expiry
(`GoroutineReceive`, `GoroutineSetInactive`, `GoroutineSend`) because the owner's
methods run between them. `Update` is one step: the timer is stopped before
the times are compared, so nothing but the write of `isActive`, which may as
well come later, can happen inside it. The module follows Go 1.23 timers
(`go.mod`): no stale value is left in the channel after `Stop` or `Reset`.

**TimerRows** has keys, the order on them and the range queries.

**BatchReader** composes the reader with an instance of TimerGate over a shared
clock. `Fire` takes the signal and reads the clock, `Read` is the first query
and everything that follows it, `LookAhead` the second query and the new
wake-up time, `ReadGivesUp` the retries of the first query running out. The
second query has no timeout and no retries: that it is never answered is
`LookAhead` never being taken. `Send`, `Notice`,
`StopOnLoss` and `StopOnClose` are the branches of the two selects. The
environment inserts timers (and announces them or not), deletes up to a
delivered timer, loses the shard, closes. Two constants switch faults:
`DbMayFail`, and `NilDbErrorIsNil`, which is FALSE for the code as written (see
below) and TRUE for the reader with that test repaired; all runs but one use
TRUE to look beyond the first defect.

**BatchDeleter** has timers 1..N in key order and offsets 0..N, 0 being nil.
`left` is what is left of the two timers that are created anew in every round
of the select: `NextRound` is part of every branch. `commitOffset` is applied,
fenced off, or ends in an error with an unknown outcome. `deleteTimers` removes
up to `Limit` rows, or the range where the store ignores the limit, or part of
it when it fails; it is not fenced, as in the code. `Notify` may repeat an
offset: that stands for the next offset of a stream that does not end, so that
`N` bounds the timers that are told apart, not the number of notifications.

**ShardEngine** is one shard as the engine will be put together: an instance of
ShardOwnership, and per process a reader, the queue's list and a deleter,
reduced to their effects on offsets and rows (what happens inside reader and
deleter is BatchReader and BatchDeleter). `NewEngine` starts the reader at the
metadata the claim cached. `Read` takes what is ready at the clock of the
process, `Complete` and `Notify` are the callback processor and the queue as
`engine/interfaces.go` describes them, `commitOffset` is UpdateShardMetadata
of ShardOwnership, applied, fenced or of unknown outcome, and `deleteTimers`
removes any part of the range up to the received offset, without a version.
An owner that was superseded goes on with all of it. `Put` creates or moves a
timer from any process. `now` is the most advanced clock; others are up to
`Lag` behind. It is shown to implement **DurableTimers**: a timer that was
accepted waits until it is called back, not before its time, or is accepted
for another time.

**RetryPolicy** has the delays of the policies; they are integers in a fifth of
the smallest interval, so that the jitter of 0.8 stays exact. **Backoff** is
`ThrottleRetry.Do` with its two retriers, **ConcurrentRetrier** the callers that
share a retrier behind a mutex; `Throttle` is two steps, the unlocked read of
`failureCount` and what happens under the lock, and a third if it sleeps.
**MCRetries** puts both side by side for TLC.

**TimerStore** is what the five implementations have in common: the version,
the rows, the calls that are open between two requests (`open`), what the call
that ended last was, asked for and returned (`last`), and the promises of the
interface. A row is its key; payload, attempts and creation time are left out.
`ClaimShard` is the version moving on; the claim itself is ShardOwnership. A
write is the step in which the database applies it. Its caller may be told of an
error nevertheless (`Outcome`): a COMMIT, a conditional batch or a request
whose answer is lost. A request that fails and was not applied is `Fails`, or
`Abort` when it is a later one of its call. A write that lands after its caller
was told of the error is covered too: the step is the moment it is applied, the
answer is only what the caller will have been told. A request that a driver
repeats is another call.

**TxnStore** adds what the stores with transactions share: a plain read of the
version first (`Begin`), upserts and unique indexes. On these two stand

* **CassandraStore**: conditional batches; update and delete look the timer
  up in a query of their own before it;
* **MySQLStore**: after the version, one statement that sees the rows of its
  time; an update finds its row although it leaves it as it is
  (`clientFoundRows`);
* **PostgresStore**: READ COMMITTED. The writes and the COMMIT are the last step of
  a call, where its locks are released; the UPDATE or DELETE among them may have
  started before (`Starts`) and waited. It then goes on with the rows it saw when
  it started (`sees`), as they are by now: a row that was updated in place is
  still that row, one that was deleted and inserted again by another call is not
  seen (`Without`, `Seen`). An update looks the timer up in a statement before;
* **MongoStore**: a transaction works on the snapshot its first read took, and
  fails when a document it writes was changed since;
* **DynamoStore**: single items by primary key, and range operations in
  several calls.

**MCStores** chooses one of the five and states, for each promise, which stores
can keep it. **MCPostgresStore** adds the history that tells which timers had a
row all the time while a call was under way.

**TimerRowsProofs** has lemmas on the order of keys. **ShardOwnershipProofs**,
**GateOwnerProofs**, **BatchReaderProofs**, **BatchDeleterProofs**,
**ShardEngineProofs**, **RetriesProofs** and **StoresProofs** hold the theorems.

## The runs

| Run | Instance | States | Shows |
|---|---|---|---|
| ShardOwnership | 3 instances, 3 offsets, versions to 4 | 110 k | `VersionsUnique`, `VersionsBehind`; implements FencedRegister (`Fencing`); `StaleOwnerStepsDown` |
| GateOwner | clock to 3 | 1.5 k | `EarliestArmed`; implements Alarm (`NeverEarly`); `FiringIsSignalled` |
| BatchReader_safe | 2 timers, clock to 2, windows 1 and 2, limit 2, failing reads | 642 k | `NoTimerSkipped`, `DueAndInOrder`, `LookAheadArmed`; `LossStopsReader` |
| BatchReader_delivery | 2 timers, limit 1, everybody fair | violation | `FreshTimersDelivered` fails: a timer is never delivered |
| BatchReader_comment | the code as written | violation | `ReadFindsOrLooksAhead` fails: a read returns neither |
| BatchDeleter | 3 timers, intervals {1,2} and {2,3}, limit 1 | 10 k | `OnlyCompletedDeleted`, `RestartSkipsNothing`, `CommittedIsStored`, `CommitsHappen` |
| BatchDeleter_default | 1 timer, intervals {2,3} and {6,7}: the defaults | violation | `DeletesHappen` fails: commits keep the delete timer from expiring |
| ShardEngine | 2 processes, 3 claims, 2 timers of which one moves, clocks 1 apart | 594 k | `NothingSkipped`; implements DurableTimers (`NothingLost`) |
| Retries | `Do`: two phases, throttle policy, two durations; 3 callers of a ConcurrentRetrier | 25 k | `NoAttemptAfterExpiration`, `EndsWhenUsedUp`, `DoReturnsAlways`; `SleepsAfterFailure`, `CallsReturn` |
| Stores | five stores, bounds below | 104 k | `OneRowPerTimer`, `FencedConditionally`, `MovesAddNoRow`, `DeletedIsGone`, `NotExistsIsTrueNow`, `UpdatedIsStored`, `WritesAreWhole`, `LateTimersSurvive` |
| MySQL_fenced | 2 transactions, 1 timer | violation | `FencedWrites` fails |
| Postgres_update | 2 transactions, 1 timer | violation | `UpdatesAddNoRow` fails: a deleted timer comes back |

Four more configurations reproduce counterexamples that are described under
[Where code and text disagree](#where-code-and-text-disagree) and are not among
the runs of `PROJECT.json`:

| Configuration | Module | Property that TLC refutes |
|---|---|---|
| `BatchReader_hung.cfg` | BatchReader | `LossAlwaysStopsReader`: a lost shard does not stop a reader whose second query is never answered |
| `BatchDeleter_busy.cfg` | BatchDeleter | `CommitsUnderLoad`: offsets keep the commit timer from expiring |
| `Postgres_notexists.cfg` | MCPostgresStore | `NoRowMeansNoTimer`: a timer that is moved is said not to exist |
| `Cassandra_notexists.cfg` | CassandraStore | `NotExistsIsTrue`: a timer that was moved is said not to exist |

Why the bounds are enough to be interesting:

* ShardOwnership: three instances and four versions give a stale owner, a
  current one and a claim under way at once, and an instance that is on its
  second or third incarnation. No symmetry is used, since the run has
  liveness. A claim at `MaxVersion` is not written; its step is disabled, the
  claimer can still crash.
* Gate: four times let an `Update` be earlier than, equal to and later than
  one that is pending, due or already fired.
* Reader: two timers are the least that can overtake each other. A look-ahead
  window of 1 and 2 on a clock to 2 covers timers that are due, in the first
  window and beyond it; `Limit = 2` reads all, `Limit = 1` (delivery run) splits
  a batch. The clock stops at `Horizon`; wake-up times beyond it
  never come due. The liveness claims do not rest on them: in the delivery
  counterexample the timer left behind is due and the gate is not armed at all.
* Deleter: three timers give a gap in the completed prefix, the overlapping
  intervals make the two timers come due in either order and together. Offsets
  may come for ever, repeated, so that nothing but `Delays` in the property keeps
  them from starving a commit. The busy and the default run need one timer; the
  intervals of the latter are the defaults, 10 to 15 and 30 to 35 seconds, in units
  of five.
* ShardEngine: two processes are an owner and a superseded one that goes on;
  with three claims the same process owns the shard again, with metadata that
  may be stale. Two timers for one time are completed in either order, one of
  them may move to a later time behind the committed offset of the first. The
  clock stops at the last execution time; a lag of 1 against a minimum
  duration of 2 is the closest the configuration allows. Processes are
  interchangeable (symmetry), the run has no liveness.
* Retries: the first phase of `Do` ends by attempts, the second by attempts or by
  expiration depending on how long operations take; `MaxClock` is above the
  expiration plus the longest delay, `MaxCount` above the sum of the attempts, and
  both saturate. Three callers are a sleeper, one that waits to report and one
  that waits to sleep.
* Stores, with bounds of their own for Cassandra and DynamoDB: two timers and two times, so
  that a range holds one timer, both or none and a timer can leave it; for
  Cassandra, whose hazard is about the rows of one timer, one timer and three
  times, of which two are within a millisecond of each other and one is not. Two
  calls in flight; one for DynamoDB, whose range operation meets all the calls of
  one request. Two versions: the owner's and its successor's. Clients are
  interchangeable (symmetry), and a VIEW leaves out `last`: no step depends on
  what the last call returned, and the properties read it in the step that sets
  it.

`CHECK_DEADLOCK FALSE` is in the configurations of the systems that really stop:
a reader or deleter that was closed, and a `Do` that returned.

## Fairness

* ShardOwnership: an owner goes on calling `UpdateShardMetadata` (the deleter's
  commit loop does) and one of its calls is answered in the end. Nothing is
  assumed of claims: nobody has to take a shard over.
* GateOwner: the goroutine is scheduled and time passes. The owner need not
  receive the signal: the goroutine never blocks, its send has a default branch.
* BatchReader: `FairSpec` says that the first query ends (each attempt has
  `DatabaseAPITimeout`, and the retries expire), and that the loss branch of the
  select, ready again each time the loop is back in it, is taken in the end: Go's
  select chooses at random among the ready branches, so it is strongly fair.
  Nothing is assumed of the second query, which has neither timeout nor retry
  limit: `LossStopsReader` claims the reader stops unless it hangs there for ever,
  and `BatchReader_hung.cfg` shows that it may. `DrainedSpec`, for the delivery
  run, also lets the database answer, time pass and both goroutines run, and makes
  `Send` fair, since it asks what happens when everybody does their part.
* BatchDeleter: the loop and the clock run; strong fairness of an
  answered commit, and of a delete that removes something, says that a database
  called again and again answers in the end. It is not assumed that a commit comes
  due: each offset starts both timers anew, so that `CommitsHappen` says of an owner
  to whom offsets do not for ever come before the commit timer expires that what it
  received is committed, and `BatchDeleter_busy.cfg` shows what happens to
  others. `ReceiveNil` being fair is why a closed channel is excepted.
* Retries: operations and sleeps end. Each caller of a ConcurrentRetrier gets the
  mutex in the end (strong fairness): `sync.Mutex` hands a lock to a waiter that
  waited for a millisecond. Nothing is assumed of who calls what.

## The proofs

Every safety invariant, action property and refinement that a passing run checks
is also a theorem: the run shows it on a small instance, the theorem for every
value of the constants that the modules' assumptions allow. All theorems are
about `Spec` without its fairness. For each component the argument is an
inductive invariant, checked by TLC before it was proved, with one lemma per
action or group of actions.

**ShardOwnershipProofs** uses `OffsetAssumption`, `VersionAssumption` and
`NobodyAssumption`. The inductive invariant is

    IInv == TypeOK /\ VersionsBehind /\ VersionsUnique

Uniqueness alone is not inductive: a claim hands out `shard.version + 1`, which is
new only because every cached version is at most `shard.version`. From it follow
`TypeCorrect`, `UniqueVersions`, `CachedVersionsWritten`, and
`ImplementsFencedRegister`: every step is a step of FencedRegister or leaves
epoch, value and holder alone. The holder is a CHOOSE over live objects with the
stored version; `HolderIs` and `HolderKept` turn uniqueness into the fact that
it has one candidate, and that it only changes with a claim, a
release of the object, or a crash.

**GateOwnerProofs** proves `GateTypeCorrect`, `EarliestAlwaysArmed` and that the
gate is an alarm (`GateIsAlarm`), from `OffAssumption` and `MaxTimeAssumption`, with

    GateInv == TypeOK /\ ArmedAtWake /\ EarliestArmed

`ArmedAtWake` says that an armed timer expires at `nextWakeupTime`. It is needed
because `Update` never asks the runtime timer: it re-arms it at the field.

**BatchReaderProofs** proves `ReaderTypeCorrect`, `ReaderSkipsNothing`,
`ReaderIsArmed` and `ReaderInOrder`, for any timers, windows, limit and horizon,
failing reads or not, and with the `*DbError` defect or without it:

    RInv == TypeOK /\ GateSound /\ QueryQuiet /\ OffsetDue /\ InOrder
            /\ NoTimerSkipped /\ LookAheadArmed

* A timer is inserted for a time still to come, while the read offset is of a
  time that has come (`OffsetDue`): that is why an insertion is never behind it.
* What was sent is not after what is in `readTimers`, and neither is after the
  offset (`InOrder`), so that batches do not overtake one another. A timer may be
  handed over more than once, because a range includes its start; `ReaderInOrder`
  compares every timer that is handed over, repeated or not, with all that were
  before, so that only the last one can be repeated. That a batch cut off by the limit is a *prefix* of the range is
  `FirstOfIsPrefix` of TimerRowsProofs.
* While a query is under way nothing is left to send and the last wake-up time
  is forgotten (`QueryQuiet`); an armed timer expires at `nextWakeupTime`
  (`GateSound`), so that `Update` never postpones it (`UpdateArms`).

**BatchDeleterProofs** proves `DeletesOnlyCompleted`, `RestartIsSafe`,
`CommittedSurvives` and `DeleterTypeCorrect` from `CountAssumption` and
`IntervalAssumption`, with

    DInv == TypeOK /\ Covered(received) /\ committed <= received
            /\ OnlyCompletedDeleted /\ RestartSkipsNothing /\ CommittedIsStored

What is deleted and stored is safe only because the received offset covers
completed timers; and a commit that was applied but reported as failed leaves
`committedOffset` behind the record only because it never overtakes
`receivedOffset`. That offsets arrive in growing order is the queue's part
(`Notify`), not the deleter's.

**ShardEngineProofs** proves `EngineTypeCorrect`, `NothingIsSkipped` and, as a
step simulation of DurableTimers, `NothingIsLost`, for any number of processes,
claims and timers and any clock skew below the minimum duration, with

    EInv == TypeOK /\ Finite /\ OffsetsPassed /\ OffsetsDue /\ ListsCover

That no owner's offset skips a timer is not inductive by itself. An offset is
received, becomes the stored one later, possibly by an owner that is superseded
by then, is read by a claim, and becomes the start of a reader when the claim's
second call succeeds: `OffsetsPassed` says at each of these places that no timer
that is owed is at or before it. `OffsetsDue` says that they all are of times
that have come, which is why a timer that is put (at least `MinTimerDuration`
ahead of a clock at most `Lag` behind) is after every one of them (`PutKeeps`);
it is here that `Lag < MinTimerDuration` is used. `ListsCover` ties a reader's
offset to the list its deleter reports from. The proofs of ShardOwnership carry
over through the instance: `EngineOwnersUnique`, `EngineIsFenced`.

**RetriesProofs** proves `RetriesTypeCorrect` and `SleepersFollowFailures` (a
sleeper holds the mutex, so that no success is reported while it sleeps: the
inductive part), and under hypotheses on the policies

* `ExpirationIsAbsolute`, if the last phase expires only when all do, and none
  later (`ExpireInTime`). Otherwise a phase that never expires sleeps past the
  last one's expiration, and the next attempt is late. The invariant is that a
  sleep ends in time too (`SleepsInTime`);
* `PhasesHandOver`, if each interval has room to begin with and every phase
  but the last is ended by its attempts, or expires no earlier than the last
  (`PhasesFit`). Otherwise an earlier phase may expire first and end the retries
  for all.

Every policy the repository builds has a single phase and meets both, if the
interval has room; so do the phases of the run. The delays are recursive
functions (`Growth`, `PreviousAttempts`): that they exist and are numbers is
proved by induction over sets of numbers (`SetInduction`, `PartsExist`,
`PartsAgree`, `RecursionExists`), which needs no induction theorem with an operator
parameter.

**StoresProofs** proves everything the run Stores checks, for each of the five
stores, with any number of calls under way, any finite set of timers and times,
any limit, batch size and number of versions: `StoresTypeCorrect`,
`TimersHaveOneRow`, `StoresAreFenced`, `MovesNeverMultiply`, `DeletesDelete`,
`NotExistsIsSaidTruly`, `UpdatesStore`, `FailuresAreWhole`,
`LateTimersAreKept`. It uses `FiniteAssumption` and `VersionAssumption`. Per store
the invariant is

    StoreInv == Typed /\ OneEach(rows) /\ CallsHold /\ Answered

A call ends in one step with new rows and an answer. `Right` says what makes
such an end right in every store, `EndStep` derives all promises of the
interface from it, and each store then shows that its ends are right ones:

* Cassandra: the batch is conditional on the row that was looked up, and it is
  the timer's only row (`OneEach`), so that taking it away, or moving it, takes
  all; a timer that was inserted twice is remembered in `again`.
* MySQL, PostgreSQL: what is not a duplicate of a row, nor of another timer of
  the batch, leaves one row each (`InsertsKeep`), with an upsert in the place of
  what was there (`MovesKeeps`). PostgreSQL's update is excepted where it inserts
  without having deleted. Whatever its statements see, what they delete are rows
  that are there.
* MongoDB: that what is touched is unchanged since the snapshot makes "no
  duplicate in the snapshot" a fact of the rows of now (`MongoCommitStep`).
* DynamoDB: a put replaces, deletes are of keys that the query found.

`CallsHold` (a call without lock carries no version) is what fencing needs of a
call between its requests; `Answered` relates the last answer to the rows.

What these theorems leave out is what a store does not keep: `TimersHaveOneRow`
holds of Cassandra's timers except those it was made to create while they
existed; `NotExistsIsSaidTruly` is about MySQL and DynamoDB, since PostgreSQL and
Cassandra say NotExists of a timer that is moved (`Postgres_notexists.cfg`,
`Cassandra_notexists.cfg`) and MongoDB of one that is younger than its snapshot.
`FailuresAreWhole` does not say that a failed call wrote nothing - its answer may
have been lost - but that it wrote all it was asked to store and nothing else, or
nothing; the range delete with a limit, which several stores do in parts, is
excepted.

Only model-checked: the liveness properties (`StaleOwnerStepsDown`,
`FiringIsSignalled`, `LossStopsReader`, `CommitsHappen`, `DoReturnsAlways`,
`CallsReturn`), since fairness and ENABLED are out of the prover's reach. The
violations are counterexamples and need no proof.

## Where code and text disagree

Listed as findings, each with a violation run:

* `batch_reader.go:192`: a read that returns ready timers only leaves the gate
  unarmed. With more due timers than the limit, or a notice that woke the reader
  for an earlier timer, a timer created in time is never read, although
  REQUIREMENTS.md promises at-least-once delivery.
* `batch_reader.go:142`: `op` assigns a `*DbError` to an `error`; nil becomes
  non-nil, and every successful read is retried until it is dropped.
* `batch_deleter.go:75-79`: both timers of the select are created anew in every
  round. With the default intervals (10 s commit, 30 s delete) each commit round
  starts the delete timer from zero, and completed timers are never deleted.
* `mysql_timer_store_impl.go:260`: the version is checked by a plain SELECT, so
  a claim before the commit does not stop a superseded owner's write, contrary
  to docs/design/database-design.md. PostgreSQL and MongoDB read it in the same way.
* `postgresql_timer_store_impl.go:696`: an update to another time deletes the row
  its lookup saw, does not look whether it hit one, and inserts: a timer that
  was deleted in between comes back, and the update reports success.

Refuted by a configuration of their own:

* `batch_reader.go:215`: the second query runs on `context.Background()`, without
  the `DatabaseAPITimeout` that config/engine.go:47 describes as "the timeout for
  the database API calls"; a query that is never answered keeps the reader from
  hearing that its shard is lost (`BatchReader_hung.cfg`).
* `batch_deleter.go:75-79`, the other half: an offset starts both timers anew too.
  While offsets arrive more often than the commit interval nothing is committed
  (`BatchDeleter_busy.cfg`).
* `postgresql_timer_store_impl.go:873`: "rowsAffected == 0 means timer didn't
  exist". At READ COMMITTED a DELETE that waits for a transaction which deletes the
  row of its timer and inserts it again does not see the new row: `NotExists` of a
  timer that was there all the time, and the timer stays. The UPDATE of an update
  that keeps the time does the same (:737). `Postgres_notexists.cfg`.
* `cassandra_timer_store_impl.go:647`: a timer that was moved between lookup
  and batch (in TLC's trace by a range delete that inserts it again; an update
  does the same) is reported as `NotExists`, "the only possible failure" by the
  comment; its delete or update is not carried out (`Cassandra_notexists.cfg`).

Seen while modelling, reproduced by the modules and not made runs of their own:

* A claim caches the metadata it read before its compare-and-set; an offset
  the old owner committed in between is missing from the cache. Timers are
  read again; ShardEngine shows that none is skipped or lost.
* `isActive` of the gate is written by two goroutines without
  synchronisation; an armed gate may report itself inactive. Nothing reads it.
* `RangeGetTimers` includes its start, so that the reader reads its last timer
  again with every batch until it is deleted, and with a limit of one nothing
  else (a TODO in `db_unified_models.go:86` knows of the bound).
* `ConcurrentRetrier.Throttle` "sleeps if there were failures since the last
  success call"; the expiration runs from that call too, so that once it has
  passed nobody sleeps however many failures follow.
* MongoDB: a delete, or an update, whose transaction began before the timer was
  created answers as if it did not exist.
* `Close` of the reader, the gate and the deleter panics when called twice, and
  ownership loss calls it; the deleter never makes `closeChan`, so that its
  `Close` always panics.
* `deleteTimers` goes up to the RECEIVED offset, not the committed one
  (`batch_deleter.go:112`).
* Cassandra: a creation of an existing timer at another time makes a second row.
* DynamoDB: a range delete removes a timer that was put again at a time outside
  the range; a versioned update or delete increments the shard version and so
  fences its own caller off; a limit counts the shard record.
* The throttle delay of `ThrottleRetry.Do` may put an attempt after the
  expiration interval; `NoAttemptAfterExpiration` is claimed without throttling.

## What is not modelled

* The timer engine, queue, callback processor and membership manager have no
  implementation; reader and deleter meet them as environments that may do whatever
  the interfaces allow.
* The HTTP handlers are generated stubs without state. Configuration, logging,
  the clock wrappers and deployment hold no behaviour over time.
* Payloads, attempts, creation times, JSON and SQL text, uuid generation and
  DynamoDB's composite sort key: the properties only need an order on keys. An
  update that changes only the payload leaves `rows` as it is.
* The map of offset channels behind its mutex: nothing in the repository calls
  it yet, so there is no order of calls to check. What closing a channel does to
  its receiver is in BatchDeleter.
* `AddShard`, `RemoveShard`, `Start` and `Close` of the engine do not exist; in
  ShardEngine a shard is given up by `Crash`.
* That a timer may be called back more than once is allowed (at-least-once),
  and not counted.
* DynamoDB's limit of 100 items per transaction.
* Where a statement of MySQL stands in an index while it waits for a lock: it is
  taken to see the rows as they are when its write is applied.
* When a write of unknown outcome is applied relative to the answer (see
  TimerStore), and how often a driver repeats a request: each is a call.

## The plan

Done: ownership, gate, reader, deleter, retries, the five stores and the
composition of a shard; proofs of every safety property of every component. What
is left, in the order of what it adds:

1. **BatchReader and BatchDeleter as parts of ShardEngine**: there they are
   reduced to their effects. That the steps of BatchReader are steps of that
   reduced reader (`Read`: a prefix of what is ready, the offset at its last
   timer), and those of BatchDeleter of the reduced deleter, as step simulations.
2. **The stores as the table of ShardEngine**: that a store with one row per
   timer and fenced writes is the atomic table the composition takes for granted,
   and where PostgreSQL is not.
3. Safety halves of the liveness properties: that a loss once seen, or a due
   commit once pending, stays so until it is acted upon, which leaves only
   fairness to the model checker.
4. **TimerQueue** and **OffsetChannels**, once the repository has an
   implementation: offsets of an older ownership that arrive in the channel of a
   newer one.

The project is checked in minutes; new runs replace or absorb the smaller ones.
