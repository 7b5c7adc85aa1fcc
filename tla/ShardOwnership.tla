--------------------------- MODULE ShardOwnership ---------------------------
(***************************************************************************)
(* Ownership of one shard: the version-fenced shard record of the timer    *)
(* table (ClaimShardOwnership and UpdateShardMetadata of the stores) and   *)
(* engine/shard_ownership.go, which caches the claimed version and the     *)
(* metadata and closes the ownership-loss channel when it is fenced off.   *)
(*                                                                         *)
(* All five stores claim a shard in two database calls: an unlocked read   *)
(* of the record, then an insert-if-absent or a compare-and-set of the     *)
(* version.  UpdateShardMetadata is one conditional write that leaves the  *)
(* version alone.  A call may time out on the client after the database    *)
(* applied it, or without being applied (WriteErrors).                     *)
(***************************************************************************)
EXTENDS Integers

CONSTANTS Instance,    \* server processes that may claim the shard
          Offset,      \* committed offsets (the only field of the metadata)
          ZeroOffset,  \* the offset of a default ShardMetadata{}
          Nobody,      \* used by the refinement: no live holder
          MaxVersion,  \* bound on the number of claims explored
          WriteErrors  \* may a database write end in an error on the client?

ASSUME OffsetAssumption == ZeroOffset \in Offset
ASSUME VersionAssumption == MaxVersion \in Nat \ {0}
ASSUME NobodyAssumption == Nobody \notin Instance
ASSUME ErrorsAssumption == WriteErrors \in BOOLEAN

VARIABLES shard,   \* the shard record; version 0 stands for "no record yet"
          status,  \* what each instance is doing with the shard
          read,    \* the record an unfinished claim has read
          ver,     \* shardVersion cached by shardOwnershipImpl
          meta     \* shardMetadata cached by shardOwnershipImpl

vars == <<shard, status, read, ver, meta>>

ShardInfo == [version : Nat, metadata : Offset]

\* "lost": the ownership-loss channel is closed, the object still exists.
Status == {"none", "claiming", "owner", "lost"}

TypeOK == /\ shard \in ShardInfo
          /\ status \in [Instance -> Status]
          /\ read \in [Instance -> ShardInfo]
          /\ ver \in [Instance -> Nat]
          /\ meta \in [Instance -> Offset]

NoRecord == [version |-> 0, metadata |-> ZeroOffset]

Init == /\ shard = NoRecord
        /\ status = [i \in Instance |-> "none"]
        /\ read = [i \in Instance |-> NoRecord]
        /\ ver = [i \in Instance |-> 0]
        /\ meta = [i \in Instance |-> ZeroOffset]

\* An object of shardOwnershipImpl exists, whether or not it knows it is stale.
Live(i) == status[i] \in {"owner", "lost"}

-----------------------------------------------------------------------------
(* ClaimShardOwnership, first call: SELECT of the shard record.            *)
ClaimRead(i) ==
  /\ status[i] = "none"
  /\ status' = [status EXCEPT ![i] = "claiming"]
  /\ read' = [read EXCEPT ![i] = shard]
  /\ UNCHANGED <<shard, ver, meta>>

\* MUTANT: the claim forgets its compare-and-set condition.
ClaimAppliesAlways(i) == TRUE

(* The second call's condition: IF NOT EXISTS when no record was read,     *)
(* IF shard_version = the version read otherwise.                          *)
ClaimApplies(i) == shard.version = read[i].version

\* MUTANT: the claim writes a record without metadata.
NextRecordNoMetadata(i) == [version |-> read[i].version + 1, metadata |-> Nobody]

(* Its effect: the next version; the stored metadata is left alone.        *)
NextRecord(i) == [shard EXCEPT !.version = read[i].version + 1]

(* ClaimShardOwnership, second call, and the constructor that caches its   *)
(* answer: the metadata cached is the one READ, not the one stored now.    *)
ClaimWrite(i) ==
  /\ status[i] = "claiming"
  /\ read[i].version < MaxVersion
  /\ \/ /\ ClaimApplies(i)
        /\ shard' = NextRecord(i)
        /\ status' = [status EXCEPT ![i] = "owner"]
        /\ ver' = [ver EXCEPT ![i] = read[i].version + 1]
        /\ meta' = [meta EXCEPT ![i] = read[i].metadata]
     \/ /\ ~ClaimApplies(i)
        /\ status' = [status EXCEPT ![i] = "none"]
        /\ UNCHANGED <<shard, ver, meta>>
  /\ read' = [read EXCEPT ![i] = NoRecord]

(* The second call ends in an error: the claimer gives up, but the write   *)
(* may have been applied.                                                  *)
ClaimError(i) ==
  /\ WriteErrors
  /\ status[i] = "claiming"
  /\ read[i].version < MaxVersion
  /\ shard' \in {shard} \cup (IF ClaimApplies(i) THEN {NextRecord(i)} ELSE {})
  /\ status' = [status EXCEPT ![i] = "none"]
  /\ read' = [read EXCEPT ![i] = NoRecord]
  /\ UNCHANGED <<ver, meta>>

-----------------------------------------------------------------------------
\* MUTANT: the metadata is written without looking at the version.
MetadataUnfenced(i) == TRUE

(* The condition of UpdateShardMetadata's conditional write.               *)
MetadataApplies(i) == shard.version = ver[i]

\* MUTANT: a version mismatch is logged, and ownership is kept.
KeepOwnership(i) == UNCHANGED status

(* ReleaseOwnership: closes the ownership-loss channel, once.              *)
ReleaseOwnership(i) == status' = [status EXCEPT ![i] = "lost"]

(* UpdateShardMetadata of shardOwnershipImpl: nothing stops a caller from  *)
(* using the object after it lost the ownership.                           *)
UpdateShardMetadata(i, o) ==
  /\ Live(i)
  /\ \/ /\ MetadataApplies(i)
        /\ shard' = [shard EXCEPT !.metadata = o]
        /\ meta' = [meta EXCEPT ![i] = o]
        /\ UNCHANGED status
     \/ /\ ~MetadataApplies(i)
        /\ ReleaseOwnership(i)
        /\ UNCHANGED <<shard, meta>>
  /\ UNCHANGED <<read, ver>>

(* The same call ending in a generic error: logged, the cached metadata    *)
(* stays, and the write may have been applied.                             *)
UpdateShardMetadataError(i, o) ==
  /\ WriteErrors
  /\ Live(i)
  /\ shard' \in {shard} \cup
       (IF MetadataApplies(i) THEN {[shard EXCEPT !.metadata = o]} ELSE {})
  /\ UNCHANGED <<status, read, ver, meta>>

(* The engine gives the shard up.                                          *)
Release(i) ==
  /\ status[i] = "owner"
  /\ ReleaseOwnership(i)
  /\ UNCHANGED <<shard, read, ver, meta>>

(* The process stops at any point, or drops the object, and what it cached *)
(* is gone; it may claim again later as a new incarnation.                 *)
Crash(i) ==
  /\ status[i] # "none"
  /\ status' = [status EXCEPT ![i] = "none"]
  /\ read' = [read EXCEPT ![i] = NoRecord]
  /\ ver' = [ver EXCEPT ![i] = 0]
  /\ meta' = [meta EXCEPT ![i] = ZeroOffset]
  /\ UNCHANGED shard

InstanceStep(i) ==
  \/ ClaimRead(i)
  \/ ClaimWrite(i)
  \/ ClaimError(i)
  \/ \E o \in Offset : UpdateShardMetadata(i, o)
  \/ \E o \in Offset : UpdateShardMetadataError(i, o)
  \/ Release(i)
  \/ Crash(i)

Next == \E i \in Instance : InstanceStep(i)

Spec == Init /\ [][Next]_vars

(* The deleter's commit loop keeps calling UpdateShardMetadata, and the    *)
(* database answers in the end.                                            *)
FairSpec ==
  Spec /\ \A i \in Instance : WF_vars(\E o \in Offset : UpdateShardMetadata(i, o))

-----------------------------------------------------------------------------
(* No two live ownership objects ever hold the same version, although the  *)
(* claim reads and writes in two calls, may be applied and reported as     *)
(* failed, and instances restart: the compare-and-set of                   *)
(* ClaimShardOwnership is what separates them.                             *)
VersionsUnique ==
  \A i, j \in Instance : Live(i) /\ Live(j) /\ ver[i] = ver[j] => i = j

(* No cached version is ahead of the stored one: a version is only handed  *)
(* out after it was written.                                               *)
VersionsBehind == \A i \in Instance : Live(i) => ver[i] \in 1 .. shard.version

\* The live object whose version is the stored one, if there is one.
Holder == IF \E i \in Instance : Live(i) /\ ver[i] = shard.version
          THEN CHOOSE i \in Instance : Live(i) /\ ver[i] = shard.version
          ELSE Nobody

Register == INSTANCE FencedRegister
              WITH epoch <- shard.version, value <- shard.metadata, holder <- Holder

(* The two-call claim and the conditional writes implement the fenced      *)
(* register: the committed offset only ever changes by the hand of the     *)
(* instance whose claim made the current version, a claim keeps the        *)
(* metadata, and a superseded or restarted owner never writes again.       *)
Fencing == Register!Spec

(* An owner that was superseded, and goes on committing, learns of it and  *)
(* closes its ownership-loss channel (or stops).                           *)
StaleOwnerStepsDown ==
  \A i \in Instance :
    (status[i] = "owner" /\ ver[i] < shard.version) ~> (status[i] # "owner")
=============================================================================
