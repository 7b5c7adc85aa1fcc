------------------------ MODULE ShardOwnershipProofs ------------------------
(***************************************************************************)
(* Proofs about ShardOwnership, for every set of instances, every set of   *)
(* offsets and every bound on the versions.                                *)
(***************************************************************************)
EXTENDS ShardOwnership, TLAPS

(* The inductive invariant.  Uniqueness alone is not inductive: a claim    *)
(* hands out shard.version + 1, which is new only because every cached     *)
(* version is at most shard.version.                                       *)
IInv == TypeOK /\ VersionsBehind /\ VersionsUnique

(* No step of the claim protocol, faults and restarts included, leaves the *)
(* types of the record and of the caches.                                  *)
LEMMA TypeStep == TypeOK /\ [Next]_vars => TypeOK'
<1> SUFFICES ASSUME TypeOK, [Next]_vars PROVE TypeOK'
  OBVIOUS
<1> USE OffsetAssumption DEF TypeOK, ShardInfo, Status, NoRecord
<1>1. ASSUME NEW i \in Instance, InstanceStep(i) PROVE TypeOK'
  <2>1. CASE ClaimRead(i)
    BY <2>1 DEF ClaimRead
  <2>2. CASE ClaimWrite(i)
    BY <2>2 DEF ClaimWrite, NextRecord
  <2>3. CASE ClaimError(i)
    BY <2>3 DEF ClaimError, NextRecord
  <2>4. ASSUME NEW o \in Offset, UpdateShardMetadata(i, o) PROVE TypeOK'
    BY <2>4 DEF UpdateShardMetadata, ReleaseOwnership
  <2>5. ASSUME NEW o \in Offset, UpdateShardMetadataError(i, o) PROVE TypeOK'
    BY <2>5 DEF UpdateShardMetadataError
  <2>6. CASE Release(i)
    BY <2>6 DEF Release, ReleaseOwnership
  <2>7. CASE Crash(i)
    BY <2>7 DEF Crash
  <2>8. QED
    BY <1>1, <2>1, <2>2, <2>3, <2>4, <2>5, <2>6, <2>7 DEF InstanceStep
<1>2. CASE UNCHANGED vars
  BY <1>2 DEF vars
<1>3. QED
  BY <1>1, <1>2 DEF Next

(* Every step keeps the inductive invariant: only a successful second call *)
(* of a claim creates a live version, and it is above all the others.      *)
LEMMA IInvStep == IInv /\ [Next]_vars => IInv'
<1> SUFFICES ASSUME IInv, [Next]_vars PROVE IInv'
  OBVIOUS
<1>1. TypeOK /\ TypeOK'
  BY TypeStep DEF IInv
<1>2. VersionsBehind /\ VersionsUnique
  BY DEF IInv
<1> USE <1>1 DEF TypeOK, ShardInfo
<1>3. ASSUME NEW i \in Instance, InstanceStep(i)
      PROVE VersionsBehind' /\ VersionsUnique'
  <2>1. CASE ClaimWrite(i)
    <3>1. CASE ClaimApplies(i) /\ shard' = NextRecord(i)
               /\ status' = [status EXCEPT ![i] = "owner"]
               /\ ver' = [ver EXCEPT ![i] = read[i].version + 1]
      <4>1. shard'.version = shard.version + 1 /\ ver'[i] = shard.version + 1
        BY <3>1 DEF ClaimApplies, NextRecord
      <4>2. \A j \in Instance : j # i =>
               (Live(j)' <=> Live(j)) /\ ver'[j] = ver[j]
        BY <3>1 DEF Live
      <4>3. \A j \in Instance : j # i /\ Live(j)' => ver'[j] \in 1 .. shard.version
        BY <1>2, <4>2 DEF VersionsBehind
      <4>4. VersionsBehind'
        BY <4>1, <4>3 DEF VersionsBehind
      <4>5. VersionsUnique'
        BY <1>2, <4>1, <4>2, <4>3 DEF VersionsUnique
      <4>6. QED
        BY <4>4, <4>5
    <3>2. CASE status' = [status EXCEPT ![i] = "none"] /\ UNCHANGED <<shard, ver, meta>>
      BY <1>2, <3>2 DEF VersionsBehind, VersionsUnique, Live
    <3>3. QED
      BY <2>1, <3>1, <3>2 DEF ClaimWrite
  <2>2. CASE ClaimRead(i) \/ ClaimError(i) \/ Release(i) \/ Crash(i)
             \/ (\E o \in Offset : UpdateShardMetadata(i, o))
             \/ (\E o \in Offset : UpdateShardMetadataError(i, o))
    <3>1. /\ shard'.version >= shard.version
          /\ \A j \in Instance : Live(j)' => ver'[j] = ver[j]
      BY <2>2 DEF Live, ClaimRead, ClaimError, Release, Crash, UpdateShardMetadata,
                  UpdateShardMetadataError, ReleaseOwnership, ClaimApplies, NextRecord
    <3>2. \A j \in Instance : Live(j)' => Live(j)
      BY <2>2 DEF ClaimRead, ClaimError, Release, Crash, UpdateShardMetadata,
                  UpdateShardMetadataError, ReleaseOwnership, Live
    <3>3. QED
      BY <1>2, <3>1, <3>2 DEF VersionsBehind, VersionsUnique
  <2>3. QED
    BY <1>3, <2>1, <2>2 DEF InstanceStep
<1>4. CASE UNCHANGED vars
  BY <1>1, <1>2, <1>4 DEF IInv, vars, VersionsBehind, VersionsUnique, Live
<1>5. QED
  BY <1>1, <1>3, <1>4 DEF Next, IInv

(* No shard record, no owner.                                              *)
LEMMA IInvInit == Init => IInv
BY OffsetAssumption DEF Init, IInv, TypeOK, ShardInfo, Status, NoRecord,
   VersionsBehind, VersionsUnique, Live

(* The shard record and the caches of every instance always have their     *)
(* types.                                                                  *)
THEOREM TypeCorrect == Spec => []TypeOK
<1>1. IInv => TypeOK
  BY DEF IInv
<1>2. QED
  BY <1>1, IInvInit, IInvStep, PTL DEF Spec

(* No two live owners of the shard hold the same version, however many     *)
(* instances race, time out and restart.                                   *)
THEOREM UniqueVersions == Spec => []VersionsUnique
<1>1. IInv => VersionsUnique
  BY DEF IInv
<1>2. QED
  BY <1>1, IInvInit, IInvStep, PTL DEF Spec

(* No owner ever holds a version that was not written to the record.       *)
THEOREM CachedVersionsWritten == Spec => []VersionsBehind
<1>1. IInv => VersionsBehind
  BY DEF IInv
<1>2. QED
  BY <1>1, IInvInit, IInvStep, PTL DEF Spec

-----------------------------------------------------------------------------
(* A live object with the stored version is the holder: by uniqueness the  *)
(* CHOOSE in Holder has one candidate.                                     *)
LEMMA HolderIs ==
  ASSUME VersionsUnique, NEW i \in Instance, Live(i), ver[i] = shard.version
  PROVE  Holder = i
BY DEF Holder, VersionsUnique

(* The same about the state after a step.                                  *)
LEMMA HolderIsNext ==
  ASSUME VersionsUnique', NEW i \in Instance, Live(i)', ver'[i] = shard'.version
  PROVE  Holder' = i
BY DEF Holder, VersionsUnique

(* A step that changes no version and no live object keeps the holder.     *)
LEMMA HolderKept ==
  ASSUME VersionsUnique, VersionsUnique', ver' = ver, shard'.version = shard.version,
         \A j \in Instance : Live(j)' <=> Live(j)
  PROVE  Holder' = Holder
<1>1. CASE \E j \in Instance : Live(j) /\ ver[j] = shard.version
  <2>1. PICK j \in Instance : Live(j) /\ ver[j] = shard.version
    BY <1>1
  <2>2. QED
    BY <2>1, HolderIs, HolderIsNext
<1>2. CASE ~ \E j \in Instance : Live(j) /\ ver[j] = shard.version
  BY <1>2 DEF Holder
<1>3. QED
  BY <1>1, <1>2

(* Every step of the protocol is a step of the fenced register, or leaves  *)
(* epoch, value and holder alone.                                          *)
LEMMA RegisterStep ==
  IInv /\ IInv' /\ [Next]_vars => [Register!Next]_(Register!vars)
<1> SUFFICES ASSUME IInv, IInv', [Next]_vars
             PROVE  [Register!Next]_(Register!vars)
  OBVIOUS
<1>1. /\ TypeOK /\ VersionsBehind /\ VersionsUnique
      /\ TypeOK' /\ VersionsBehind' /\ VersionsUnique'
  BY DEF IInv
<1> USE DEF Register!Next, Register!vars
<1>2. ASSUME NEW i \in Instance, InstanceStep(i)
      PROVE [Register!Next]_(Register!vars)
  <2>1. CASE ClaimRead(i)
    <3>1. Holder' = Holder
      BY <1>1, <2>1, HolderKept DEF ClaimRead, Live, TypeOK
    <3>2. QED
      BY <2>1, <3>1 DEF ClaimRead
  <2>2. CASE ClaimWrite(i)
    <3>1. CASE ClaimApplies(i) /\ shard' = NextRecord(i)
               /\ status' = [status EXCEPT ![i] = "owner"]
               /\ ver' = [ver EXCEPT ![i] = read[i].version + 1]
      <4>1. /\ shard'.version = shard.version + 1
            /\ shard'.metadata = shard.metadata
            /\ ver'[i] = shard'.version /\ Live(i)'
        BY <1>1, <3>1 DEF ClaimApplies, NextRecord, TypeOK, ShardInfo, Live
      <4>2. Holder' = i
        BY <1>1, <4>1, HolderIsNext
      <4>3. Register!Acquire(i)
        BY <4>1, <4>2 DEF Register!Acquire
      <4>4. QED
        BY <4>3
    <3>2. CASE status' = [status EXCEPT ![i] = "none"] /\ UNCHANGED <<shard, ver, meta>>
      <4>1. Holder' = Holder
        BY <1>1, <2>2, <3>2, HolderKept DEF ClaimWrite, Live, TypeOK
      <4>2. QED
        BY <3>2, <4>1
    <3>3. QED
      BY <2>2, <3>1, <3>2 DEF ClaimWrite
  <2>3. CASE ClaimError(i)
    <3>1. \A j \in Instance : Live(j)' <=> Live(j)
      BY <1>1, <2>3 DEF ClaimError, Live, TypeOK
    <3>2. CASE shard' = shard
      <4>1. Holder' = Holder
        BY <1>1, <2>3, <3>1, <3>2, HolderKept DEF ClaimError
      <4>2. QED
        BY <3>2, <4>1
    <3>3. CASE ClaimApplies(i) /\ shard' = NextRecord(i)
      <4>1. shard'.version = shard.version + 1 /\ shard'.metadata = shard.metadata
        BY <1>1, <3>3 DEF ClaimApplies, NextRecord, TypeOK, ShardInfo
      <4>2. \A j \in Instance : Live(j)' => ver'[j] \in 1 .. shard.version
        BY <1>1, <2>3, <3>1 DEF ClaimError, VersionsBehind
      <4>3. \A j \in Instance : Live(j)' => ver'[j] # shard'.version
        BY <1>1, <4>1, <4>2 DEF TypeOK, ShardInfo
      <4>4. Holder' = Nobody
        BY <4>3 DEF Holder
      <4>5. Register!Acquire(Nobody)
        BY <4>1, <4>4 DEF Register!Acquire
      <4>6. QED
        BY <4>5
    <3>4. QED
      BY <2>3, <3>2, <3>3 DEF ClaimError
  <2>4. ASSUME NEW o \in Offset, UpdateShardMetadata(i, o)
        PROVE [Register!Next]_(Register!vars)
    <3>1. /\ shard'.version = shard.version /\ ver' = ver
          /\ \A j \in Instance : Live(j)' <=> Live(j)
      BY <1>1, <2>4 DEF UpdateShardMetadata, ReleaseOwnership, Live, TypeOK, ShardInfo
    <3>2. Holder' = Holder
      BY <1>1, <3>1, HolderKept
    <3>3. CASE MetadataApplies(i) /\ shard' = [shard EXCEPT !.metadata = o]
      <4>1. Holder = i
        BY <1>1, <2>4, <3>3, HolderIs DEF UpdateShardMetadata, MetadataApplies
      <4>2. shard'.metadata = o
        BY <1>1, <3>3 DEF TypeOK, ShardInfo
      <4>3. Register!Write(i, o)
        BY <3>1, <3>2, <4>1, <4>2 DEF Register!Write
      <4>4. QED
        BY <4>3
    <3>4. CASE shard' = shard
      BY <3>2, <3>4
    <3>5. QED
      BY <2>4, <3>3, <3>4 DEF UpdateShardMetadata
  <2>5. ASSUME NEW o \in Offset, UpdateShardMetadataError(i, o)
        PROVE [Register!Next]_(Register!vars)
    <3>1. /\ shard'.version = shard.version /\ ver' = ver
          /\ \A j \in Instance : Live(j)' <=> Live(j)
      BY <1>1, <2>5 DEF UpdateShardMetadataError, Live, TypeOK, ShardInfo
    <3>2. Holder' = Holder
      BY <1>1, <3>1, HolderKept
    <3>3. CASE MetadataApplies(i) /\ shard' = [shard EXCEPT !.metadata = o]
      <4>1. Holder = i
        BY <1>1, <2>5, <3>3, HolderIs DEF UpdateShardMetadataError, MetadataApplies
      <4>2. shard'.metadata = o
        BY <1>1, <3>3 DEF TypeOK, ShardInfo
      <4>3. Register!Write(i, o)
        BY <3>1, <3>2, <4>1, <4>2 DEF Register!Write
      <4>4. QED
        BY <4>3
    <3>4. CASE shard' = shard
      BY <3>2, <3>4
    <3>5. QED
      BY <2>5, <3>3, <3>4 DEF UpdateShardMetadataError
  <2>6. CASE Release(i)
    <3>1. Holder' = Holder
      BY <1>1, <2>6, HolderKept DEF Release, ReleaseOwnership, Live, TypeOK
    <3>2. QED
      BY <2>6, <3>1 DEF Release
  <2>7. CASE Crash(i)
    <3>1. \A j \in Instance : j # i => (Live(j)' <=> Live(j))
      BY <1>1, <2>7 DEF Crash, Live, TypeOK
    <3>2. ~Live(i)'
      BY <1>1, <2>7 DEF Crash, Live, TypeOK
    <3>3. CASE \E j \in Instance : j # i /\ Live(j) /\ ver[j] = shard.version
      <4>1. PICK j \in Instance : j # i /\ Live(j) /\ ver[j] = shard.version
        BY <3>3
      <4>2. Holder = j /\ Holder' = j
        BY <1>1, <2>7, <3>1, <4>1, HolderIs, HolderIsNext DEF Crash
      <4>3. QED
        BY <2>7, <4>2 DEF Crash
    <3>4. CASE ~ \E j \in Instance : j # i /\ Live(j) /\ ver[j] = shard.version
      <4>1. ~ \E j \in Instance : Live(j)' /\ ver'[j] = shard'.version
        BY <2>7, <3>1, <3>2, <3>4 DEF Crash
      <4>2. Holder' = Nobody
        BY <4>1 DEF Holder
      <4>3. Register!Drop
        BY <2>7, <4>2 DEF Crash, Register!Drop
      <4>4. QED
        BY <4>3
    <3>5. QED
      BY <3>3, <3>4
  <2>8. QED
    BY <1>2, <2>1, <2>2, <2>3, <2>4, <2>5, <2>6, <2>7 DEF InstanceStep
<1>3. CASE UNCHANGED vars
  <2>1. Holder' = Holder
    BY <1>1, <1>3, HolderKept DEF vars, Live
  <2>2. QED
    BY <1>3, <2>1 DEF vars
<1>4. QED
  BY <1>2, <1>3 DEF Next

(* The record without a claim is the register without an epoch.            *)
LEMMA RegisterInit == Init => Register!Init
BY DEF Init, Register!Init, NoRecord, Holder, Live

(* Two database calls per claim and one per commit are enough for fencing: *)
(* the protocol implements the register only its current holder can write. *)
THEOREM ImplementsFencedRegister == Spec => Fencing
BY RegisterInit, RegisterStep, IInvInit, IInvStep, PTL DEF Spec, Fencing, Register!Spec
=============================================================================
