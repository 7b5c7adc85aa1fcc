-------------------------- MODULE ShardEngineProofs --------------------------
(***************************************************************************)
(* Proofs about ShardEngine, for every set of processes, every set of      *)
(* timers, every batch limit and every skew of the clocks below            *)
(* MinTimerDuration.  What ShardOwnershipProofs proves of the claims and   *)
(* conditional writes is used here, as they are the same steps.            *)
(***************************************************************************)
EXTENDS ShardEngine, TimerRowsProofs

OwnProofs == INSTANCE ShardOwnershipProofs

\* No timer that is owed is at or before k.
Passed(k) == \A r \in Owed : Before(k, r)

NotAhead(k) == k.at <= now

(* Whatever an owner may start from, or delete up to, has passed no timer  *)
(* that is owed: the stored offset, one read by a claim under way, and     *)
(* what each deleter received.                                             *)
OffsetsPassed ==
  /\ Passed(shard.metadata)
  /\ \A i \in Instance : Passed(read[i].metadata) /\ Passed(engine[i].recv)

(* They are of times that have come: a timer is accepted only for a later  *)
(* one, so that no offset passes a timer that is not there yet.            *)
OffsetsDue ==
  /\ NotAhead(shard.metadata)
  /\ \A i \in Instance :
       NotAhead(read[i].metadata) /\ NotAhead(engine[i].recv) /\ NotAhead(engine[i].off)
  /\ \A r \in done : NotAhead(r)

(* A list holds what its reader is past, and all of it that is owed.       *)
ListsCover ==
  \A i \in Instance :
    /\ \A r \in engine[i].list : NotAfter(r, engine[i].off)
    /\ engine[i].fin \subseteq engine[i].list
    /\ \A r \in Owed : NotAfter(r, engine[i].off) => r \in engine[i].list \ engine[i].fin

(* The table and the lists are finite: they have a first row and a last.   *)
Finite == IsFiniteSet(rows) /\ \A i \in Instance : IsFiniteSet(engine[i].list)

(* The inductive invariant.  NothingSkipped alone is not inductive: an     *)
(* offset becomes the stored one long after it was received, and the start *)
(* of a new reader long after it was read.                                 *)
EInv == TypeOK /\ Finite /\ OffsetsPassed /\ OffsetsDue /\ ListsCover

-----------------------------------------------------------------------------
(* Offsets are keys.                                                       *)
LEMMA OffsetsAreKeys ==
  /\ Offset \subseteq AnyKey /\ Timer \subseteq AnyKey
  /\ \A r \in Timer : Before(ZeroOffset, r)
BY TimerAssumption, TimeAssumption DEF Offset, ZeroOffset, AnyKey, Key, Before

(* The steps of the ownership protocol are those of the module that        *)
(* ShardOwnershipProofs is about.                                          *)
LEMMA SameProtocol ==
  /\ OwnProofs!TypeOK <=> Own!TypeOK
  /\ \A i \in Instance : OwnProofs!InstanceStep(i) <=> Own!InstanceStep(i)
<1>1. OwnProofs!TypeOK <=> Own!TypeOK
  BY DEF Own!TypeOK, OwnProofs!TypeOK, Own!ShardInfo, OwnProofs!ShardInfo,
         Own!Status, OwnProofs!Status
<1>2. ASSUME NEW i \in Instance
      PROVE  OwnProofs!InstanceStep(i) <=> Own!InstanceStep(i)
  BY DEF Own!InstanceStep, OwnProofs!InstanceStep, Own!ClaimRead, OwnProofs!ClaimRead,
         Own!ClaimWrite, OwnProofs!ClaimWrite, Own!ClaimError, OwnProofs!ClaimError,
         Own!UpdateShardMetadata, OwnProofs!UpdateShardMetadata,
         Own!UpdateShardMetadataError, OwnProofs!UpdateShardMetadataError,
         Own!Release, OwnProofs!Release, Own!Crash, OwnProofs!Crash,
         Own!NoRecord, OwnProofs!NoRecord, Own!Live, OwnProofs!Live,
         Own!NextRecord, OwnProofs!NextRecord, Own!ClaimApplies, OwnProofs!ClaimApplies,
         Own!MetadataApplies, OwnProofs!MetadataApplies,
         Own!ReleaseOwnership, OwnProofs!ReleaseOwnership
<1>3. QED
  BY <1>1, <1>2

(* What an instance does with the shard record is a step of the ownership  *)
(* protocol; the rest leaves the protocol's variables alone.               *)
LEMMA ProtocolStep ==
  ASSUME TypeOK, [Next]_vars
  PROVE  (\E i \in Instance : Own!InstanceStep(i)) \/ UNCHANGED ownership
<1>1. ASSUME NEW i \in Instance, InstanceStep(i)
      PROVE  Own!InstanceStep(i) \/ UNCHANGED ownership
  <2>1. CASE ClaimRead(i) \/ ClaimWrite(i) \/ ClaimError(i) \/ Crash(i)
    BY <2>1 DEF ClaimRead, ClaimWrite, ClaimError, Crash, Own!InstanceStep
  <2>2. CASE commitOffset(i)
    <3>1. engine[i].recv \in Offset
      BY DEF TypeOK, Engine
    <3>2. QED
      BY <2>2, <3>1 DEF commitOffset, Own!InstanceStep
  <2>3. ASSUME NEW t \in Clock, Read(i, t) PROVE UNCHANGED ownership
    BY <2>3 DEF Read
  <2>4. ASSUME NEW r \in Timer, Complete(i, r) \/ Notify(i, r) PROVE UNCHANGED ownership
    BY <2>4 DEF Complete, Notify
  <2>5. CASE deleteTimers(i)
    BY <2>5 DEF deleteTimers
  <2>6. QED
    BY <1>1, <2>1, <2>2, <2>3, <2>4, <2>5 DEF InstanceStep
<1>2. ASSUME NEW r \in Timer, Put(r) PROVE UNCHANGED ownership
  BY <1>2 DEF Put
<1>3. CASE Tick \/ UNCHANGED vars
  BY <1>3 DEF Tick, vars
<1>4. QED
  BY <1>1, <1>2, <1>3 DEF Next

(* The parameters are as the ownership protocol assumes.                   *)
LEMMA ProtocolAssumptions == ZeroOffset \in Offset /\ MaxVersion \in Nat \ {0}
                             /\ Nobody \notin Instance /\ WriteErrors \in BOOLEAN
BY OwnershipAssumption DEF Offset

(* The types of the protocol are kept: proved in ShardOwnershipProofs.     *)
LEMMA ProtocolTypeStep == TypeOK /\ [Next]_vars => Own!TypeOK'
<1> SUFFICES ASSUME TypeOK, [Next]_vars PROVE Own!TypeOK'
  OBVIOUS
<1>1. OwnProofs!TypeOK /\ [OwnProofs!Next]_(OwnProofs!vars)
  <2>1. OwnProofs!TypeOK
    BY SameProtocol DEF TypeOK
  <2>2. CASE \E i \in Instance : Own!InstanceStep(i)
    BY <2>1, <2>2, SameProtocol DEF OwnProofs!Next
  <2>3. CASE UNCHANGED ownership
    BY <2>1, <2>3 DEF OwnProofs!vars, ownership
  <2>4. QED
    BY <2>2, <2>3, ProtocolStep
<1>2. OwnProofs!TypeOK'
  BY <1>1, OwnProofs!TypeStep, ProtocolAssumptions
<1>3. QED
  BY <1>2 DEF Own!TypeOK, OwnProofs!TypeOK, Own!ShardInfo, OwnProofs!ShardInfo,
              Own!Status, OwnProofs!Status

-----------------------------------------------------------------------------
(* What a read finds at clock t: a finite set of rows at or after the      *)
(* offset, all there is up to the last of them.                            *)
LEMMA ReadyIsAll ==
  ASSUME TypeOK, Finite, NEW i \in Instance, NEW t \in Clock, Ready(i, t) # {}
  PROVE  /\ Ready(i, t) \subseteq rows /\ IsFiniteSet(Ready(i, t))
         /\ OffsetAfter(i, t) \in Ready(i, t)
         /\ \A r \in Ready(i, t) : /\ NotAfter(engine[i].off, r)
                                   /\ NotAfter(r, OffsetAfter(i, t))
                                   /\ r.at <= t
         /\ \A r \in rows : NotAfter(engine[i].off, r) /\ NotAfter(r, OffsetAfter(i, t))
                              => r \in Ready(i, t)
<1> DEFINE end == EndOf(t + MinLookAhead)
           inRange == Between(rows, engine[i].off, end)
           got == FirstOf(inRange, Limit)
           o == OffsetAfter(i, t)
<1>1. engine[i].off \in AnyKey /\ rows \subseteq AnyKey /\ t \in Int /\ end \in AnyKey
  <2>1. now \in Int /\ t \in Int /\ t + MinLookAhead \in Int /\ MaxId \in Int
    BY ClocksAssumption, TimeAssumption DEF TypeOK, Clock
  <2>2. QED
    BY <2>1, OffsetsAreKeys DEF TypeOK, Engine, EndOf, AnyKey, Key
<1>2. inRange \subseteq rows /\ IsFiniteSet(inRange)
  BY FS_Subset DEF Between, Finite
<1>3. /\ got \subseteq inRange
      /\ \A r \in got, q \in inRange : Before(q, r) => q \in got
  BY <1>1, <1>2, FirstOfIsPrefix, TimeAssumption
<1>4. Ready(i, t) = {r \in got : r.at <= t}
  BY DEF Ready, RangeGet
<1>5. Ready(i, t) \subseteq rows /\ IsFiniteSet(Ready(i, t))
  BY <1>2, <1>3, <1>4, FS_Subset
<1>6. o \in Ready(i, t) /\ \A r \in Ready(i, t) : NotAfter(r, o)
  BY <1>1, <1>5, LastIsLast DEF OffsetAfter
<1>7. ASSUME NEW r \in rows, NotAfter(engine[i].off, r), NotAfter(r, o)
      PROVE  r \in Ready(i, t)
  <2>1. o \in inRange /\ NotAfter(o, end) /\ o.at <= t /\ o \in got
    BY <1>3, <1>4, <1>6 DEF Between
  <2>2. r \in inRange
    BY <1>1, <1>2, <1>7, <2>1, KeyTransitive DEF Between
  <2>3. r \in got
    BY <1>1, <1>2, <1>3, <1>7, <2>1, <2>2, KeyOrder
  <2>4. r.at <= t
    BY <1>1, <1>2, <1>7, <2>1 DEF NotAfter, AnyKey, Key
  <2>5. QED
    BY <1>4, <2>3, <2>4
<1>8. \A r \in Ready(i, t) : NotAfter(engine[i].off, r) /\ r.at <= t
  BY <1>3, <1>4 DEF Between
<1>9. QED
  BY <1>5, <1>6, <1>7, <1>8

(* No step of any process, caller or clock leaves the types.               *)
LEMMA EngineTypeStep == TypeOK /\ Finite /\ [Next]_vars => TypeOK' /\ Finite'
<1> SUFFICES ASSUME TypeOK, Finite, [Next]_vars PROVE TypeOK' /\ Finite'
  OBVIOUS
<1>1. Own!TypeOK'
  BY ProtocolTypeStep
<1> DEFINE Rest == /\ now' \in 0 .. MaxTime
                   /\ rows' \subseteq Timer /\ done' \subseteq rows'
                   /\ IsFiniteSet(rows')
                   /\ engine' \in [Instance -> Engine]
                   /\ \A i \in Instance : IsFiniteSet(engine'[i].list)
<1> SUFFICES Rest
  BY <1>1 DEF TypeOK, Finite
<1>2. Own!TypeOK /\ now \in 0 .. MaxTime /\ rows \subseteq Timer /\ done \subseteq rows
      /\ IsFiniteSet(rows) /\ engine \in [Instance -> Engine]
      /\ \A i \in Instance : IsFiniteSet(engine[i].list)
  BY DEF TypeOK, Finite
<1>3. \A o \in Offset : NewEngine(o) \in Engine /\ IsFiniteSet(NewEngine(o).list)
  BY FS_EmptySet DEF NewEngine, Engine, Offset
<1>4. ASSUME NEW i \in Instance, InstanceStep(i) PROVE Rest
  <2>1. CASE ClaimRead(i) \/ ClaimError(i) \/ commitOffset(i)
    BY <1>2, <2>1 DEF ClaimRead, ClaimError, commitOffset, store
  <2>2. CASE ClaimWrite(i)
    <3>1. meta'[i] \in Offset
      BY <1>1 DEF Own!TypeOK
    <3>2. QED
      BY <1>2, <1>3, <2>2, <3>1 DEF ClaimWrite, store
  <2>3. CASE Crash(i)
    BY <1>2, <1>3, <2>3, ProtocolAssumptions DEF Crash, store
  <2>4. ASSUME NEW t \in Clock, Read(i, t) PROVE Rest
    <3>1. Ready(i, t) \subseteq Timer /\ IsFiniteSet(Ready(i, t)) /\ OffsetAfter(i, t) \in Offset
      BY <1>2, <2>4, ReadyIsAll DEF Read, Offset
    <3>2. IsFiniteSet(engine[i].list \cup Ready(i, t))
      BY <1>2, <3>1, FS_Union
    <3>3. engine'[i].list = engine[i].list \cup Ready(i, t)
          /\ engine'[i] \in Engine
          /\ engine' = [engine EXCEPT ![i] = engine'[i]]
      BY <1>2, <2>4, <3>1 DEF Read, Engine
    <3>4. QED
      BY <1>2, <2>4, <3>2, <3>3 DEF Read, store
  <2>5. ASSUME NEW r \in Timer, Complete(i, r) PROVE Rest
    BY <1>2, <2>5 DEF Complete, Engine
  <2>6. ASSUME NEW r \in Timer, Notify(i, r) PROVE Rest
    <3>1. IsFiniteSet(engine[i].list \ {r})
      BY <1>2, FS_RemoveElement
    <3>2. engine'[i].list = engine[i].list \ {r}
          /\ engine'[i] \in Engine
          /\ engine' = [engine EXCEPT ![i] = engine'[i]]
      BY <1>2, <2>6 DEF Notify, Engine, Offset
    <3>3. QED
      BY <1>2, <2>6, <3>1, <3>2 DEF Notify, store
  <2>7. CASE deleteTimers(i)
    <3>1. rows' \subseteq rows /\ done' \subseteq rows' /\ UNCHANGED <<now, engine>>
      BY <2>7 DEF deleteTimers
    <3>2. QED
      BY <1>2, <3>1, FS_Subset
  <2>8. QED
    BY <1>4, <2>1, <2>2, <2>3, <2>4, <2>5, <2>6, <2>7 DEF InstanceStep
<1>5. ASSUME NEW r \in Timer, Put(r) PROVE Rest
  <2>1. rows' \subseteq rows \cup {r} /\ done' \subseteq rows' /\ UNCHANGED <<now, engine>>
    BY <1>5 DEF Put
  <2>2. IsFiniteSet(rows \cup {r})
    BY <1>2, FS_AddElement
  <2>3. QED
    BY <1>2, <2>1, <2>2, FS_Subset
<1>6. CASE Tick
  BY <1>2, <1>6, TimeAssumption DEF Tick
<1>7. CASE UNCHANGED vars
  BY <1>2, <1>7 DEF vars, store
<1>8. QED
  BY <1>4, <1>5, <1>6, <1>7 DEF Next

-----------------------------------------------------------------------------
(* What claims, crashes and commits do to the offsets: the stored one may  *)
(* become one that was received, a new engine starts from one that was     *)
(* read, and a claim reads the stored one.                                 *)
LEMMA OwnershipEffect ==
  ASSUME EInv, NEW i \in Instance,
         ClaimRead(i) \/ ClaimWrite(i) \/ ClaimError(i) \/ Crash(i) \/ commitOffset(i)
  PROVE  /\ UNCHANGED store
         /\ shard'.metadata \in {shard.metadata, engine[i].recv}
         /\ \A j \in Instance :
              /\ read'[j].metadata \in {read[j].metadata, shard.metadata, ZeroOffset}
              /\ \/ engine'[j] = engine[j]
                 \/ \E o \in {ZeroOffset, read[j].metadata} : engine'[j] = NewEngine(o)
<1>1. /\ shard \in [version : Nat, metadata : Offset]
      /\ read \in [Instance -> [version : Nat, metadata : Offset]]
      /\ status \in [Instance -> {"none", "claiming", "owner", "lost"}]
      /\ meta \in [Instance -> Offset] /\ engine \in [Instance -> Engine]
  BY DEF EInv, TypeOK, Own!TypeOK, Own!ShardInfo, Own!Status
<1>2. CASE ClaimRead(i)
  BY <1>1, <1>2 DEF ClaimRead, Own!ClaimRead
<1>3. CASE ClaimWrite(i)
  <2>1. read' = [read EXCEPT ![i] = Own!NoRecord] /\ UNCHANGED store
    BY <1>3 DEF ClaimWrite, Own!ClaimWrite
  <2>2. CASE /\ shard' = Own!NextRecord(i)
             /\ meta' = [meta EXCEPT ![i] = read[i].metadata]
    BY <1>1, <1>3, <2>1, <2>2 DEF ClaimWrite, Own!NextRecord, Own!NoRecord
  <2>3. CASE status' = [status EXCEPT ![i] = "none"] /\ UNCHANGED shard
    <3>1. ~Own!Live(i)'
      BY <1>1, <2>3 DEF Own!Live
    <3>2. engine' = engine
      BY <1>1, <1>3, <3>1 DEF ClaimWrite
    <3>3. QED
      BY <1>1, <2>1, <2>3, <3>2 DEF Own!NoRecord
  <2>4. QED
    BY <1>3, <2>2, <2>3 DEF ClaimWrite, Own!ClaimWrite
<1>4. CASE ClaimError(i)
  BY <1>1, <1>4 DEF ClaimError, Own!ClaimError, Own!NextRecord, Own!NoRecord
<1>5. CASE Crash(i)
  BY <1>1, <1>5 DEF Crash, Own!Crash, Own!NoRecord
<1>6. CASE commitOffset(i)
  <2>1. UNCHANGED <<store, engine, read>>
    BY <1>6 DEF commitOffset, Own!UpdateShardMetadata, Own!UpdateShardMetadataError
  <2>2. shard' \in {shard, [shard EXCEPT !.metadata = engine[i].recv]}
    BY <1>6 DEF commitOffset, Own!UpdateShardMetadata, Own!UpdateShardMetadataError
  <2>3. QED
    BY <1>1, <2>1, <2>2
<1>7. QED
  BY <1>2, <1>3, <1>4, <1>5, <1>6

\* The parts of the invariant that are about rows and offsets.
Covers == OffsetsPassed /\ OffsetsDue /\ ListsCover

(* Claims, crashes and commits keep them: the engine a claim creates       *)
(* starts from an offset that has passed nothing, with an empty list.      *)
LEMMA OwnershipKeeps ==
  ASSUME EInv, NEW i \in Instance,
         ClaimRead(i) \/ ClaimWrite(i) \/ ClaimError(i) \/ Crash(i) \/ commitOffset(i)
  PROVE  Covers'
<1> DEFINE Fit(k) == k \in Offset /\ Passed(k) /\ NotAhead(k)
<1>1. /\ rows \subseteq Timer /\ now \in Nat
      /\ shard.metadata \in Offset
      /\ \A j \in Instance : read[j].metadata \in Offset /\ engine[j] \in Engine
  BY DEF EInv, TypeOK, Own!TypeOK, Own!ShardInfo
<1>2. /\ Fit(ZeroOffset) /\ Fit(shard.metadata)
      /\ \A j \in Instance : Fit(read[j].metadata) /\ Fit(engine[j].recv)
  <2>1. Fit(ZeroOffset)
    BY <1>1, OffsetsAreKeys DEF Offset, ZeroOffset, Passed, NotAhead, Owed
  <2>2. QED
    BY <1>1, <2>1 DEF EInv, OffsetsPassed, OffsetsDue, Engine
<1>3. \A k : Fit(k)' <=> Fit(k)
  BY OwnershipEffect DEF Passed, NotAhead, Owed, store
<1>4. Fit(shard.metadata)' /\ \A j \in Instance : Fit(read[j].metadata)'
  BY <1>2, <1>3, OwnershipEffect
<1>5. ASSUME NEW j \in Instance, NEW o \in Offset, Fit(o), engine'[j] = NewEngine(o)
      PROVE  /\ Fit(engine[j].recv)' /\ NotAhead(engine[j].off)'
             /\ engine'[j].list = {} /\ engine'[j].fin = {}
             /\ \A r \in Owed' : ~NotAfter(r, engine'[j].off)
  <2>1. engine'[j].recv = ZeroOffset /\ engine'[j].off = o
        /\ engine'[j].list = {} /\ engine'[j].fin = {}
    BY <1>5 DEF NewEngine
  <2>2. \A r \in Owed' : Before(o, r) /\ r \in Timer
    BY <1>1, <1>3, <1>5, OwnershipEffect DEF Passed, Owed, store
  <2>3. \A r \in Owed' : ~NotAfter(r, o)
    BY <2>2, OffsetsAreKeys, KeyOrder
  <2>4. QED
    BY <1>2, <1>3, <1>5, <2>1, <2>3
<1>6. ASSUME NEW j \in Instance, engine'[j] = engine[j]
      PROVE  Fit(engine[j].recv)' /\ NotAhead(engine[j].off)'
  BY <1>2, <1>3, <1>6, OwnershipEffect DEF EInv, OffsetsDue, NotAhead, store
<1>7. OffsetsPassed' /\ OffsetsDue'
  <2>1. \A r \in done' : NotAhead(r)'
    BY OwnershipEffect DEF EInv, OffsetsDue, NotAhead, store
  <2>2. QED
    BY <1>2, <1>4, <1>5, <1>6, <2>1, OwnershipEffect DEF OffsetsPassed, OffsetsDue
<1>8. ListsCover'
  <2>1. Owed' = Owed
    BY OwnershipEffect DEF Owed, store
  <2>2. QED
    BY <1>2, <1>5, <2>1, OwnershipEffect DEF EInv, ListsCover
<1>9. QED
  BY <1>7, <1>8 DEF Covers

(* What the other steps have in common: the stored offset and those read   *)
(* by claims stay, and no timer becomes owed.                              *)
LEMMA OffsetsKept ==
  ASSUME EInv, UNCHANGED ownership, Owed' \subseteq Owed, now' >= now, now' \in Int
  PROVE  /\ \A k : Passed(k) => Passed(k)'
         /\ \A k \in AnyKey : NotAhead(k) => NotAhead(k)'
         /\ Passed(shard.metadata)' /\ NotAhead(shard.metadata)'
         /\ \A i \in Instance : Passed(read[i].metadata)' /\ NotAhead(read[i].metadata)'
<1>1. now \in Int /\ shard.metadata \in AnyKey /\ \A i \in Instance : read[i].metadata \in AnyKey
  BY OffsetsAreKeys DEF EInv, TypeOK, Own!TypeOK, Own!ShardInfo
<1>2. \A k : Passed(k) => Passed(k)'
  BY DEF Passed
<1>3. \A k \in AnyKey : NotAhead(k) => NotAhead(k)'
  BY <1>1 DEF NotAhead, AnyKey, Key
<1>4. QED
  BY <1>1, <1>2, <1>3 DEF EInv, OffsetsPassed, OffsetsDue, ownership

(* A read extends the list by all that is owed up to the new offset.       *)
LEMMA ReadKeeps ==
  ASSUME EInv, NEW i \in Instance, NEW t \in Clock, Read(i, t)
  PROVE  Covers'
<1> DEFINE o == OffsetAfter(i, t)
<1>1. /\ rows \subseteq AnyKey /\ engine \in [Instance -> Engine]
      /\ engine[i].off \in AnyKey /\ engine[i].list \subseteq AnyKey
      /\ now \in Int /\ t \in Int /\ t <= now
  BY OffsetsAreKeys, ClocksAssumption DEF EInv, TypeOK, Engine, Clock
<1>2. /\ UNCHANGED <<ownership, now, rows, done>>
      /\ engine'[i].off = o /\ engine'[i].list = engine[i].list \cup Ready(i, t)
      /\ engine'[i].fin = engine[i].fin /\ engine'[i].recv = engine[i].recv
      /\ \A j \in Instance : j # i => engine'[j] = engine[j]
  BY <1>1 DEF Read, store, Engine
<1>3. /\ o \in rows /\ o \in Ready(i, t) /\ o.at <= t /\ NotAfter(engine[i].off, o)
      /\ \A r \in Ready(i, t) : r \in rows /\ NotAfter(engine[i].off, r) /\ NotAfter(r, o)
      /\ \A r \in rows : NotAfter(engine[i].off, r) /\ NotAfter(r, o) => r \in Ready(i, t)
  BY ReadyIsAll DEF Read, EInv
<1>4. Owed' = Owed /\ Owed \subseteq rows
  BY <1>2 DEF Owed
<1>5. \A j \in Instance : Passed(engine[j].recv)' /\ NotAhead(engine[j].recv)'
                          /\ NotAhead(engine[j].off)'
  BY <1>1, <1>2, <1>3, <1>4 DEF EInv, OffsetsPassed, OffsetsDue, Passed, NotAhead, AnyKey, Key
<1>6. OffsetsPassed' /\ OffsetsDue'
  BY <1>1, <1>2, <1>4, <1>5, OffsetsKept DEF EInv, OffsetsPassed, OffsetsDue, NotAhead
<1>7. /\ \A r \in engine'[i].list : NotAfter(r, o)
      /\ engine'[i].fin \subseteq engine'[i].list
  BY <1>1, <1>2, <1>3, KeyTransitive DEF EInv, ListsCover
<1>8. ASSUME NEW r \in Owed, NotAfter(r, o) PROVE r \in engine'[i].list \ engine'[i].fin
  <2>1. CASE NotAfter(r, engine[i].off)
    BY <1>2, <2>1 DEF EInv, ListsCover
  <2>2. CASE ~NotAfter(r, engine[i].off)
    <3>1. r \in AnyKey /\ Before(engine[i].off, r)
      BY <1>1, <1>4, <2>2, KeyOrder
    <3>2. r \in Ready(i, t)
      BY <1>1, <1>3, <1>4, <1>8, <3>1, KeyOrder
    <3>3. r \notin engine[i].fin
      BY <2>2 DEF EInv, ListsCover
    <3>4. QED
      BY <1>2, <3>2, <3>3
  <2>3. QED
    BY <2>1, <2>2
<1>9. ListsCover'
  BY <1>1, <1>2, <1>4, <1>7, <1>8 DEF EInv, ListsCover
<1>10. QED
  BY <1>6, <1>9 DEF Covers

(* A callback that completes is owed no longer, by any list.               *)
LEMMA CompleteKeeps ==
  ASSUME EInv, NEW i \in Instance, NEW r \in Timer, Complete(i, r)
  PROVE  Covers'
<1>1. /\ engine \in [Instance -> Engine] /\ now \in Int /\ rows \subseteq Timer
      /\ engine[i].off \in AnyKey
  BY OffsetsAreKeys DEF EInv, TypeOK, Engine
<1>2. /\ UNCHANGED <<ownership, now, rows>>
      /\ r \in engine[i].list \ engine[i].fin
      /\ done' = done \cup ({r} \cap rows)
      /\ engine'[i].off = engine[i].off /\ engine'[i].list = engine[i].list
      /\ engine'[i].fin = engine[i].fin \cup {r} /\ engine'[i].recv = engine[i].recv
      /\ \A j \in Instance : j # i => engine'[j] = engine[j]
  BY <1>1 DEF Complete, Engine
<1>3. Owed' = Owed \ {r}
  BY <1>2 DEF Owed
<1>4. NotAhead(r)
  <2>1. r \in AnyKey /\ NotAfter(r, engine[i].off) /\ NotAhead(engine[i].off)
    BY <1>2, OffsetsAreKeys DEF EInv, ListsCover, OffsetsDue
  <2>2. QED
    BY <1>1, <2>1 DEF NotAfter, NotAhead, AnyKey, Key
<1>5. OffsetsPassed' /\ OffsetsDue'
  BY <1>1, <1>2, <1>3, <1>4, OffsetsKept DEF EInv, OffsetsPassed, OffsetsDue, Passed, NotAhead
<1>6. ListsCover'
  BY <1>1, <1>2, <1>3 DEF EInv, ListsCover
<1>7. QED
  BY <1>5, <1>6 DEF Covers

(* The offset that is reported has passed nothing that is owed: such a     *)
(* timer would be in the list, not completed, and not before its first.    *)
LEMMA NotifyKeeps ==
  ASSUME EInv, NEW i \in Instance, NEW r \in Timer, Notify(i, r)
  PROVE  Covers'
<1>1. /\ engine \in [Instance -> Engine] /\ now \in Int
      /\ engine[i].off \in AnyKey /\ engine[i].list \subseteq AnyKey
      /\ IsFiniteSet(engine[i].list) /\ r \in AnyKey /\ Owed \subseteq AnyKey
  BY OffsetsAreKeys DEF EInv, TypeOK, Engine, Finite, Owed
<1>2. /\ UNCHANGED <<ownership, now, rows, done>>
      /\ engine[i].list # {} /\ r \in engine[i].fin /\ r = Head(engine[i].list)
      /\ engine'[i].off = engine[i].off /\ engine'[i].list = engine[i].list \ {r}
      /\ engine'[i].fin = engine[i].fin \ {r} /\ engine'[i].recv = r
      /\ \A j \in Instance : j # i => engine'[j] = engine[j]
  BY <1>1 DEF Notify, Reported, Engine, store
<1>3. r \in engine[i].list /\ \A q \in engine[i].list : NotAfter(r, q)
  BY <1>1, <1>2, HeadIsFirst
<1>4. NotAfter(r, engine[i].off) /\ NotAhead(r)
  BY <1>1, <1>3 DEF EInv, ListsCover, OffsetsDue, NotAfter, NotAhead, AnyKey, Key
<1>5. Passed(r)
  <2>1. SUFFICES ASSUME NEW q \in Owed, ~Before(r, q) PROVE FALSE
    BY DEF Passed
  <2>2. NotAfter(q, r)
    BY <1>1, <2>1, KeyOrder
  <2>3. q \in engine[i].list \ engine[i].fin
    BY <1>1, <1>4, <2>2, KeyTransitive DEF EInv, ListsCover
  <2>4. q # r /\ NotAfter(r, q)
    BY <1>2, <1>3, <2>3
  <2>5. QED
    BY <1>1, <2>1, <2>4, KeyOrder
<1>6. Owed' = Owed
  BY <1>2 DEF Owed
<1>7. OffsetsPassed' /\ OffsetsDue'
  BY <1>1, <1>2, <1>4, <1>5, <1>6, OffsetsKept
     DEF EInv, OffsetsPassed, OffsetsDue, Passed, NotAhead
<1>8. ListsCover'
  <2>1. r \notin Owed
    BY <1>1, <1>2, <1>4 DEF EInv, ListsCover
  <2>2. QED
    BY <1>1, <1>2, <1>6, <2>1 DEF EInv, ListsCover
<1>9. QED
  BY <1>7, <1>8 DEF Covers

(* A range delete removes nothing that is owed: it ends at an offset that  *)
(* has passed nothing, whoever runs it.                                    *)
LEMMA DeletedWasDone ==
  ASSUME EInv, NEW i \in Instance, deleteTimers(i)
  PROVE  Owed' = Owed /\ done' \subseteq done /\ UNCHANGED <<ownership, now, engine>>
<1>1. engine[i].recv \in AnyKey /\ Owed \subseteq AnyKey
  BY OffsetsAreKeys DEF EInv, TypeOK, Engine, Owed
<1>2. \A r \in DeleteRange(i) : r \notin Owed
  BY <1>1, KeyOrder DEF DeleteRange, Between, EInv, OffsetsPassed, Passed
<1>3. QED
  BY <1>2 DEF deleteTimers, Owed

(* A step that leaves what is owed and all engines alone keeps everything. *)
LEMMA NothingNew ==
  ASSUME EInv, UNCHANGED <<ownership, engine>>, Owed' = Owed, done' \subseteq done,
         now' >= now, now' \in Int
  PROVE  Covers'
<1>1. /\ \A i \in Instance : engine[i].recv \in AnyKey /\ engine[i].off \in AnyKey
      /\ done \subseteq AnyKey
  BY OffsetsAreKeys DEF EInv, TypeOK, Engine
<1>2. OffsetsPassed' /\ OffsetsDue'
  BY <1>1, OffsetsKept DEF EInv, OffsetsPassed, OffsetsDue
<1>3. ListsCover'
  BY DEF EInv, ListsCover
<1>4. QED
  BY <1>2, <1>3 DEF Covers

(* A timer is accepted for a time beyond every offset there is: this is    *)
(* where MinTimerDuration has to exceed the skew of the clocks.            *)
LEMMA PutIsAhead ==
  ASSUME EInv, NEW r \in Timer, Put(r)
  PROVE  /\ UNCHANGED <<ownership, now, engine>>
         /\ r.at > now /\ r \notin done
         /\ r \in Owed' /\ Owed' \subseteq Owed \cup {r} /\ done' \subseteq done
         /\ \A q \in Owed \ Owed' : q.id = r.id
<1>1. now \in Int /\ r \in AnyKey
  BY OffsetsAreKeys DEF EInv, TypeOK
<1>2. r.at > now
  BY <1>1, ClocksAssumption DEF Put, LongEnough, AnyKey, Key
<1>3. r \notin done
  BY <1>1, <1>2 DEF EInv, OffsetsDue, NotAhead, AnyKey, Key
<1>4. QED
  BY <1>2, <1>3 DEF Put, Owed, RowsOf

(* A row that is put is after every offset there is.                       *)
LEMMA PutKeeps ==
  ASSUME EInv, NEW r \in Timer, Put(r)
  PROVE  Covers'
<1>1. /\ now \in Int /\ r \in AnyKey /\ shard.metadata \in AnyKey
      /\ \A i \in Instance : /\ read[i].metadata \in AnyKey /\ engine[i].recv \in AnyKey
                             /\ engine[i].off \in AnyKey
  BY OffsetsAreKeys DEF EInv, TypeOK, Engine, Own!TypeOK, Own!ShardInfo
<1>2. \A k \in AnyKey : NotAhead(k) => Before(k, r) /\ ~NotAfter(r, k)
  BY <1>1, PutIsAhead DEF NotAhead, Before, NotAfter, AnyKey, Key
<1>3. \A k \in AnyKey : NotAhead(k) /\ Passed(k) => Passed(k)' /\ NotAhead(k)'
  BY <1>2, PutIsAhead DEF Passed, NotAhead
<1>4. OffsetsPassed' /\ OffsetsDue'
  BY <1>1, <1>3, PutIsAhead DEF EInv, OffsetsPassed, OffsetsDue, NotAhead, ownership
<1>5. ListsCover'
  BY <1>1, <1>2, PutIsAhead DEF EInv, ListsCover, OffsetsDue
<1>6. QED
  BY <1>4, <1>5 DEF Covers

(* Every step keeps the inductive invariant.                               *)
LEMMA EInvStep == EInv /\ [Next]_vars => EInv'
<1> SUFFICES ASSUME EInv, [Next]_vars PROVE EInv'
  OBVIOUS
<1>1. TypeOK' /\ Finite'
  BY EngineTypeStep DEF EInv
<1>2. now \in Int
  BY DEF EInv, TypeOK
<1>3. Covers'
  <2>1. ASSUME NEW i \in Instance, InstanceStep(i) PROVE Covers'
    <3>1. CASE deleteTimers(i)
      BY <1>2, <3>1, DeletedWasDone, NothingNew
    <3>2. QED
      BY <2>1, <3>1, OwnershipKeeps, ReadKeeps, CompleteKeeps, NotifyKeeps DEF InstanceStep
  <2>2. CASE Tick
    BY <1>2, <2>2, NothingNew DEF Tick, Owed
  <2>3. CASE UNCHANGED vars
    BY <1>2, <2>3, NothingNew DEF vars, store, Owed
  <2>4. QED
    BY <2>1, <2>2, <2>3, PutKeeps DEF Next
<1>4. QED
  BY <1>1, <1>3 DEF EInv, Covers

(* An empty shard without an owner.                                        *)
LEMMA EInvInit == Init => EInv
<1> SUFFICES ASSUME Init PROVE EInv
  OBVIOUS
<1>1. Own!TypeOK /\ shard.metadata = ZeroOffset
      /\ \A i \in Instance : read[i].metadata = ZeroOffset
  BY ProtocolAssumptions
     DEF Init, Own!Init, Own!TypeOK, Own!ShardInfo, Own!Status, Own!NoRecord
<1>2. \A i \in Instance : engine[i] = [off |-> ZeroOffset, list |-> {}, fin |-> {},
                                       recv |-> ZeroOffset]
  BY DEF Init, NewEngine
<1>3. now = 0 /\ rows = {} /\ done = {} /\ Owed = {} /\ engine \in [Instance -> Engine]
  BY ProtocolAssumptions DEF Init, Owed, NewEngine, Engine
<1>4. TypeOK /\ Finite
  BY <1>1, <1>2, <1>3, TimeAssumption, FS_EmptySet DEF TypeOK, Finite
<1>5. OffsetsPassed /\ OffsetsDue /\ ListsCover
  BY <1>1, <1>2, <1>3 DEF OffsetsPassed, OffsetsDue, ListsCover, Passed, NotAhead, ZeroOffset
<1>6. QED
  BY <1>4, <1>5 DEF EInv

(* The invariant holds in every reachable state.                           *)
LEMMA EInvAlways == Spec => []EInv
BY EInvInit, EInvStep, PTL DEF Spec

-----------------------------------------------------------------------------
(* Every reachable state of the shard is well typed.                       *)
THEOREM EngineTypeCorrect == Spec => []TypeOK
<1>1. EInv => TypeOK
  BY DEF EInv
<1>2. QED
  BY EInvAlways, <1>1, PTL

(* Whoever owns the shard next, or believes to own it, still meets every   *)
(* timer that is owed: for any number of processes and claims, any batch   *)
(* limit, and clocks that differ by less than MinTimerDuration.            *)
THEOREM NothingIsSkipped == Spec => []NothingSkipped
<1>1. EInv => NothingSkipped
  BY DEF EInv, NothingSkipped, OffsetsPassed, ListsCover, Passed
<1>2. QED
  BY EInvAlways, <1>1, PTL

(* Each step of the shard accepts a timer, calls one back that is due, or  *)
(* lets time pass; or it changes nothing a caller can see.                 *)
LEMMA DurableStep == EInv /\ [Next]_vars => [Durable!Next]_(Durable!vars)
<1> SUFFICES ASSUME EInv, [Next]_vars PROVE [Durable!Next]_(Durable!vars)
  OBVIOUS
<1>1. CASE UNCHANGED <<now, rows, done>>
  BY <1>1 DEF Durable!vars, Owed
<1>2. ASSUME NEW i \in Instance, InstanceStep(i) PROVE [Durable!Next]_(Durable!vars)
  <2>1. CASE ClaimRead(i) \/ ClaimWrite(i) \/ ClaimError(i) \/ Crash(i) \/ commitOffset(i)
    BY <1>1, <2>1 DEF ClaimRead, ClaimWrite, ClaimError, Crash, commitOffset, store
  <2>2. ASSUME NEW t \in Clock, Read(i, t) PROVE [Durable!Next]_(Durable!vars)
    BY <1>1, <2>2 DEF Read, store
  <2>3. ASSUME NEW r \in Timer, Complete(i, r) PROVE [Durable!Next]_(Durable!vars)
    <3>1. Owed' = Owed \ {r} /\ now' = now
      BY <2>3 DEF Complete, Owed
    <3>2. CASE r \in Owed
      <4>1. r.at <= now
        <5>1. NotAfter(r, engine[i].off) /\ engine[i].off.at <= now
          BY <2>3 DEF Complete, EInv, ListsCover, OffsetsDue, NotAhead
        <5>2. r \in AnyKey /\ engine[i].off \in AnyKey /\ now \in Int
          BY OffsetsAreKeys DEF EInv, TypeOK, Engine
        <5>3. QED
          BY <5>1, <5>2 DEF NotAfter, AnyKey, Key
      <4>2. Durable!CallBack(r)
        BY <3>1, <3>2, <4>1 DEF Durable!CallBack
      <4>3. QED
        BY <4>2 DEF Durable!Next
    <3>3. CASE r \notin Owed
      BY <3>1, <3>3 DEF Durable!vars
    <3>4. QED
      BY <3>2, <3>3
  <2>4. ASSUME NEW r \in Timer, Notify(i, r) PROVE [Durable!Next]_(Durable!vars)
    BY <1>1, <2>4 DEF Notify, store
  <2>5. CASE deleteTimers(i)
    BY <2>5, DeletedWasDone DEF Durable!vars
  <2>6. QED
    BY <1>2, <2>1, <2>2, <2>3, <2>4, <2>5 DEF InstanceStep
<1>3. ASSUME NEW r \in Timer, Put(r) PROVE [Durable!Next]_(Durable!vars)
  <2>1. Durable!Accept(r)
    BY <1>3, PutIsAhead DEF Durable!Accept
  <2>2. QED
    BY <2>1 DEF Durable!Next
<1>4. CASE Tick
  <2>1. Durable!Pass
    BY <1>4 DEF Tick, Owed, Durable!Pass
  <2>2. QED
    BY <2>1 DEF Durable!Next
<1>5. CASE UNCHANGED vars
  BY <1>1, <1>5 DEF vars, store
<1>6. QED
  BY <1>2, <1>3, <1>4, <1>5 DEF Next

(* No timer was accepted.                                                  *)
LEMMA DurableInit == Init => Durable!Init
BY DEF Init, Durable!Init, Owed

(* A shard that changes hands, restarts from old offsets and deletes       *)
(* without looking at the version keeps what the service promises: it      *)
(* implements timers that wait until they are called back.                 *)
THEOREM NothingIsLost == Spec => NothingLost
BY DurableInit, DurableStep, EInvAlways, PTL DEF Spec, NothingLost, Durable!Spec

-----------------------------------------------------------------------------
(* The protocol of ShardOwnership runs inside the engine: a commit of the  *)
(* deleter is a call of UpdateShardMetadata with an offset it may have.    *)
LEMMA RunsOwnership == Spec => OwnProofs!Spec
<1>1. Init => OwnProofs!Init
  BY DEF Init, Own!Init, OwnProofs!Init, Own!NoRecord, OwnProofs!NoRecord
<1>2. EInv /\ [Next]_vars => [OwnProofs!Next]_(OwnProofs!vars)
  <2> SUFFICES ASSUME EInv, [Next]_vars PROVE [OwnProofs!Next]_(OwnProofs!vars)
    OBVIOUS
  <2>1. CASE \E i \in Instance : Own!InstanceStep(i)
    BY <2>1, SameProtocol DEF OwnProofs!Next
  <2>2. CASE UNCHANGED ownership
    BY <2>2 DEF OwnProofs!vars, ownership
  <2>3. QED
    BY <2>1, <2>2, ProtocolStep DEF EInv
<1>3. QED
  BY <1>1, <1>2, EInvAlways, PTL DEF Spec, OwnProofs!Spec

(* Also with reader, list and deleter around it, no two live owners of the *)
(* shard hold the same version.                                            *)
THEOREM EngineOwnersUnique == Spec => []Own!VersionsUnique
<1>1. OwnProofs!Spec => []OwnProofs!VersionsUnique
  BY OwnProofs!UniqueVersions, ProtocolAssumptions, PTL
<1>2. OwnProofs!VersionsUnique => Own!VersionsUnique
  BY DEF OwnProofs!VersionsUnique, Own!VersionsUnique, OwnProofs!Live, Own!Live
<1>3. QED
  BY RunsOwnership, <1>1, <1>2, PTL

(* ... and the stored offset, which the deleter commits, only changes by   *)
(* the hand of the holder of the current version.                          *)
THEOREM EngineIsFenced == Spec => Own!Fencing
<1>1. OwnProofs!Spec => OwnProofs!Fencing
  BY OwnProofs!ImplementsFencedRegister, ProtocolAssumptions, PTL
<1>2. OwnProofs!Register!Init => Own!Register!Init
  BY DEF OwnProofs!Register!Init, Own!Register!Init, OwnProofs!Holder, Own!Holder,
         OwnProofs!Live, Own!Live
<1>3. [OwnProofs!Register!Next]_(OwnProofs!Register!vars)
        => [Own!Register!Next]_(Own!Register!vars)
  <2>1. OwnProofs!Holder = Own!Holder /\ OwnProofs!Holder' = Own!Holder'
    BY DEF OwnProofs!Holder, Own!Holder, OwnProofs!Live, Own!Live
  <2>2. QED
    BY <2>1 DEF OwnProofs!Register!Next, Own!Register!Next,
           OwnProofs!Register!Acquire, Own!Register!Acquire,
           OwnProofs!Register!Write, Own!Register!Write,
           OwnProofs!Register!Drop, Own!Register!Drop,
           OwnProofs!Register!vars, Own!Register!vars
<1>4. QED
  BY RunsOwnership, <1>1, <1>2, <1>3, PTL
     DEF OwnProofs!Fencing, Own!Fencing, OwnProofs!Register!Spec, Own!Register!Spec
=============================================================================
