--------------------------- MODULE TimerRowsProofs ---------------------------
(***************************************************************************)
(* What the order on keys and the range queries promise, for every finite  *)
(* set of rows: the lemmas the reader and the shard engine rest on.        *)
(***************************************************************************)
EXTENDS TimerRows, FiniteSetTheorems, TLAPS

AnyKey == Key(Int, Int)

(* Keys are strictly and totally ordered.                                  *)
LEMMA KeyOrder ==
  ASSUME NEW k \in AnyKey, NEW l \in AnyKey
  PROVE  /\ NotAfter(k, l) <=> Before(k, l) \/ k = l
         /\ Before(k, l) \/ NotAfter(l, k)
         /\ ~(Before(k, l) /\ NotAfter(l, k))
<1>1. k.at \in Int /\ k.id \in Int /\ l.at \in Int /\ l.id \in Int
  BY DEF AnyKey, Key
<1>2. k.at = l.at /\ k.id = l.id => k = l
  BY DEF AnyKey, Key
<1>3. QED
  BY <1>1, <1>2 DEF Before, NotAfter

(* ... and transitively.                                                   *)
LEMMA KeyTransitive ==
  ASSUME NEW k \in AnyKey, NEW l \in AnyKey, NEW m \in AnyKey
  PROVE  /\ NotAfter(k, l) /\ NotAfter(l, m) => NotAfter(k, m)
         /\ Before(k, l) /\ NotAfter(l, m) => Before(k, m)
         /\ NotAfter(k, l) /\ Before(l, m) => Before(k, m)
BY DEF AnyKey, Key, Before, NotAfter

(* A finite family of rows has a minimal member for inclusion.             *)
LEMMA SmallestSet ==
  ASSUME NEW rows, IsFiniteSet(rows), NEW F \in SUBSET SUBSET rows, F # {}
  PROVE  \E U \in F : \A V \in F : V \subseteq U => V = U
<1>1. IsWellFoundedOn(StrictSubsetOrdering(rows), FiniteSubsetsOf(rows))
  BY FS_StrictSubsetOrderingWellFounded
<1>2. F \subseteq FiniteSubsetsOf(rows)
  BY FS_FiniteSubsetsOfFinite
<1>3. PICK U \in F : \A V \in F : ~ (<<V, U>> \in StrictSubsetOrdering(rows))
  BY <1>1, <1>2, WFMin
<1>4. QED
  BY <1>3 DEF StrictSubsetOrdering

(* The first row of a finite set exists, and is before all the others.     *)
LEMMA HeadIsFirst ==
  ASSUME NEW rows \in SUBSET AnyKey, IsFiniteSet(rows), rows # {}
  PROVE  Head(rows) \in rows /\ \A q \in rows : NotAfter(Head(rows), q)
<1> DEFINE Below(r) == {q \in rows : Before(q, r)}
           Sets == {Below(r) : r \in rows}
<1>1. PICK U \in Sets : \A V \in Sets : V \subseteq U => V = U
  <2>1. Sets \in SUBSET SUBSET rows /\ Sets # {}
    OBVIOUS
  <2> HIDE DEF Sets
  <2>2. QED
    BY <2>1, SmallestSet
<1>2. PICK r \in rows : U = Below(r)
  OBVIOUS
<1>3. ASSUME NEW q \in rows PROVE NotAfter(r, q)
  <2>1. SUFFICES ASSUME Before(q, r) PROVE FALSE
    BY KeyOrder
  <2>2. Below(q) \subseteq Below(r)
    BY <2>1, KeyOrder, KeyTransitive
  <2>3. q \in Below(r) /\ q \notin Below(q)
    BY <2>1, KeyOrder
  <2>4. QED
    BY <1>1, <1>2, <2>2, <2>3
<1>4. QED
  BY <1>3 DEF Head

(* The last row of a finite set exists, and is after all the others.       *)
LEMMA LastIsLast ==
  ASSUME NEW rows \in SUBSET AnyKey, IsFiniteSet(rows), rows # {}
  PROVE  Last(rows) \in rows /\ \A q \in rows : NotAfter(q, Last(rows))
<1> DEFINE Above(r) == {q \in rows : Before(r, q)}
           Sets == {Above(r) : r \in rows}
<1>1. PICK U \in Sets : \A V \in Sets : V \subseteq U => V = U
  <2>1. Sets \in SUBSET SUBSET rows /\ Sets # {}
    OBVIOUS
  <2> HIDE DEF Sets
  <2>2. QED
    BY <2>1, SmallestSet
<1>2. PICK r \in rows : U = Above(r)
  OBVIOUS
<1>3. ASSUME NEW q \in rows PROVE NotAfter(q, r)
  <2>1. SUFFICES ASSUME Before(r, q) PROVE FALSE
    BY KeyOrder
  <2>2. Above(q) \subseteq Above(r)
    BY <2>1, KeyOrder, KeyTransitive
  <2>3. q \in Above(r) /\ q \notin Above(q)
    BY <2>1, KeyOrder
  <2>4. QED
    BY <1>1, <1>2, <2>2, <2>3
<1>4. QED
  BY <1>3 DEF Last

(* LIMIT cuts off the end of the order: a row before one that is returned  *)
(* is returned, and something is returned if there is something.           *)
LEMMA FirstOfIsPrefix ==
  ASSUME NEW rows \in SUBSET AnyKey, IsFiniteSet(rows), NEW n \in Nat \ {0}
  PROVE  /\ FirstOf(rows, n) \subseteq rows
         /\ \A r \in FirstOf(rows, n), q \in rows : Before(q, r) => q \in FirstOf(rows, n)
         /\ rows # {} => FirstOf(rows, n) # {}
<1> DEFINE Below(r) == {q \in rows : Before(q, r)}
<1>1. FirstOf(rows, n) = {r \in rows : Cardinality(Below(r)) < n}
  BY DEF FirstOf
<1>2. ASSUME NEW r \in FirstOf(rows, n), NEW q \in rows, Before(q, r)
      PROVE  q \in FirstOf(rows, n)
  <2>1. Below(q) \subseteq Below(r)
    BY <1>1, <1>2, KeyOrder, KeyTransitive
  <2>2. IsFiniteSet(Below(r))
    BY FS_Subset
  <2>3. Cardinality(Below(q)) <= Cardinality(Below(r))
    BY <2>1, <2>2, FS_Subset
  <2>4. Cardinality(Below(q)) \in Nat /\ Cardinality(Below(r)) \in Nat
    BY <2>1, <2>2, FS_Subset, FS_CardinalityType
  <2>5. QED
    BY <1>1, <2>3, <2>4
<1>3. ASSUME rows # {} PROVE FirstOf(rows, n) # {}
  <2>1. Head(rows) \in rows /\ Below(Head(rows)) = {}
    BY <1>3, HeadIsFirst, KeyOrder
  <2>2. Cardinality(Below(Head(rows))) = 0
    BY <2>1, FS_EmptySet
  <2>3. QED
    BY <1>1, <2>1, <2>2
<1>4. QED
  BY <1>1, <1>2, <1>3
=============================================================================
