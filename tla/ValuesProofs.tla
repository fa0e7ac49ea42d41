---------------------------- MODULE ValuesProofs ----------------------------
(***************************************************************************)
(* Proofs about the parts of a value that keep a state of their own.       *)
(*                                                                         *)
(* HashEach: the three engines, for any set of keys and tables of any      *)
(* size, implement the iteration of HashIteration, step by step, as long   *)
(* as a caller of the ordered engine deletes during a pass no key but the  *)
(* last one yielded or one still to come.                                  *)
(*                                                                         *)
(* Scalar, for any threads, texts and numbers: a cache that answers for a  *)
(* payload it was not taken from needs a text whose number is not worth    *)
(* what the text was; for all other texts every answer is right and a      *)
(* readonly cell keeps its faces, however readers interleave.              *)
(***************************************************************************)
EXTENDS HashEach, Scalar, FiniteSetTheorems, NaturalsInduction, WellFoundedInduction,
    SequenceTheorems, TLAPS

-----------------------------------------------------------------------------
(* HashEach: the inductive invariant.                                      *)

Indexed == engine \in {"Perl", "Ordered"}

Slot == Key \cup {None}

\* No key stands in two slots.
Distinct(s) == \A i, j \in DOMAIN s : s[i] = s[j] /\ s[i] # None => i = j

\* The keys a pass over an index has yielded are those behind the cursor.
BehindCursor == Indexed => \A k \in Key : k \in visited <=> \E i \in 1 .. cursor : slots[i] = k

\* The key the ordered engine has just yielded is the last behind the cursor.
LastYielded == engine = "Ordered" /\ hashResult \in Key => cursor > 0 /\ slots[cursor] = hashResult

\* What a parked iterator has left is not yielded yet, and every key that was
\* there all along and is not yielded yet is among it.
StillToCome ==
    /\ Distinct(walk)
    /\ \A i \in DOMAIN walk : walk[i] \notin visited
    /\ \A k \in stable \ visited : \E i \in DOMAIN walk : walk[i] = k

AheadInWalk == engine = "Immutable" => IF walk = None THEN visited = {} ELSE StillToCome

HInv == HashTypeOK /\ BehindCursor /\ LastYielded /\ AheadInWalk

-----------------------------------------------------------------------------
(* HashEach: slots and keys.                                               *)

\* The least of a set of positions.
LEMMA MinIs ==
    ASSUME NEW T \in SUBSET Nat, T # {}
    PROVE  Min(T) \in T /\ \A y \in T : Min(T) <= y
<1>1. IsWellFoundedOn(OpToRel(<, Nat), Nat)
  BY NatLessThanWellFounded
<1>2. PICK x \in T : \A y \in T : ~(<<y, x>> \in OpToRel(<, Nat))
  BY <1>1, WFMin
<1>3. \A y \in T : ~(y < x)
  BY <1>2 DEF OpToRel
<1>4. \A y \in T : x <= y
  BY <1>3
<1> QED BY <1>4 DEF Min

LEMMA Constants ==
    /\ None \notin Key /\ "ok" \notin Key /\ "ReadOnly" \notin Key /\ None \notin Seq(Key)
    /\ Engine \subseteq {"Perl", "Ordered", "Immutable"}
<1> QED BY HashEachAssumption

\* The keys of a table are those of its slots.
LEMMA KeysAre ==
    ASSUME NEW s \in Seq(Slot)
    PROVE  /\ KeysOf(s) \subseteq Key
           /\ \A k \in Key : k \in KeysOf(s) <=> \E i \in DOMAIN s : s[i] = k
<1>1. \A i \in DOMAIN s : s[i] \in Slot
  OBVIOUS
<1> QED BY <1>1, Constants DEF KeysOf, Slot

\* Types, without the definitions they are written with.
LEMMA Typed ==
    ASSUME HashTypeOK
    PROVE  /\ engine \in {"Perl", "Ordered", "Immutable"}
           /\ slots \in Seq(Slot) /\ Distinct(slots)
           /\ Len(slots) \in Nat /\ DOMAIN slots = 1 .. Len(slots)
           /\ cursor \in Nat /\ cursor <= Len(slots)
           /\ map \subseteq Key /\ Contents \subseteq Key
           /\ Indexed => Contents = KeysOf(slots)
           /\ engine = "Immutable" => Contents = map
           /\ walk # None => walk \in Seq(Key)
<1>1. slots \in Seq(Slot) /\ Distinct(slots) /\ engine \in Engine
  BY DEF HashTypeOK, Slot, Distinct
<1>2. KeysOf(slots) \subseteq Key
  BY <1>1, KeysAre
<1> QED BY <1>1, <1>2, Constants DEF HashTypeOK, Contents, Indexed

\* The contents after a step, by the same token.
LEMMA ContentsNext ==
    /\ engine' # "Immutable" => Contents' = KeysOf(slots')
    /\ engine' = "Immutable" => Contents' = map'
<1> QED BY DEF Contents

\* A table with one more key holds it and what it held.
LEMMA WithKeyIs ==
    ASSUME HashTypeOK, NEW k \in Key, k \notin KeysOf(slots), NEW t \in WithKey(k)
    PROVE  t \in Seq(Slot) /\ Distinct(t) /\ KeysOf(t) = KeysOf(slots) \cup {k}
<1>1. CASE \E i \in DOMAIN slots : slots[i] = None /\ t = [slots EXCEPT ![i] = k]
  <2>1. PICK i \in DOMAIN slots : slots[i] = None /\ t = [slots EXCEPT ![i] = k]
    BY <1>1
  <2>2. t \in Seq(Slot) /\ DOMAIN t = DOMAIN slots
    BY <2>1, Typed DEF Slot
  <2>3. \A j \in DOMAIN slots : t[j] = IF j = i THEN k ELSE slots[j]
    BY <2>1, Typed
  <2>4. \A j \in DOMAIN slots : slots[j] # k
    BY KeysAre, Typed
  <2>5. Distinct(t)
    BY <2>2, <2>3, <2>4, Typed DEF Distinct
  <2>6. \A x \in Key : x \in KeysOf(t) <=> x \in KeysOf(slots) \cup {k}
    <3>1. \A x \in Key : x # k => ((\E j \in DOMAIN t : t[j] = x) <=> (\E j \in DOMAIN slots : slots[j] = x))
      BY <2>1, <2>2, <2>3, Constants
    <3>2. \E j \in DOMAIN t : t[j] = k
      BY <2>1, <2>2, <2>3
    <3> QED BY <2>2, <3>1, <3>2, KeysAre, Typed
  <2>7. KeysOf(t) \subseteq Key /\ KeysOf(slots) \subseteq Key
    BY <2>2, KeysAre, Typed
  <2> QED BY <2>2, <2>5, <2>6, <2>7
<1>2. CASE \E n \in Nat : t \in [1 .. n -> Slot] /\ KeysOf(t) = KeysOf(slots) \cup {k} /\ Distinct(t)
  BY <1>2
<1>3. \/ \E i \in DOMAIN slots : slots[i] = None /\ t = [slots EXCEPT ![i] = k]
      \/ \E n \in Nat : t \in [1 .. n -> Slot] /\ KeysOf(t) = KeysOf(slots) \cup {k} /\ Distinct(t)
  BY HashEachAssumption DEF WithKey, Slot, Distinct
<1> QED BY <1>1, <1>2, <1>3

\* A snapshot holds every key of the map, once.
LEMMA SnapshotIs ==
    ASSUME NEW S \in SUBSET Key, NEW w \in SetToSeqs(S)
    PROVE  /\ w \in Seq(Key) /\ Distinct(w)
           /\ \A i \in DOMAIN w : w[i] \in S
           /\ \A k \in S : \E i \in DOMAIN w : w[i] = k
<1> DEFINE n == Cardinality(S)
<1>1. IsFiniteSet(S) /\ n \in Nat
  BY HashEachAssumption, FS_Subset, FS_CardinalityType
<1>2. w \in [1 .. n -> S] /\ \A i, j \in 1 .. n : i # j => w[i] # w[j]
  BY DEF SetToSeqs
<1>3. w \in Injection(1 .. n, S)
  BY <1>2 DEF Injection, IsInjective
<1>4. IsFiniteSet(1 .. n) /\ Cardinality(1 .. n) = n
  BY <1>1, FS_Interval
<1>5. w \in Surjection(1 .. n, S)
  BY <1>1, <1>3, <1>4, FS_Injection
<1>6. \A k \in S : \E i \in 1 .. n : w[i] = k
  BY <1>5 DEF Surjection
<1>7. w \in Seq(Key)
  BY <1>1, <1>2
<1> HIDE DEF n
<1> QED BY <1>2, <1>6, <1>7 DEF Distinct

-----------------------------------------------------------------------------
(* HashEach: the operations: each is a step of the iteration.              *)

LEMMA InitStep ==
    ASSUME HashInit
    PROVE  HInv /\ I!Init
<1>1. slots = <<>> /\ cursor = 0 /\ map = {} /\ walk = None /\ visited = {} /\ stable = {}
  BY DEF HashInit
<1>2. KeysOf(slots) = {}
  BY <1>1 DEF KeysOf
<1>3. Contents = {}
  BY <1>1, <1>2 DEF Contents
<1>4. HashTypeOK
  <2>1. slots \in Seq(Slot) /\ DOMAIN slots = {} /\ Len(slots) = 0
    BY <1>1
  <2>2. cursor \in 0 .. Len(slots)
    BY <1>1, <2>1
  <2>3. visited \subseteq Contents /\ stable \subseteq Contents
    BY <1>1
  <2> QED BY <1>1, <2>1, <2>2, <2>3 DEF HashInit, HashTypeOK, Slot
<1>5. BehindCursor /\ LastYielded /\ AheadInWalk
  BY <1>1, Constants DEF HashInit, BehindCursor, LastYielded, AheadInWalk
<1> QED BY <1>1, <1>3, <1>4, <1>5 DEF HInv, HashInit, I!Init

\* Nothing of the table, the pass and the engine changes, and no key is reported.
LEMMA IdleStep ==
    ASSUME HInv, UNCHANGED <<engine, table, pass>>, hashReadonly' \in BOOLEAN,
           hashResult' \in {"ok", "ReadOnly"}
    PROVE  HInv' /\ I!Other
<1>1. Contents' = Contents
  BY DEF Contents, table
<1>2. HashTypeOK'
  BY <1>1 DEF HInv, HashTypeOK, table, pass
<1>3. BehindCursor' /\ LastYielded' /\ AheadInWalk'
  BY Constants DEF HInv, table, pass, BehindCursor, Indexed, LastYielded, AheadInWalk, StillToCome, Distinct
<1> QED BY <1>1, <1>2, <1>3 DEF HInv, I!Other, pass

\* A pass that begins anew has the cursor at the start and no walk.
LEMMA FreshPass ==
    ASSUME HInv, UNCHANGED <<engine, hashReadonly>>, slots' \in Seq(Slot), Distinct(slots'),
           map' \subseteq Key, cursor' = 0, walk' = None, visited' = {}, stable' \subseteq Contents',
           hashResult' \in {"ok", None}
    PROVE  HInv'
<1>1. Len(slots') \in Nat
  OBVIOUS
<1>2. HashTypeOK'
  BY <1>1 DEF HInv, HashTypeOK, Slot, Distinct
<1>3. BehindCursor' /\ LastYielded' /\ AheadInWalk'
  BY Constants DEF BehindCursor, LastYielded, AheadInWalk
<1> QED BY <1>2, <1>3 DEF HInv

LEMMA InsertBucketStep ==
    ASSUME HInv, NEW k \in Key, k \notin Contents, Report("ok"), InsertBucket(k)
    PROVE  HInv' /\ I!Insert(k)
<1>1. engine = "Perl" /\ engine' = "Perl" /\ k \notin KeysOf(slots) /\ Contents = KeysOf(slots)
  BY Typed DEF HInv, InsertBucket, Report, Indexed
<1>2. slots' \in Seq(Slot) /\ Distinct(slots') /\ KeysOf(slots') = KeysOf(slots) \cup {k}
  BY <1>1, WithKeyIs DEF HInv, InsertBucket
<1>3. Contents' = Contents \cup {k}
  BY <1>1, <1>2, ContentsNext
<1>4. cursor' = 0 /\ visited' = {} /\ stable' = Contents' /\ UNCHANGED <<map, walk>>
  BY <1>3 DEF InsertBucket, NewPass
<1>5. HashTypeOK'
  BY <1>2, <1>4 DEF HInv, HashTypeOK, Report, Slot, Distinct
<1>6. BehindCursor' /\ LastYielded' /\ AheadInWalk'
  BY <1>1, <1>4 DEF BehindCursor, LastYielded, AheadInWalk
<1> QED BY <1>3, <1>4, <1>5, <1>6 DEF HInv, I!Insert, I!Begin, Report

LEMMA InsertEntryStep ==
    ASSUME HInv, NEW k \in Key, k \notin Contents, Report("ok"), InsertEntry(k)
    PROVE  HInv' /\ I!Insert(k)
<1>1. /\ engine = "Ordered" /\ engine' = "Ordered" /\ k \notin KeysOf(slots) /\ Contents = KeysOf(slots)
      /\ slots \in Seq(Slot) /\ Distinct(slots) /\ cursor \in Nat /\ cursor <= Len(slots)
  BY Typed DEF HInv, InsertEntry, Report, Indexed
<1>2. /\ slots' \in Seq(Slot) /\ Len(slots') = Len(slots) + 1
      /\ \A i \in 1 .. Len(slots) : slots'[i] = slots[i]
      /\ slots'[Len(slots) + 1] = k
  BY <1>1 DEF InsertEntry, Slot
<1>3. \A i \in 1 .. Len(slots) : slots[i] # k
  BY <1>1, KeysAre
<1>4. Distinct(slots')
  BY <1>1, <1>2, <1>3 DEF Distinct
<1>5. KeysOf(slots') = KeysOf(slots) \cup {k}
  <2>1. \A x \in Key : (\E i \in DOMAIN slots' : slots'[i] = x) <=> (\E i \in DOMAIN slots : slots[i] = x) \/ x = k
    BY <1>1, <1>2
  <2>2. KeysOf(slots') \subseteq Key /\ KeysOf(slots) \subseteq Key
    BY <1>1, <1>2, KeysAre
  <2>3. \A x \in Key : x \in KeysOf(slots') <=> x \in KeysOf(slots) \/ x = k
    BY <1>1, <1>2, <2>1, KeysAre
  <2> QED BY <2>2, <2>3
<1>6. Contents' = Contents \cup {k}
  BY <1>1, <1>5, ContentsNext
<1>7. UNCHANGED <<cursor, map, walk, visited, stable>>
  BY DEF InsertEntry, SamePass, pass
<1>8. HashTypeOK'
  BY <1>1, <1>2, <1>4, <1>6, <1>7 DEF HInv, HashTypeOK, Report, Slot, Distinct
<1>9. BehindCursor'
  BY <1>1, <1>2, <1>7 DEF HInv, BehindCursor, Indexed
<1>10. LastYielded' /\ AheadInWalk'
  BY <1>1, Constants DEF LastYielded, AheadInWalk, Report
<1> QED BY <1>6, <1>7, <1>8, <1>9, <1>10 DEF HInv, I!Insert, Report

LEMMA InsertPersistentStep ==
    ASSUME HInv, NEW k \in Key, k \notin Contents, Report("ok"), InsertPersistent(k)
    PROVE  HInv' /\ I!Insert(k)
<1>1. engine = "Immutable" /\ engine' = "Immutable" /\ Contents = map /\ Contents' = map \cup {k}
  BY Typed, ContentsNext DEF HInv, InsertPersistent, Report
<1>2. UNCHANGED <<slots, cursor, walk, visited, stable>> /\ map' = map \cup {k}
  BY DEF InsertPersistent, SamePass, pass
<1>3. HashTypeOK'
  BY <1>1, <1>2 DEF HInv, HashTypeOK, Report
<1>4. BehindCursor' /\ LastYielded' /\ AheadInWalk'
  BY <1>1, <1>2 DEF HInv, BehindCursor, Indexed, LastYielded, AheadInWalk, StillToCome, Distinct
<1> QED BY <1>1, <1>2, <1>3, <1>4 DEF HInv, I!Insert, Report

LEMMA StoreStep ==
    ASSUME HInv, NEW k \in Key, StoreKey(k)
    PROVE  HInv' /\ I!Next
<1>1. CASE k \in Contents /\ SamePass /\ UNCHANGED table
  <2>1. hashReadonly' \in BOOLEAN
    BY DEF HInv, HashTypeOK, StoreKey, Report
  <2>2. HInv' /\ I!Other
    BY <1>1, <2>1, IdleStep DEF StoreKey, SamePass, Report
  <2> QED BY <2>2 DEF I!Next
<1>2. CASE k \notin Contents /\ InsertBucket(k)
  BY <1>2, InsertBucketStep DEF StoreKey, I!Next
<1>3. CASE k \notin Contents /\ InsertEntry(k)
  BY <1>3, InsertEntryStep DEF StoreKey, I!Next
<1>4. CASE k \notin Contents /\ InsertPersistent(k)
  BY <1>4, InsertPersistentStep DEF StoreKey, I!Next
<1> QED BY <1>1, <1>2, <1>3, <1>4 DEF StoreKey

\* What deleting a key leaves: it is gone, from the pass too.
LEMMA DeleteIs ==
    ASSUME NEW k \in Key, Contents' = Contents \ {k},
           visited' = visited \ {k}, stable' = stable \ {k}, hashResult' = "ok"
    PROVE  I!Next
<1>1. I!Delete(k)
  BY DEF I!Delete
<1> QED BY <1>1 DEF I!Next

LEMMA EraseBucketStep ==
    ASSUME HInv, NEW k \in Key, Report("ok"), EraseBucket(k),
           visited' = visited \ {k}, stable' = stable \ {k}
    PROVE  HInv' /\ I!Next
<1>1. /\ engine = "Perl" /\ engine' = "Perl" /\ Contents = KeysOf(slots)
      /\ slots \in Seq(Slot) /\ Distinct(slots) /\ cursor \in Nat /\ cursor <= Len(slots)
  BY Typed DEF HInv, EraseBucket, Report, Indexed
<1>2. /\ slots' \in Seq(Slot) /\ DOMAIN slots' = DOMAIN slots /\ Len(slots') = Len(slots)
      /\ \A i \in DOMAIN slots : slots'[i] = IF slots[i] = k THEN None ELSE slots[i]
  BY <1>1 DEF EraseBucket, Slot
<1>3. Distinct(slots')
  BY <1>1, <1>2 DEF Distinct
<1>4. \A x \in Key, I_ \in SUBSET DOMAIN slots :
        (\E i \in I_ : slots'[i] = x) <=> x # k /\ \E i \in I_ : slots[i] = x
  BY <1>2, Constants
<1>5. KeysOf(slots') = KeysOf(slots) \ {k}
  <2>1. KeysOf(slots') \subseteq Key /\ KeysOf(slots) \subseteq Key
    BY <1>1, <1>2, KeysAre
  <2>2. \A x \in Key : x \in KeysOf(slots') <=> x \in KeysOf(slots) /\ x # k
    BY <1>1, <1>2, <1>4, KeysAre
  <2> QED BY <2>1, <2>2
<1>6. Contents' = Contents \ {k}
  BY <1>1, <1>5, ContentsNext
<1>7. UNCHANGED <<cursor, map, walk>>
  BY DEF EraseBucket
<1>8. HashTypeOK'
  BY <1>1, <1>2, <1>3, <1>6, <1>7 DEF HInv, HashTypeOK, Report, Slot, Distinct
<1>9. BehindCursor'
  <2> SUFFICES ASSUME NEW x \in Key
               PROVE  x \in visited' <=> \E i \in 1 .. cursor' : slots'[i] = x
    BY DEF BehindCursor
  <2>1. x \in visited <=> \E i \in 1 .. cursor : slots[i] = x
    BY <1>1 DEF HInv, BehindCursor, Indexed
  <2>2. \A i \in 1 .. cursor : i \in DOMAIN slots
    BY <1>1
  <2>3. (\E i \in 1 .. cursor : slots'[i] = x) <=> x # k /\ \E i \in 1 .. cursor : slots[i] = x
    BY <1>4, <2>2
  <2> QED BY <1>7, <2>1, <2>3
<1>10. LastYielded' /\ AheadInWalk'
  BY <1>1, Constants DEF LastYielded, AheadInWalk, Report
<1>11. I!Next
  BY <1>6, DeleteIs DEF Report
<1> QED BY <1>8, <1>9, <1>10, <1>11 DEF HInv

\* swap_remove puts the last entry in the place of the one removed: behind the
\* cursor only if the key removed is the one just yielded, and then the cursor
\* steps back before it.
LEMMA SwapEntryStep ==
    ASSUME HInv, NEW k \in Key, Report("ok"), SwapEntry(k), k \in visited => hashResult = k,
           visited' = visited \ {k}, stable' = stable \ {k}
    PROVE  HInv' /\ I!Next
<1>1. /\ engine = "Ordered" /\ engine' = "Ordered" /\ Contents = KeysOf(slots)
      /\ slots \in Seq(Slot) /\ Distinct(slots) /\ cursor \in Nat /\ cursor <= Len(slots)
  BY Typed DEF HInv, SwapEntry, Report, Indexed
<1> DEFINE n == Len(slots)
<1>2. PICK d \in 1 .. n : /\ slots[d] = k /\ slots' = SwapRemoved(d)
                          /\ cursor' = IF d - 1 < cursor THEN cursor - 1 ELSE cursor
  BY <1>1 DEF SwapEntry
<1>3. n \in Nat /\ n >= 1 /\ d \in Nat /\ d >= 1 /\ d <= n
  BY <1>1, <1>2
<1>4. /\ slots' \in Seq(Slot) /\ DOMAIN slots' = 1 .. n - 1 /\ Len(slots') = n - 1
      /\ \A j \in 1 .. n - 1 : slots'[j] = IF j = d THEN slots[n] ELSE slots[j]
  <2>1. slots' = [j \in 1 .. n - 1 |-> IF j = d THEN slots[n] ELSE slots[j]]
    BY <1>2 DEF SwapRemoved
  <2>2. \A j \in 1 .. n : slots[j] \in Slot
    BY <1>1
  <2>3. n - 1 \in Nat /\ \A j \in 1 .. n - 1 : j \in 1 .. n
    BY <1>3
  <2> HIDE DEF n
  <2>4. slots' \in [1 .. n - 1 -> Slot]
    BY <1>3, <2>1, <2>2, <2>3
  <2>5. Len(slots') = n - 1 /\ slots' \in Seq(Slot)
    BY <2>3, <2>4
  <2> QED BY <2>1, <2>5
<1>5. \A j \in 1 .. n : slots[j] = k => j = d
  BY <1>1, <1>2, Constants DEF Distinct
<1> HIDE DEF n
<1>6. \A x \in Key : (\E j \in 1 .. n - 1 : slots'[j] = x) <=> x # k /\ \E j \in 1 .. n : slots[j] = x
  <2> SUFFICES ASSUME NEW x \in Key
               PROVE  (\E j \in 1 .. n - 1 : slots'[j] = x) <=> x # k /\ \E j \in 1 .. n : slots[j] = x
    OBVIOUS
  <2>1. ASSUME NEW j \in 1 .. n - 1, slots'[j] = x
        PROVE  x # k /\ \E h \in 1 .. n : slots[h] = x
    <3>1. CASE j = d
      <4>1. slots[n] = x /\ n # d /\ n \in 1 .. n
        BY <1>3, <1>4, <2>1, <3>1
      <4> QED BY <1>5, <4>1
    <3>2. CASE j # d
      <4>1. slots[j] = x /\ j \in 1 .. n
        BY <1>3, <1>4, <2>1, <3>2
      <4> QED BY <1>5, <3>2, <4>1
    <3> QED BY <3>1, <3>2
  <2>2. ASSUME NEW j \in 1 .. n, slots[j] = x, x # k
        PROVE  \E h \in 1 .. n - 1 : slots'[h] = x
    <3>1. j # d
      BY <1>2, <2>2
    <3>2. CASE j = n
      <4>1. d \in 1 .. n - 1
        BY <1>3, <3>1, <3>2
      <4> QED BY <1>4, <2>2, <3>2, <4>1
    <3>3. CASE j # n
      <4>1. j \in 1 .. n - 1
        BY <1>3, <3>3
      <4> QED BY <1>4, <2>2, <3>1, <4>1
    <3> QED BY <3>2, <3>3
  <2> QED BY <2>1, <2>2
<1>7. DOMAIN slots = 1 .. n
  BY <1>1 DEF n
<1>8. Distinct(slots')
  <2>1. \A i, j \in 1 .. n : slots[i] = slots[j] /\ slots[i] # None => i = j
    BY <1>1, <1>7 DEF Distinct
  <2>2. ASSUME NEW i \in 1 .. n - 1, NEW j \in 1 .. n - 1, slots'[i] = slots'[j], slots'[i] # None
        PROVE  i = j
    <3> DEFINE at(a) == IF a = d THEN n ELSE a
    <3>1. at(i) \in 1 .. n /\ at(j) \in 1 .. n /\ slots'[i] = slots[at(i)] /\ slots'[j] = slots[at(j)]
      BY <1>3, <1>4
    <3>2. at(i) = at(j)
      BY <2>1, <2>2, <3>1
    <3> QED BY <1>3, <3>2
  <2> QED BY <1>4, <2>2 DEF Distinct
<1>9. KeysOf(slots') = KeysOf(slots) \ {k}
  <2>1. KeysOf(slots') \subseteq Key /\ KeysOf(slots) \subseteq Key
    BY <1>1, <1>4, KeysAre
  <2>2. \A x \in Key : x \in KeysOf(slots') <=> x \in KeysOf(slots) /\ x # k
    <3>1. \A x \in Key : x \in KeysOf(slots') <=> \E j \in 1 .. n - 1 : slots'[j] = x
      BY <1>4, KeysAre
    <3>2. \A x \in Key : x \in KeysOf(slots) <=> \E j \in 1 .. n : slots[j] = x
      BY <1>1, <1>7, KeysAre
    <3> QED BY <1>6, <3>1, <3>2
  <2> QED BY <2>1, <2>2
<1>10. Contents' = Contents \ {k}
  BY <1>1, <1>9, ContentsNext
<1>11. UNCHANGED <<map, walk>>
  BY DEF SwapEntry
<1>12. cursor <= n
  BY <1>1 DEF n
<1>13. k \in visited <=> d <= cursor
  BY <1>1, <1>2, <1>3, <1>5, <1>12 DEF HInv, BehindCursor, Indexed
<1>14. d <= cursor => d = cursor
  BY <1>1, <1>3, <1>5, <1>12, <1>13 DEF HInv, LastYielded
<1>15. cursor' \in Nat /\ cursor' <= n - 1 /\ cursor' < d
       /\ cursor' = IF d = cursor THEN cursor - 1 ELSE cursor
  BY <1>1, <1>2, <1>3, <1>12, <1>14
<1>16. HashTypeOK'
  <2>1. visited' \subseteq Contents' /\ stable' \subseteq Contents'
    BY <1>10 DEF HInv, HashTypeOK
  <2>2. cursor' \in 0 .. Len(slots')
    BY <1>3, <1>4, <1>15
  <2> QED BY <1>1, <1>4, <1>8, <1>11, <2>1, <2>2 DEF HInv, HashTypeOK, Report, Slot, Distinct
<1>17. BehindCursor'
  <2> SUFFICES ASSUME NEW x \in Key
               PROVE  x \in visited' <=> \E i \in 1 .. cursor' : slots'[i] = x
    BY DEF BehindCursor
  <2>1. x \in visited <=> \E i \in 1 .. cursor : slots[i] = x
    BY <1>1 DEF HInv, BehindCursor, Indexed
  <2>2. \A i \in 1 .. cursor' : slots'[i] = slots[i] /\ i # d /\ i \in 1 .. n /\ i \in 1 .. cursor
    BY <1>1, <1>3, <1>4, <1>15
  <2>3. ASSUME NEW i \in 1 .. cursor, slots[i] = x, x # k
        PROVE  i \in 1 .. cursor'
    BY <1>1, <1>2, <1>3, <1>12, <1>15, <2>3
  <2> QED BY <1>5, <2>1, <2>2, <2>3
<1>18. LastYielded' /\ AheadInWalk'
  BY <1>1, Constants DEF LastYielded, AheadInWalk, Report
<1>19. I!Next
  BY <1>10, DeleteIs DEF Report
<1> QED BY <1>16, <1>17, <1>18, <1>19 DEF HInv

LEMMA RemovePersistentStep ==
    ASSUME HInv, NEW k \in Key, Report("ok"), RemovePersistent(k),
           visited' = visited \ {k}, stable' = stable \ {k}
    PROVE  HInv' /\ I!Next
<1>1. engine = "Immutable" /\ engine' = "Immutable" /\ Contents = map /\ Contents' = map \ {k}
  BY Typed, ContentsNext DEF HInv, RemovePersistent, Report
<1>2. UNCHANGED <<slots, cursor, walk>> /\ map' = map \ {k}
  BY DEF RemovePersistent
<1>3. HashTypeOK'
  BY <1>1, <1>2 DEF HInv, HashTypeOK, Report
<1>4. BehindCursor' /\ LastYielded' /\ AheadInWalk'
  BY <1>1, <1>2 DEF HInv, BehindCursor, Indexed, LastYielded, AheadInWalk, StillToCome, Distinct
<1>5. I!Next
  BY <1>1, DeleteIs DEF Report
<1> QED BY <1>3, <1>4, <1>5 DEF HInv

LEMMA DeleteStep ==
    ASSUME "Ordered" \notin Passed, HInv, NEW k \in Key, DeleteKey(k)
    PROVE  HInv' /\ I!Next
<1>1. CASE k \notin Contents /\ SamePass /\ UNCHANGED table
  <2>1. hashReadonly' \in BOOLEAN
    BY DEF HInv, HashTypeOK, DeleteKey, Report
  <2>2. HInv' /\ I!Other
    BY <1>1, <2>1, IdleStep DEF DeleteKey, SamePass, Report
  <2> QED BY <2>2 DEF I!Next
<1>2. CASE EraseBucket(k) /\ visited' = visited \ {k} /\ stable' = stable \ {k}
  BY <1>2, EraseBucketStep DEF DeleteKey
<1>3. CASE SwapEntry(k) /\ visited' = visited \ {k} /\ stable' = stable \ {k}
  <2>1. k \in visited => hashResult = k
    BY <1>3 DEF DeleteKey, SwapEntry
  <2> QED BY <1>3, <2>1, SwapEntryStep DEF DeleteKey
<1>4. CASE RemovePersistent(k) /\ visited' = visited \ {k} /\ stable' = stable \ {k}
  BY <1>4, RemovePersistentStep DEF DeleteKey
<1> QED BY <1>1, <1>2, <1>3, <1>4 DEF DeleteKey

LEMMA ClearStep ==
    ASSUME HInv, ClearKeys
    PROVE  HInv' /\ I!Next
<1>1. engine' = engine /\ cursor' = 0 /\ map' = {} /\ walk' = None /\ visited' = {} /\ stable' = {}
  BY DEF ClearKeys, Report, NewPass
<1>2. slots' \in Seq(Slot) /\ Distinct(slots') /\ KeysOf(slots') = {}
  <2>1. CASE engine = "Perl"
    <3>1. slots' = [i \in DOMAIN slots |-> None] /\ DOMAIN slots = 1 .. Len(slots) /\ Len(slots) \in Nat
      BY <2>1, Typed DEF HInv, ClearKeys
    <3>2. slots' \in Seq(Slot) /\ \A i \in DOMAIN slots' : slots'[i] = None
      BY <3>1 DEF Slot
    <3> QED BY <3>2 DEF Distinct, KeysOf
  <2>2. CASE engine # "Perl"
    <3>1. slots' = <<>> /\ DOMAIN slots' = {}
      BY <2>2 DEF ClearKeys
    <3> QED BY <3>1 DEF Distinct, KeysOf
  <2> QED BY <2>1, <2>2
<1>3. Contents' = {}
  BY <1>1, <1>2, ContentsNext
<1>4. HInv'
  BY <1>1, <1>2, <1>3, FreshPass DEF ClearKeys, Report
<1>5. I!Clear
  BY <1>1, <1>3 DEF I!Clear, I!Begin, ClearKeys, Report
<1> QED BY <1>4, <1>5 DEF I!Next

LEMMA KeysStep ==
    ASSUME HInv, Keys
    PROVE  HInv' /\ I!Next
<1>1. /\ engine' = engine /\ slots' = slots /\ map' = map
      /\ cursor' = 0 /\ walk' = None /\ visited' = {} /\ stable' = Contents
  BY DEF Keys, Report, NewPass
<1>2. Contents' = Contents
  BY <1>1 DEF Contents
<1>3. HInv'
  BY <1>1, <1>2, Typed, FreshPass DEF HInv, Keys, Report
<1>4. I!Restart
  BY <1>1, <1>2 DEF I!Restart, I!Begin, Keys, Report
<1> QED BY <1>3, <1>4 DEF I!Next

\* each on an index: the slots between the cursor and the next occupied one
\* are empty, so the pass has still yielded just what is behind the cursor;
\* when none is ahead, everything is behind it.
LEMMA EachSlotStep ==
    ASSUME HInv, EachSlot
    PROVE  HInv' /\ I!Next
<1> DEFINE ahead == {i \in DOMAIN slots : i > cursor /\ slots[i] # None}
<1>1. /\ engine' = engine /\ Indexed /\ engine # "Immutable"
      /\ hashReadonly' = hashReadonly /\ UNCHANGED <<slots, map, walk>>
  BY DEF EachSlot, Indexed, Yield, Exhaust, Report
<1>2. /\ Contents = KeysOf(slots) /\ slots \in Seq(Slot) /\ Distinct(slots)
      /\ cursor \in Nat /\ cursor <= Len(slots) /\ Contents \subseteq Key
      /\ Len(slots) \in Nat /\ DOMAIN slots = 1 .. Len(slots)
  BY <1>1, Typed DEF HInv
<1>3. Contents' = Contents
  BY <1>1 DEF Contents
<1>4. \A k \in Key : k \in visited <=> \E i \in 1 .. cursor : slots[i] = k
  BY <1>1 DEF HInv, BehindCursor
<1>5. CASE ahead # {} /\ cursor' = Min(ahead) /\ Yield(slots[Min(ahead)])
  <2> DEFINE c == Min(ahead)
  <2>1. ahead \in SUBSET Nat
    BY <1>2
  <2>2. c \in ahead /\ \A i \in ahead : c <= i
    BY <1>5, <2>1, MinIs
  <2>3. c \in 1 .. Len(slots) /\ c > cursor /\ slots[c] # None /\ slots[c] \in Key
    <3>1. \A i \in DOMAIN slots : slots[i] \in Slot
      BY <1>2
    <3> QED BY <1>2, <2>2, <3>1 DEF Slot
  <2>4. ASSUME NEW i \in 1 .. Len(slots), i > cursor, i < c
        PROVE  slots[i] = None
    <3>1. i \in ahead => c <= i
      BY <2>2
    <3>2. i \notin ahead
      <4> HIDE DEF ahead, c
      <4> QED BY <2>3, <2>4, <3>1
    <3> QED BY <1>2, <2>4, <3>2
  <2> DEFINE k == slots[c]
  <2>5. cursor' = c /\ visited' = visited \cup {k} /\ stable' = stable /\ hashResult' = k
    BY <1>5 DEF Yield, Report
  <2> HIDE DEF c, ahead
  <2>6. k \in Contents /\ k \notin visited
    <3>1. k \in KeysOf(slots)
      BY <1>2, <2>3, KeysAre
    <3>2. \A i \in 1 .. cursor : i \in DOMAIN slots /\ i # c
      BY <1>2, <2>3
    <3>3. \A i \in 1 .. cursor : slots[i] # k
      BY <1>2, <2>3, <3>2 DEF Distinct
    <3> QED BY <1>2, <1>4, <2>3, <3>1, <3>3
  <2>7. HashTypeOK'
    <3>1. cursor' \in 0 .. Len(slots')
      BY <1>1, <1>2, <2>3, <2>5
    <3> QED BY <1>1, <1>2, <1>3, <2>3, <2>5, <2>6, <3>1 DEF HInv, HashTypeOK
  <2>8. BehindCursor'
    <3> SUFFICES ASSUME NEW x \in Key
                 PROVE  x \in visited' <=> \E i \in 1 .. cursor' : slots'[i] = x
      BY DEF BehindCursor
    <3>1. ASSUME NEW i \in 1 .. c, slots[i] = x
          PROVE  x \in visited \/ x = k
      <4>1. CASE i \in 1 .. cursor
        BY <1>4, <3>1, <4>1
      <4>2. CASE i = c
        BY <3>1, <4>2
      <4>3. CASE i > cursor /\ i < c
        BY <1>2, <2>3, <2>4, <3>1, <4>3, Constants
      <4> QED BY <1>2, <2>3, <4>1, <4>2, <4>3
    <3>2. \A i \in 1 .. cursor : i \in 1 .. c
      BY <1>2, <2>3
    <3>3. c \in 1 .. c
      BY <2>3
    <3> QED BY <1>1, <1>4, <2>5, <3>1, <3>2, <3>3
  <2>9. LastYielded' /\ AheadInWalk'
    BY <1>1, <2>3, <2>5 DEF LastYielded, AheadInWalk
  <2>10. I!Yield(k)
    BY <1>3, <2>5, <2>6 DEF I!Yield
  <2> QED BY <2>3, <2>7, <2>8, <2>9, <2>10 DEF HInv, I!Next
<1>6. CASE ahead = {} /\ cursor' = 0 /\ Exhaust
  <2>1. visited' = {} /\ stable' = Contents /\ hashResult' = None
    BY <1>6 DEF Exhaust, NewPass, Report
  <2>2. stable \subseteq visited
    <3>1. stable \subseteq Contents
      BY DEF HInv, HashTypeOK
    <3>2. ASSUME NEW k \in Contents
          PROVE  k \in visited
      <4>1. PICK i \in DOMAIN slots : slots[i] = k
        BY <1>2, KeysAre
      <4>2. i \in 1 .. cursor
        BY <1>2, <1>6, <4>1, Constants
      <4> QED BY <1>2, <1>4, <4>1, <4>2
    <3> QED BY <3>1, <3>2
  <2>3. HashTypeOK'
    BY <1>1, <1>2, <1>3, <1>6, <2>1 DEF HInv, HashTypeOK
  <2>4. BehindCursor' /\ LastYielded' /\ AheadInWalk'
    BY <1>1, <1>6, <2>1, Constants DEF BehindCursor, LastYielded, AheadInWalk
  <2>5. I!Exhaust
    BY <1>3, <2>1, <2>2 DEF I!Exhaust, I!Begin
  <2> QED BY <2>3, <2>4, <2>5 DEF HInv, I!Next
<1> QED BY <1>5, <1>6 DEF EachSlot

\* each on a snapshot: the first key left in the walk that is still in the map
\* is yielded, and those before it are gone, so none of them is stable.
LEMMA EachWalkStep ==
    ASSUME HInv, EachWalk
    PROVE  HInv' /\ I!Next
<1>1. /\ engine' = engine /\ engine = "Immutable" /\ hashReadonly' = hashReadonly
      /\ UNCHANGED <<slots, cursor, map>>
  BY DEF EachWalk, Yield, Exhaust, Report
<1>2. Contents = map /\ Contents' = map /\ map \subseteq Key
      /\ visited \subseteq map /\ stable \subseteq map
  BY <1>1, Typed, ContentsNext DEF HInv, HashTypeOK
<1>3. PICK w \in IF walk = None THEN SetToSeqs(map) ELSE {walk} :
        LET alive == {i \in DOMAIN w : w[i] \in map}
        IN  \/ alive # {} /\ walk' = SubSeq(w, Min(alive) + 1, Len(w)) /\ Yield(w[Min(alive)])
            \/ alive = {} /\ walk' = None /\ Exhaust
  BY DEF EachWalk
<1>4. /\ w \in Seq(Key) /\ Distinct(w) /\ \A i \in DOMAIN w : w[i] \notin visited
      /\ \A k \in stable \ visited : \E i \in DOMAIN w : w[i] = k
  <2>1. CASE walk = None
    <3>1. w \in SetToSeqs(map) /\ visited = {}
      BY <1>1, <1>3, <2>1 DEF HInv, AheadInWalk
    <3> QED BY <1>2, <3>1, SnapshotIs
  <2>2. CASE walk # None
    <3>1. w = walk /\ StillToCome
      BY <1>1, <1>3, <2>2 DEF HInv, AheadInWalk
    <3> QED BY <2>2, <3>1, Typed DEF HInv, StillToCome
  <2> QED BY <2>1, <2>2
<1> DEFINE alive == {i \in DOMAIN w : w[i] \in map}
<1>5. Len(w) \in Nat /\ DOMAIN w = 1 .. Len(w) /\ \A i \in 1 .. Len(w) : w[i] \in Key
  BY <1>4
<1>6. CASE alive # {} /\ walk' = SubSeq(w, Min(alive) + 1, Len(w)) /\ Yield(w[Min(alive)])
  <2> DEFINE m == Min(alive)
             k == w[m]
  <2>0. alive \in SUBSET Nat
    BY <1>5
  <2>1. m \in alive /\ \A i \in alive : m <= i
    BY <1>6, <2>0, MinIs
  <2>2. m \in 1 .. Len(w) /\ k \in map /\ k \in Key
    BY <1>5, <2>1
  <2>3. ASSUME NEW i \in 1 .. Len(w), i < m
        PROVE  w[i] \notin map
    <3>1. i \in alive => m <= i
      BY <2>1
    <3>2. i \notin alive
      <4> HIDE DEF alive, m
      <4> QED BY <1>5, <2>2, <2>3, <3>1
    <3> QED BY <1>5, <3>2
  <2>4. visited' = visited \cup {k} /\ stable' = stable /\ hashResult' = k
    BY <1>6 DEF Yield, Report
  <2>5. k \notin visited
    BY <1>4, <1>5, <2>2
  <2> HIDE DEF m, alive
  <2>6. walk' = SubSeq(w, m + 1, Len(w))
    BY <1>6 DEF m
  <2>7. /\ walk' \in Seq(Key) /\ DOMAIN walk' = 1 .. Len(w) - m
        /\ \A i \in 1 .. Len(w) - m : walk'[i] = w[m + i]
    BY <1>4, <1>5, <2>2, <2>6
  <2>8. \A i \in 1 .. Len(w) - m : m + i \in 1 .. Len(w) /\ m + i # m
    BY <1>5, <2>2
  <2>9. StillToCome'
    <3>1. Distinct(walk')
      <4>1. ASSUME NEW i \in 1 .. Len(w) - m, NEW j \in 1 .. Len(w) - m, walk'[i] = walk'[j]
            PROVE  i = j
        <5>1. m + i = m + j
          BY <1>4, <1>5, <2>7, <2>8, <4>1, Constants DEF Distinct
        <5> QED BY <1>5, <2>2, <5>1
      <4> QED BY <2>7, <4>1 DEF Distinct
    <3>2. \A i \in DOMAIN walk' : walk'[i] \notin visited'
      <4>1. \A i \in 1 .. Len(w) - m : w[m + i] \notin visited /\ w[m + i] # k
        BY <1>4, <1>5, <2>2, <2>8, Constants DEF Distinct
      <4> QED BY <2>4, <2>7, <4>1
    <3>3. ASSUME NEW x \in stable' \ visited'
          PROVE  \E i \in DOMAIN walk' : walk'[i] = x
      <4>1. x \in stable \ visited /\ x # k /\ x \in map
        BY <1>2, <2>4
      <4>2. PICK j \in 1 .. Len(w) : w[j] = x
        BY <1>4, <1>5, <4>1
      <4>3. j > m
        BY <1>5, <2>2, <2>3, <4>1, <4>2
      <4>4. j - m \in 1 .. Len(w) - m /\ m + (j - m) = j
        BY <1>5, <2>2, <4>3
      <4> QED BY <2>7, <4>2, <4>4
    <3> QED BY <3>1, <3>2, <3>3 DEF StillToCome
  <2>10. HashTypeOK'
    BY <1>1, <1>2, <2>2, <2>4, <2>7 DEF HInv, HashTypeOK
  <2>11. walk' # None
    BY <2>7, Constants
  <2>12. BehindCursor' /\ LastYielded' /\ AheadInWalk'
    BY <1>1, <2>9, <2>11 DEF BehindCursor, Indexed, LastYielded, AheadInWalk
  <2>13. I!Yield(k)
    BY <1>2, <2>2, <2>4, <2>5 DEF I!Yield
  <2> QED BY <2>2, <2>10, <2>12, <2>13 DEF HInv, I!Next
<1>7. CASE alive = {} /\ walk' = None /\ Exhaust
  <2>1. visited' = {} /\ stable' = map /\ hashResult' = None
    BY <1>2, <1>7 DEF Exhaust, NewPass, Report
  <2>2. stable \subseteq visited
    BY <1>2, <1>4, <1>7
  <2>3. HInv'
    <3>1. slots' \in Seq(Slot) /\ Distinct(slots')
      BY <1>1, Typed DEF HInv
    <3>2. HashTypeOK'
      BY <1>1, <1>2, <1>7, <2>1 DEF HInv, HashTypeOK
    <3> QED BY <1>1, <1>7, <2>1, <3>2 DEF HInv, BehindCursor, Indexed, LastYielded, AheadInWalk
  <2>4. I!Exhaust
    BY <1>2, <2>1, <2>2 DEF I!Exhaust, I!Begin
  <2> QED BY <2>3, <2>4 DEF I!Next
<1> QED BY <1>3, <1>6, <1>7

-----------------------------------------------------------------------------
(* HashEach: the theorems.                                                 *)

LEMMA StepsKeep ==
    ASSUME "Ordered" \notin Passed, HInv, [HashNext]_hash_vars
    PROVE  HInv' /\ [I!Next]_(I!iterationVars)
<1>1. ASSUME NEW k \in Key, StoreKey(k)
      PROVE  HInv' /\ I!Next
  BY <1>1, StoreStep
<1>2. ASSUME NEW k \in Key, DeleteKey(k)
      PROVE  HInv' /\ I!Next
  BY <1>2, DeleteStep
<1>3. CASE ClearKeys
  BY <1>3, ClearStep
<1>4. ASSUME RejectHash \/ SetHashReadonly
      PROVE  HInv' /\ I!Next
  <2>1. /\ UNCHANGED <<engine, table, pass>> /\ hashReadonly' \in BOOLEAN
        /\ hashResult' \in {"ok", "ReadOnly"}
    BY <1>4 DEF HInv, HashTypeOK, RejectHash, SetHashReadonly, Report, SamePass
  <2> QED BY <2>1, IdleStep DEF I!Next
<1>5. CASE EachSlot
  BY <1>5, EachSlotStep
<1>6. CASE EachWalk
  BY <1>6, EachWalkStep
<1>7. CASE Keys
  BY <1>7, KeysStep
<1>8. CASE UNCHANGED hash_vars
  <2>1. Contents' = Contents
    BY <1>8 DEF Contents, hash_vars, table
  <2>2. HashTypeOK'
    BY <1>8, <2>1 DEF HInv, HashTypeOK, hash_vars, table, pass
  <2>3. BehindCursor' /\ LastYielded' /\ AheadInWalk'
    BY <1>8 DEF HInv, hash_vars, table, pass, BehindCursor, Indexed, LastYielded, AheadInWalk, StillToCome, Distinct
  <2> QED BY <1>8, <2>1, <2>2, <2>3 DEF HInv, hash_vars, pass, I!iterationVars
<1> QED BY <1>1, <1>2, <1>3, <1>4, <1>5, <1>6, <1>7, <1>8 DEF HashNext

\* In every behaviour whose caller does not delete what an ordered pass is well
\* past, the pass has yielded just the keys behind the bucket or entry cursor,
\* and a parked iterator still has every stable key that was not yielded.
\* (containers.rs each, store, delete)
THEOREM PassInvariant ==
    ASSUME "Ordered" \notin Passed
    PROVE  HashSpec => []HInv
<1>1. HashInit => HInv
  BY InitStep
<1>2. HInv /\ [HashNext]_hash_vars => HInv'
  BY StepsKeep
<1> QED BY <1>1, <1>2, PTL DEF HashSpec

\* Every variable of the engines has its type: a key is stored once, and the
\* cursor never wraps below zero nor passes the end.  (containers.rs Hash)
THEOREM HashTyped ==
    ASSUME "Ordered" \notin Passed
    PROVE  HashSpec => []HashTypeOK
<1>1. HInv => HashTypeOK
  BY DEF HInv
<1> QED BY <1>1, PassInvariant, PTL

\* "Delete-during-iteration is exact": whichever engine, and whatever is stored,
\* deleted or cleared between two calls of each, a pass yields no key twice,
\* none that is gone, and every key that stays.  (containers.rs each)
THEOREM EnginesIterate ==
    ASSUME "Ordered" \notin Passed
    PROVE  HashSpec => IsIteration
<1>1. HashInit => HInv /\ I!Init
  BY InitStep
<1>2. HInv /\ [HashNext]_hash_vars => HInv' /\ [I!Next]_(I!iterationVars)
  BY StepsKeep
<1> QED BY <1>1, <1>2, PTL DEF HashSpec, IsIteration, I!Spec

-----------------------------------------------------------------------------
(* Scalar: the inductive invariant.                                        *)

Kind == {"undef", "integer", "float", "text", "dual"}

\* The number beside the text leaves every face what the bare text made it.
Faithful(s) == \A f \in Face : Coerced(f, Dual(s, Classify(s).number)) = Coerced(f, Text(s))

\* The payload was taken out and lost, or was numified in place to a dual that
\* is not worth what the text was.
Excused == spoiled \/ (warned > 0 /\ payload.kind = "dual" /\ ~Faithful(payload.text))

\* A text in the cell or in a thread's hands is one of those that occur.
Payloads ==
  /\ payload.kind \in Kind /\ copy.kind \in Kind
  /\ payload.kind = "text" => payload.text \in Texts /\ payload = Text(payload.text)
  /\ copy.kind = "text" => copy.text \in Texts /\ copy = Text(copy.text)
  /\ warned > 0 /\ payload.kind = "dual" => payload.text \in Texts /\ Classify(payload.text).warns

\* A text that would warn has not warned.
Silence == warned \in Nat /\ warned <= 1 /\ (Warns(payload) => warned = 0)

\* A face that may be read from the cache is the payload's.
CacheTrue == \A f \in Face : valid[f] => cached[f] = Coerced(f, payload)

\* What a reader has in hand, or has stored and not yet published, is the
\* payload's too, and what it is about to load may be loaded.
ReaderTrue(t) ==
  /\ pc[t] = "load" => valid[face[t]]
  /\ pc[t] \in {"store", "publish", "done"} => answer[t] = Coerced(face[t], payload)
  /\ pc[t] = "publish" => cached[face[t]] = Coerced(face[t], payload)

InSight == Excused \/ (CacheTrue /\ \A t \in Thread : ReaderTrue(t))

\* Every reader has an answer and every face a cache, and what is on its way to
\* the cache has the type of its face.
Answers ==
  /\ DOMAIN answer = Thread /\ DOMAIN cached = Face
  /\ \A t \in Thread : pc[t] = "store" => answer[t].kind = Zero[face[t]].kind

SInv == ScalarTypeOK /\ Payloads /\ Silence /\ InSight /\ Answers

-----------------------------------------------------------------------------
(* Scalar: coercions.                                                      *)

LEMMA FaceKinds ==
  /\ Zero["int"].kind = "integer" /\ Zero["float"].kind = "float" /\ Zero["string"].kind = "text"
  /\ \A n : Integer(n).kind = "integer"
  /\ \A s : Text(s).kind = "text"
  /\ Undefined.kind = "undef"
  /\ \A s, n : Dual(s, n).kind = "dual" /\ Dual(s, n).text = s
<1> QED BY DEF Zero, Face, Integer, Finite, Text, Undefined, Dual

\* Whatever is read as a float is one.
LEMMA FloatKinds ==
  /\ \A s : FloatSpan(s).number.kind = "float"
  /\ \A n : AsFloat(n).kind = "float"
<1>1. \A a, b, c : Finite(a, b, c).kind = "float"
  BY DEF Finite
<1>2. \A a, b : Special(a, b).kind = "float"
  BY DEF Special
<1>3. \A n : AsFloat(n).kind = "float"
  BY <1>1 DEF AsFloat
<1>4. ASSUME NEW s PROVE FloatSpan(s).number.kind = "float"
  <2> DEFINE rest == SplitSign(s).rest
             infinite == Starts(rest, 1, {"inf"})
             nan == Starts(rest, 1, {"nan"})
  <2>1. CASE infinite
    <3>1. FloatSpan(s).number = Special(SplitSign(s).negative, "inf")
      BY <2>1 DEF FloatSpan
    <3> QED BY <1>2, <3>1
  <2>2. CASE ~infinite /\ nan
    <3>1. FloatSpan(s).number = Special(FALSE, "nan")
      BY <2>2 DEF FloatSpan
    <3> QED BY <1>2, <3>1
  <2>3. CASE ~infinite /\ ~nan
    <3>1. \E a, b, c : FloatSpan(s).number = Finite(a, b, c)
      BY <2>3 DEF FloatSpan
    <3> QED BY <1>1, <3>1
  <2> QED BY <2>1, <2>2, <2>3
<1> QED BY <1>3, <1>4

\* A payload asked for a face gives one of that face's type.
LEMMA CoercedKind ==
  ASSUME NEW p, p.kind \in Kind, NEW f \in Face
  PROVE  Coerced(f, p).kind = Zero[f].kind
<1>1. CASE f = "int"
  BY <1>1, FaceKinds DEF Coerced, Kind
<1>2. CASE f = "float"
  BY <1>2, FaceKinds, FloatKinds DEF Coerced, Kind
<1>3. CASE f = "string"
  BY <1>3, FaceKinds DEF Coerced, Kind
<1> QED BY <1>1, <1>2, <1>3 DEF Face

\* What may be assigned: a fresh value or the copy.
LEMMA Assignable ==
  ASSUME Payloads, NEW p \in Fresh \union {copy}
  PROVE  p.kind \in Kind /\ (p.kind = "text" => p.text \in Texts /\ p = Text(p.text))
<1>1. CASE p \in Fresh
  BY <1>1, ScalarAssumption, FaceKinds DEF Fresh, Kind, Text
<1>2. CASE p = copy
  BY <1>2 DEF Payloads
<1> QED BY <1>1, <1>2

-----------------------------------------------------------------------------
(* Scalar: the steps.                                                      *)

LEMMA InitInv ==
  ASSUME ScalarInit
  PROVE  SInv
<1>1. payload \in Fresh /\ copy = Undefined
  BY DEF ScalarInit
<1>2. Payloads
  BY <1>1, ScalarAssumption, FaceKinds DEF Payloads, Fresh, Kind, Text
<1>3. ScalarTypeOK
  BY <1>2, FaceKinds DEF ScalarInit, ScalarTypeOK, Payloads, Kind, Face
<1>4. Silence
  BY DEF ScalarInit, Silence
<1>5. InSight /\ Answers
  BY DEF ScalarInit, InSight, CacheTrue, ReaderTrue, Answers, Zero
<1> QED BY <1>2, <1>3, <1>4, <1>5 DEF SInv

\* Nothing a reader does touches the payload or what is known of it.
LEMMA PayloadsStay ==
  ASSUME SInv, UNCHANGED <<payload, copy, warned, spoiled>>
  PROVE  Payloads' /\ Silence' /\ Excused' = Excused
<1>1. Payloads'
  BY DEF SInv, Payloads
<1>2. Silence'
  BY DEF SInv, Silence, Warns
<1>3. Excused' = Excused
  BY DEF Excused
<1> QED BY <1>1, <1>2, <1>3

\* A step of one reader: what the others have in hand stands if the cache keeps
\* the faces that are the payload's.
LEMMA ReaderStep ==
  ASSUME SInv, NEW t \in Thread, UNCHANGED <<payload, full, scalarReadonly, copy, warned, spoiled>>,
         NEW l \in {"idle", "probe", "load", "store", "publish", "done"}, pc' = [pc EXCEPT ![t] = l],
         face' \in [Thread -> Face], \A u \in Thread : u # t => face'[u] = face[u] /\ answer'[u] = answer[u],
         DOMAIN answer' = Thread, DOMAIN cached' = Face,
         valid' \in [Face -> BOOLEAN], \A f \in Face : valid[f] => valid'[f],
         \A f \in Face : cached'[f].kind = Zero[f].kind,
         \A f \in Face : ~Excused /\ cached[f] = Coerced(f, payload) => cached'[f] = Coerced(f, payload),
         l = "store" => answer'[t].kind = Zero[face'[t]].kind,
         ~Excused => CacheTrue' /\ ReaderTrue(t)'
  PROVE  SInv'
<1>1. Payloads' /\ Silence' /\ Excused' = Excused
  BY PayloadsStay
<1>2. pc' \in [Thread -> {"idle", "probe", "load", "store", "publish", "done"}]
      /\ pc'[t] = l /\ \A u \in Thread : u # t => pc'[u] = pc[u]
  BY DEF SInv, ScalarTypeOK
<1>3. ScalarTypeOK'
  BY <1>2 DEF SInv, ScalarTypeOK
<1>4. Answers'
  BY <1>2 DEF SInv, Answers
<1>5. ASSUME ~Excused, NEW u \in Thread, u # t
      PROVE  ReaderTrue(u)'
  <2>1. ReaderTrue(u) /\ face[u] \in Face /\ payload' = payload
    BY <1>5 DEF SInv, InSight, ScalarTypeOK
  <2> QED BY <1>2, <1>5, <2>1 DEF ReaderTrue
<1>6. InSight'
  BY <1>1, <1>5 DEF InSight
<1> QED BY <1>1, <1>3, <1>4, <1>6 DEF SInv

LEMMA ReadStep ==
  ASSUME SInv, NEW t \in Thread, NEW f \in Face, Read(t, f)
  PROVE  SInv'
<1>1. /\ UNCHANGED <<payload, full, scalarReadonly, cached, valid, answer, copy, warned, spoiled>>
      /\ pc' = [pc EXCEPT ![t] = "probe"] /\ face' = [face EXCEPT ![t] = f]
  BY DEF Read, cell
<1>2. /\ face' \in [Thread -> Face] /\ \A u \in Thread : u # t => face'[u] = face[u]
      /\ valid' \in [Face -> BOOLEAN] /\ pc'[t] = "probe"
      /\ \A g \in Face : cached'[g].kind = Zero[g].kind
      /\ DOMAIN answer' = Thread /\ DOMAIN cached' = Face
  BY <1>1 DEF SInv, ScalarTypeOK, Answers
<1>3. ~Excused => CacheTrue' /\ ReaderTrue(t)'
  BY <1>1, <1>2 DEF SInv, InSight, CacheTrue, ReaderTrue
<1> QED BY <1>1, <1>2, <1>3, ReaderStep

LEMMA ProbeStep ==
  ASSUME SInv, NEW t \in Thread, Probe(t)
  PROVE  SInv'
<1>1. UNCHANGED <<payload, full, scalarReadonly, cached, valid, face, copy, warned, spoiled>>
  BY DEF Probe, cell
<1>2. /\ face' \in [Thread -> Face] /\ face[t] \in Face
      /\ valid' \in [Face -> BOOLEAN] /\ pc \in [Thread -> {"idle", "probe", "load", "store", "publish", "done"}]
      /\ \A g \in Face : cached'[g].kind = Zero[g].kind
      /\ DOMAIN answer = Thread /\ DOMAIN cached' = Face
  BY <1>1 DEF SInv, ScalarTypeOK, Answers
<1>3. CASE full /\ valid[face[t]]
  <2>1. pc' = [pc EXCEPT ![t] = "load"] /\ answer' = answer /\ pc'[t] = "load"
    BY <1>2, <1>3 DEF Probe
  <2>2. ~Excused => CacheTrue' /\ ReaderTrue(t)'
    BY <1>1, <1>3, <2>1 DEF SInv, InSight, CacheTrue, ReaderTrue
  <2> QED BY <1>1, <1>2, <2>1, <2>2, ReaderStep
<1>4. CASE ~(full /\ valid[face[t]])
  <2> DEFINE l == IF full THEN "store" ELSE "done"
  <2>1. /\ answer' = [answer EXCEPT ![t] = Coerced(face[t], payload)]
        /\ pc' = [pc EXCEPT ![t] = l] /\ l \in {"store", "done"} /\ pc'[t] = l
    BY <1>2, <1>4 DEF Probe
  <2>2. /\ answer'[t] = Coerced(face[t], payload)
        /\ \A u \in Thread : u # t => answer'[u] = answer[u]
        /\ DOMAIN answer' = Thread
    BY <1>2, <2>1
  <2>3. answer'[t].kind = Zero[face'[t]].kind
    BY <1>1, <1>2, <2>2, CoercedKind DEF SInv, Payloads
  <2>4. ~Excused => CacheTrue' /\ ReaderTrue(t)'
    BY <1>1, <2>1, <2>2 DEF SInv, InSight, CacheTrue, ReaderTrue
  <2> HIDE DEF l
  <2> QED BY <1>1, <1>2, <2>1, <2>2, <2>3, <2>4, ReaderStep
<1> QED BY <1>3, <1>4

LEMMA LoadStep ==
  ASSUME SInv, NEW t \in Thread, Load(t)
  PROVE  SInv'
<1>1. /\ UNCHANGED <<payload, full, scalarReadonly, cached, valid, face, copy, warned, spoiled>>
      /\ pc[t] = "load" /\ pc' = [pc EXCEPT ![t] = "done"]
      /\ answer' = [answer EXCEPT ![t] = cached[face[t]]]
  BY DEF Load, cell
<1>2. /\ face' \in [Thread -> Face] /\ face[t] \in Face /\ pc'[t] = "done"
      /\ valid' \in [Face -> BOOLEAN] /\ answer'[t] = cached[face[t]]
      /\ \A g \in Face : cached'[g].kind = Zero[g].kind
      /\ \A u \in Thread : u # t => answer'[u] = answer[u]
      /\ DOMAIN answer' = Thread /\ DOMAIN cached' = Face
  BY <1>1 DEF SInv, ScalarTypeOK, Answers
<1>3. ~Excused => CacheTrue' /\ ReaderTrue(t)'
  BY <1>1, <1>2 DEF SInv, InSight, CacheTrue, ReaderTrue
<1> QED BY <1>1, <1>2, <1>3, ReaderStep

LEMMA StoreFaceStep ==
  ASSUME SInv, NEW t \in Thread, StoreFace(t)
  PROVE  SInv'
<1> DEFINE f == face[t]
           l == IF f = "string" THEN "done" ELSE "publish"
<1>1. /\ UNCHANGED <<payload, full, scalarReadonly, face, answer, copy, warned, spoiled>>
      /\ pc[t] = "store" /\ pc' = [pc EXCEPT ![t] = l] /\ l \in {"done", "publish"}
  BY DEF StoreFace
<1>2. /\ f \in Face /\ face' \in [Thread -> Face] /\ pc'[t] = l
      /\ valid \in [Face -> BOOLEAN] /\ answer[t].kind = Zero[f].kind
      /\ \A g \in Face : cached[g].kind = Zero[g].kind
      /\ DOMAIN answer' = Thread /\ DOMAIN cached = Face
  BY <1>1 DEF SInv, ScalarTypeOK, Answers
<1>3. ~Excused => answer[t] = Coerced(f, payload) /\ CacheTrue
  BY <1>1 DEF SInv, InSight, ReaderTrue
<1>4. \A g \in Face : \/ cached'[g] = cached[g]
                      \/ g = f /\ cached'[g] = answer[t]
  BY <1>2 DEF StoreFace
<1>5. \A g \in Face : valid'[g] = (valid[g] \/ (g = f /\ f = "string"))
  <2>1. CASE f = "string"
    <3>1. valid' = [valid EXCEPT !["string"] = TRUE]
      BY <2>1 DEF StoreFace
    <3> QED BY <1>2, <2>1, <3>1
  <2>2. CASE f # "string"
    <3>1. valid' = valid
      BY <2>2 DEF StoreFace
    <3> QED BY <1>2, <2>2, <3>1, Zenon
  <2> QED BY <2>1, <2>2
<1>6. valid' \in [Face -> BOOLEAN]
  <2>1. valid' = valid \/ valid' = [valid EXCEPT !["string"] = TRUE]
    BY DEF StoreFace
  <2> QED BY <1>2, <2>1
<1>7. DOMAIN cached' = Face /\ \A g \in Face : cached'[g].kind = Zero[g].kind
  <2>1. DOMAIN cached' = Face
    BY <1>2 DEF StoreFace
  <2> QED BY <1>2, <1>4, <2>1
<1>8. \A g \in Face : ~Excused /\ cached[g] = Coerced(g, payload) => cached'[g] = Coerced(g, payload)
  BY <1>3, <1>4
<1>9. ASSUME ~Excused
      PROVE  CacheTrue' /\ ReaderTrue(t)'
  <2>1. cached'[f] = Coerced(f, payload)
    <3>1. CASE f = "string"
      <4>1. valid["string"] => cached["string"] = Coerced("string", payload)
        BY <1>3, <1>9 DEF CacheTrue, Face
      <4>2. cached'["string"] = IF valid["string"] THEN cached["string"] ELSE answer[t]
        BY <1>2, <3>1 DEF StoreFace
      <4> QED BY <1>3, <1>9, <3>1, <4>1, <4>2
    <3>2. CASE f # "string"
      <4>1. cached'[f] = answer[t]
        BY <1>2, <3>2 DEF StoreFace
      <4> QED BY <1>3, <1>9, <4>1
    <3> QED BY <3>1, <3>2
  <2>2. CacheTrue'
    <3>1. \A g \in Face : valid'[g] => cached'[g] = Coerced(g, payload)
      BY <1>3, <1>5, <1>8, <1>9, <2>1 DEF CacheTrue
    <3> QED BY <1>1, <3>1 DEF CacheTrue
  <2>3. ReaderTrue(t)'
    BY <1>1, <1>2, <1>3, <1>9, <2>1 DEF ReaderTrue
  <2> QED BY <2>2, <2>3
<1> HIDE DEF f, l
<1>10. \A g \in Face : valid[g] => valid'[g]
  BY <1>5
<1> QED BY <1>1, <1>2, <1>6, <1>7, <1>8, <1>9, <1>10, ReaderStep

LEMMA PublishStep ==
  ASSUME SInv, NEW t \in Thread, Publish(t)
  PROVE  SInv'
<1>1. /\ UNCHANGED <<payload, full, scalarReadonly, cached, face, answer, copy, warned, spoiled>>
      /\ pc[t] = "publish" /\ pc' = [pc EXCEPT ![t] = "done"]
      /\ valid' = [valid EXCEPT ![face[t]] = TRUE]
  BY DEF Publish
<1>2. /\ face' \in [Thread -> Face] /\ face[t] \in Face /\ pc'[t] = "done"
      /\ valid' \in [Face -> BOOLEAN]
      /\ \A g \in Face : cached'[g].kind = Zero[g].kind
      /\ \A g \in Face : valid'[g] => valid[g] \/ g = face[t]
      /\ \A g \in Face : valid[g] => valid'[g]
      /\ DOMAIN answer' = Thread /\ DOMAIN cached' = Face
  BY <1>1 DEF SInv, ScalarTypeOK, Answers
<1>3. ~Excused => CacheTrue' /\ ReaderTrue(t)'
  BY <1>1, <1>2 DEF SInv, InSight, CacheTrue, ReaderTrue
<1> QED BY <1>1, <1>2, <1>3, ReaderStep

LEMMA ReleaseStep ==
  ASSUME SInv, NEW t \in Thread, Release(t)
  PROVE  SInv'
<1>1. /\ UNCHANGED <<payload, full, scalarReadonly, cached, valid, copy, warned, spoiled>>
      /\ pc' = [pc EXCEPT ![t] = "idle"] /\ face' = [face EXCEPT ![t] = "int"]
      /\ answer' = [answer EXCEPT ![t] = Undefined]
  BY DEF Release, cell
<1>2. /\ face' \in [Thread -> Face] /\ pc'[t] = "idle"
      /\ valid' \in [Face -> BOOLEAN]
      /\ \A g \in Face : cached'[g].kind = Zero[g].kind
      /\ \A u \in Thread : u # t => answer'[u] = answer[u] /\ face'[u] = face[u]
      /\ DOMAIN answer' = Thread /\ DOMAIN cached' = Face
  BY <1>1 DEF SInv, ScalarTypeOK, Answers, Face
<1>3. ~Excused => CacheTrue' /\ ReaderTrue(t)'
  BY <1>1, <1>2 DEF SInv, InSight, CacheTrue, ReaderTrue
<1> QED BY <1>1, <1>2, <1>3, ReaderStep

LEMMA CopyStep ==
  ASSUME SInv, CopyOut
  PROVE  SInv'
<1>1. /\ UNCHANGED <<payload, full, scalarReadonly, cached, valid, pc, face, answer, warned, spoiled>>
      /\ copy' = payload
  BY DEF CopyOut, cell, readers
<1>2. Payloads'
  BY <1>1 DEF SInv, Payloads
<1>3. ScalarTypeOK'
  BY <1>1 DEF SInv, ScalarTypeOK
<1>4. Silence' /\ Excused' = Excused
  BY <1>1 DEF SInv, Silence, Warns, Excused
<1>5. InSight' /\ Answers'
  BY <1>1, <1>4 DEF SInv, InSight, CacheTrue, ReaderTrue, Answers
<1> QED BY <1>2, <1>3, <1>4, <1>5 DEF SInv

\* A writer finds no reader, so of the readers nothing is left to show.
LEMMA WriterStep ==
  ASSUME SInv, Alone, UNCHANGED <<readers, copy>>,
         Payloads', Silence', ~Excused' => CacheTrue',
         <<full', scalarReadonly', spoiled'>> \in BOOLEAN \X BOOLEAN \X BOOLEAN,
         scalarReadonly' => full',
         DOMAIN cached' = Face,
         valid' \in [Face -> BOOLEAN], \A f \in Face : cached'[f].kind = Zero[f].kind
  PROVE  SInv'
<1>1. /\ pc' = pc /\ face' = face /\ answer' = answer
      /\ \A t \in Thread : pc'[t] = "idle"
  BY DEF readers, Alone
<1>2. ScalarTypeOK'
  BY <1>1 DEF SInv, ScalarTypeOK, Payloads, Kind
<1>3. \A t \in Thread : ReaderTrue(t)'
  BY <1>1 DEF ReaderTrue
<1>4. InSight' /\ Answers'
  BY <1>1, <1>3 DEF SInv, InSight, Answers
<1> QED BY <1>2, <1>4 DEF SInv

LEMMA AssignStep ==
  ASSUME SInv, NEW p \in Fresh \union {copy}, Assign(p)
  PROVE  SInv'
<1>1. /\ payload' = p /\ warned' = 0 /\ spoiled' = FALSE
      /\ valid' = [f \in Face |-> FALSE] /\ cached' = [cached EXCEPT !["string"] = Zero["string"]]
      /\ UNCHANGED <<full, scalarReadonly, readers, copy>> /\ Alone
  BY DEF Assign
<1>2. Payloads'
  BY <1>1, Assignable DEF SInv, Payloads
<1>3. Silence'
  BY <1>1 DEF Silence
<1>4. CacheTrue' /\ valid' \in [Face -> BOOLEAN]
  BY <1>1 DEF CacheTrue
<1>5. DOMAIN cached' = Face /\ \A f \in Face : cached'[f].kind = Zero[f].kind
  BY <1>1 DEF SInv, ScalarTypeOK, Answers
<1>6. <<full', scalarReadonly', spoiled'>> \in BOOLEAN \X BOOLEAN \X BOOLEAN /\ (scalarReadonly' => full')
  BY <1>1 DEF SInv, ScalarTypeOK
<1> QED BY <1>1, <1>2, <1>3, <1>4, <1>5, <1>6, WriterStep

\* A writer that leaves the payload and the caches alone.
LEMMA FlagStep ==
  ASSUME SInv, Alone, UNCHANGED <<payload, cached, valid, readers, copy, warned, spoiled>>,
         full' \in BOOLEAN, scalarReadonly' \in BOOLEAN, scalarReadonly' => full'
  PROVE  SInv'
<1>1. Payloads' /\ Silence' /\ Excused' = Excused
  BY PayloadsStay
<1>2. ~Excused' => CacheTrue'
  BY <1>1 DEF SInv, InSight, CacheTrue
<1>3. /\ <<full', scalarReadonly', spoiled'>> \in BOOLEAN \X BOOLEAN \X BOOLEAN
      /\ valid' \in [Face -> BOOLEAN] /\ \A f \in Face : cached'[f].kind = Zero[f].kind
      /\ DOMAIN cached' = Face
  BY DEF SInv, ScalarTypeOK, Answers
<1> QED BY <1>1, <1>2, <1>3, WriterStep

\* What numifying a text that warns leaves: a dual whose faces, if they are the
\* text's, are still those the caches hold.
LEMMA NumifyStep ==
  ASSUME SInv, Numify
  PROVE  SInv'
<1>1. /\ Alone /\ Warns(payload) /\ UNCHANGED <<full, scalarReadonly, cached, valid, readers, copy>>
  BY DEF Numify
<1>2. payload.kind = "text" /\ payload = Text(payload.text) /\ warned = 0
  BY <1>1 DEF SInv, Payloads, Silence, Warns
<1>3. /\ valid' \in [Face -> BOOLEAN] /\ \A f \in Face : cached'[f].kind = Zero[f].kind
      /\ scalarReadonly' => full'
      /\ <<full', scalarReadonly', spoiled>> \in BOOLEAN \X BOOLEAN \X BOOLEAN
      /\ DOMAIN cached' = Face
  BY <1>1 DEF SInv, ScalarTypeOK, Answers
<1>4. CASE /\ payload' = Dual(payload.text, Classify(payload.text).number)
           /\ warned' = warned + 1 /\ spoiled' = spoiled
  <2>1. payload'.kind = "dual" /\ payload'.text = payload.text
    BY <1>4, FaceKinds
  <2>2. Payloads'
    BY <1>1, <1>2, <2>1 DEF SInv, Payloads, Kind, Warns, readers
  <2>3. Silence'
    BY <1>2, <1>4, <2>1 DEF Silence, Warns
  <2>4. ASSUME ~Excused'
        PROVE  CacheTrue'
    <3>1. ~spoiled /\ Faithful(payload.text)
      BY <1>2, <1>4, <2>1, <2>4 DEF Excused
    <3>2. \A f \in Face : Coerced(f, payload') = Coerced(f, payload)
      BY <1>2, <1>4, <3>1 DEF Faithful
    <3>3. CacheTrue
      BY <1>2, <3>1 DEF SInv, InSight, Excused
    <3> QED BY <1>1, <3>2, <3>3 DEF CacheTrue
  <2> QED BY <1>1, <1>3, <1>4, <2>2, <2>3, <2>4, WriterStep
<1>5. CASE payload' = Undefined /\ spoiled' = TRUE /\ warned' = warned
  <2>1. payload'.kind = "undef"
    BY <1>5, FaceKinds
  <2>2. Payloads'
    BY <1>1, <2>1 DEF SInv, Payloads, Kind
  <2>3. Silence'
    BY <1>2, <1>5, <2>1 DEF Silence, Warns
  <2>4. Excused'
    BY <1>5 DEF Excused
  <2>5. <<full', scalarReadonly', spoiled'>> \in BOOLEAN \X BOOLEAN \X BOOLEAN
    BY <1>3, <1>5
  <2> QED BY <1>1, <1>3, <2>2, <2>3, <2>4, <2>5, WriterStep
<1> QED BY <1>4, <1>5 DEF Numify

LEMMA StepInv ==
  ASSUME SInv, [ScalarNext]_scalar_vars
  PROVE  SInv'
<1>1. ASSUME NEW t \in Thread, NEW f \in Face, Read(t, f)
      PROVE  SInv'
  BY <1>1, ReadStep
<1>2. ASSUME NEW t \in Thread, Probe(t) \/ Load(t) \/ StoreFace(t) \/ Publish(t) \/ Release(t)
      PROVE  SInv'
  BY <1>2, ProbeStep, LoadStep, StoreFaceStep, PublishStep, ReleaseStep
<1>3. CASE CopyOut
  BY <1>3, CopyStep
<1>4. CASE Upgrade
  <2>1. scalarReadonly' \in BOOLEAN
    BY <1>4 DEF SInv, ScalarTypeOK, Upgrade
  <2> QED BY <1>4, <2>1, FlagStep DEF Upgrade
<1>5. CASE Numify
  BY <1>5, NumifyStep
<1>6. ASSUME NEW p \in Fresh \union {copy}, Assign(p)
      PROVE  SInv'
  BY <1>6, AssignStep
<1>7. ASSUME NEW on \in BOOLEAN, SetScalarReadonly(on)
      PROVE  SInv'
  BY <1>7, FlagStep DEF SetScalarReadonly
<1>8. CASE UNCHANGED scalar_vars
  <2>1. UNCHANGED <<payload, full, scalarReadonly, cached, valid, pc, face, answer, copy, warned, spoiled>>
    BY <1>8 DEF scalar_vars, cell, readers
  <2>2. Payloads' /\ Silence' /\ Excused' = Excused
    BY <2>1, PayloadsStay
  <2> QED BY <2>1, <2>2 DEF SInv, ScalarTypeOK, InSight, CacheTrue, ReaderTrue, Answers
<1> QED BY <1>1, <1>2, <1>3, <1>4, <1>5, <1>6, <1>7, <1>8 DEF ScalarNext

-----------------------------------------------------------------------------
(* Scalar: the theorems.                                                   *)

\* In every behaviour of a shared scalar, a face that may be read from the
\* cache, and what any reader has in hand, is what the payload is worth, unless
\* a numification ran out of memory or left a number that is not worth what the
\* text was.  (scalar.rs Scalar, FullScalar)
THEOREM ScalarInvariant == ScalarSpec => []SInv
<1>1. ScalarInit => SInv
  BY InitInv
<1>2. SInv /\ [ScalarNext]_scalar_vars => SInv'
  BY StepInv
<1> QED BY <1>1, <1>2, PTL DEF ScalarSpec

\* Payload, caches and readers have their types, and a readonly cell is a full
\* one.  (scalar.rs FullScalar)
THEOREM ScalarTyped == ScalarSpec => []ScalarTypeOK
<1>1. SInv => ScalarTypeOK
  BY DEF SInv
<1> QED BY <1>1, ScalarInvariant, PTL

\* A text warns at most once between two assignments of a cell, whatever is
\* copied out and back.  (scalar.rs numify_noting_warning)
THEOREM WarnsAtMostOnce == ScalarSpec => []WarnsOnce
<1>1. SInv => WarnsOnce
  BY DEF SInv, Silence, WarnsOnce
<1> QED BY <1>1, ScalarInvariant, PTL

\* The cell now holds a dual that it came to by numifying a text in place, and
\* the number is not worth what the text was.
Misled == warned > 0 /\ payload.kind = "dual" /\ ~Faithful(payload.text)

\* For all texts and numbers: in-place numification is the only way to a wrong
\* answer, and only by a text whose number is not worth what the text was.
\* (scalar.rs Scalar::to_int, numify_noting_warning)
THEOREM OnlyNumifyingMisleads == ScalarSpec => [](AnswersRight \/ Misled)
<1>1. SInv => AnswersRight \/ Misled
  BY DEF SInv, InSight, ReaderTrue, Excused, AnswersRight, Misled
<1> QED BY <1>1, ScalarInvariant, PTL

\* Among texts that are worth as much as their numbers, a reader is told what
\* the payload is worth now, from a cache or not, however the readers that fill
\* the caches interleave with each other and with the writers.
\* (scalar.rs Scalar::to_int, to_float, stringify)
THEOREM AnswersAreRight ==
  ASSUME \A s \in Texts : Classify(s).warns => Faithful(s)
  PROVE  ScalarSpec => []AnswersRight
<1>1. SInv => AnswersRight
  BY DEF SInv, Payloads, InSight, ReaderTrue, Excused, AnswersRight
<1> QED BY <1>1, ScalarInvariant, PTL

\* Among the same texts nothing changes a face of a cell that is readonly and
\* stays so, unless numifying it ran out of memory.  (scalar.rs Scalar::assign)
THEOREM ReadonlyIsKept ==
  ASSUME \A s \in Texts : Classify(s).warns => Faithful(s)
  PROVE  ScalarSpec => ReadonlyKept
<1>1. SInv /\ [ScalarNext]_scalar_vars =>
        [scalarReadonly /\ scalarReadonly' =>
           spoiled' \/ \A f \in Face : Coerced(f, payload') = Coerced(f, payload)]_scalar_vars
  <2> SUFFICES ASSUME SInv, ScalarNext, scalarReadonly, payload' # payload, ~spoiled'
               PROVE  \A f \in Face : Coerced(f, payload') = Coerced(f, payload)
    OBVIOUS
  <2>1. Numify
    BY DEF ScalarNext, Read, Probe, Load, StoreFace, Publish, Release, CopyOut, Upgrade, Assign,
           SetScalarReadonly, cell
  <2>2. /\ Warns(payload) /\ payload = Text(payload.text) /\ payload.text \in Texts
        /\ payload' = Dual(payload.text, Classify(payload.text).number)
    BY <2>1 DEF SInv, Payloads, Numify, Warns
  <2>3. Faithful(payload.text)
    BY <2>2 DEF Warns
  <2> QED BY <2>2, <2>3 DEF Faithful
<1> QED BY <1>1, ScalarInvariant, PTL DEF ScalarSpec, ReadonlyKept

=============================================================================
