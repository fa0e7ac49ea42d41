------------------------------ MODULE HashEach ------------------------------
(***************************************************************************)
(* The three hash engines of core/src/containers.rs and their iteration:   *)
(* a bucket index into a table that may rehash, an entry index into an     *)
(* ordered map that swaps on removal, and a walk over a snapshot of a      *)
(* persistent map.  Every operation runs under the hash's lock, so it is   *)
(* one step, whichever threads share the handle.  Values are left out: a   *)
(* store to an existing key changes no key.                                *)
(***************************************************************************)
EXTENDS Naturals, SequencesExt

CONSTANTS
    Key,
    None,       \* an empty bucket, no walk, no pair
    Engine,     \* the engines of a run
    Sizes,      \* bound: the numbers of buckets a table may have
    Passed      \* the engines whose caller may delete a key the pass has
                \* yielded before the last one

ASSUME HashEachAssumption ==
    /\ {None, "ok", "ReadOnly"} \cap Key = {} /\ None \notin Seq(Key) /\ IsFiniteSet(Key)
    /\ Engine \subseteq {"Perl", "Ordered", "Immutable"}
    /\ Passed \subseteq {"Perl", "Ordered", "Immutable"}
    /\ Sizes \subseteq Nat

VARIABLES
    engine,
    slots,      \* Perl: the buckets; Ordered: the entries
    cursor,     \* Perl and Ordered: the buckets or entries the pass is past
    map,        \* Immutable: the keys
    walk,       \* Immutable: what the parked iterator has left, or None
    hashReadonly,
    visited, stable, hashResult     \* see HashIteration

table == <<slots, cursor, map, walk>>
pass == <<visited, stable>>
hash_vars == <<engine, table, hashReadonly, pass, hashResult>>

KeysOf(s) == {s[i] : i \in DOMAIN s} \ {None}

Contents == IF engine = "Immutable" THEN map ELSE KeysOf(slots)

HashInit ==
    /\ engine \in Engine
    /\ slots = <<>> /\ cursor = 0 /\ map = {} /\ walk = None
    /\ hashReadonly = FALSE
    /\ visited = {} /\ stable = {} /\ hashResult = "ok"

-----------------------------------------------------------------------------
(* What an operation reports, and what becomes of the pass.                *)

Report(r) == hashResult' = r /\ UNCHANGED <<engine, hashReadonly>>

SamePass == UNCHANGED pass
NewPass(s) == visited' = {} /\ stable' = s

-----------------------------------------------------------------------------
(* Changes.                                                                *)

\* A table with k added: k takes an empty bucket, or everything is rehashed.
WithKey(k) ==
    {[slots EXCEPT ![i] = k] : i \in {j \in DOMAIN slots : slots[j] = None}}
    \cup {t \in UNION {[1 .. n -> Key \cup {None}] : n \in {m \in Sizes : m >= Len(slots)}} :
            /\ KeysOf(t) = KeysOf(slots) \cup {k}
            /\ \A i, j \in DOMAIN t : t[i] = t[j] /\ t[i] # None => i = j}

\* Fault: the cursor stays where it was in the old buckets.
InsertBucketKeeps(k) ==
    /\ engine = "Perl"
    /\ slots' \in WithKey(k)
    /\ SamePass
    /\ UNCHANGED <<cursor, map, walk>>

\* A new key resets the bucket cursor, since any bucket may have moved.
InsertBucket(k) ==
    /\ engine = "Perl"
    /\ slots' \in WithKey(k)
    /\ cursor' = 0
    /\ NewPass(Contents \cup {k})
    /\ UNCHANGED <<map, walk>>

InsertEntry(k) ==
    /\ engine = "Ordered"
    /\ slots' = Append(slots, k)
    /\ SamePass
    /\ UNCHANGED <<cursor, map, walk>>

InsertPersistent(k) ==
    /\ engine = "Immutable"
    /\ map' = map \cup {k}
    /\ SamePass
    /\ UNCHANGED <<slots, cursor, walk>>

\* store, and entry_or_undef's vivification: an existing key is updated in
\* place, and the cursor left alone.
StoreKey(k) ==
    /\ ~hashReadonly
    /\ Report("ok")
    /\ \/ k \in Contents /\ SamePass /\ UNCHANGED table
       \/ k \notin Contents /\ (InsertBucket(k) \/ InsertEntry(k) \/ InsertPersistent(k))

EraseBucket(k) ==
    /\ engine = "Perl"
    /\ slots' = [i \in DOMAIN slots |-> IF slots[i] = k THEN None ELSE slots[i]]
    /\ UNCHANGED <<cursor, map, walk>>

\* swap_remove_index: the last entry takes the place of the i-th.
SwapRemoved(i) == [j \in 1 .. Len(slots) - 1 |-> IF j = i THEN slots[Len(slots)] ELSE slots[j]]

SwapEntry(k) ==
    /\ engine = "Ordered"
    /\ \E i \in DOMAIN slots :
        /\ slots[i] = k
        /\ slots' = SwapRemoved(i)
        /\ cursor' = IF i - 1 < cursor THEN cursor - 1 ELSE cursor
    /\ UNCHANGED <<map, walk>>

RemovePersistent(k) ==
    /\ engine = "Immutable"
    /\ map' = map \ {k}
    /\ UNCHANGED <<slots, cursor, walk>>

\* Deletion never resets the pass.
DeleteKey(k) ==
    /\ ~hashReadonly
    /\ k \in visited /\ hashResult # k => engine \in Passed
    /\ Report("ok")
    /\ \/ k \notin Contents /\ SamePass /\ UNCHANGED table
       \/ /\ k \in Contents
          /\ EraseBucket(k) \/ SwapEntry(k) \/ RemovePersistent(k)
          /\ visited' = visited \ {k} /\ stable' = stable \ {k}

ClearKeys ==
    /\ ~hashReadonly
    /\ Report("ok")
    /\ slots' = IF engine = "Perl" THEN [i \in DOMAIN slots |-> None] ELSE <<>>
    /\ cursor' = 0 /\ map' = {} /\ walk' = None
    /\ NewPass({})

\* check_writable fails.
RejectHash == hashReadonly /\ Report("ReadOnly") /\ SamePass /\ UNCHANGED table

SetHashReadonly == hashReadonly' \in BOOLEAN /\ hashResult' = "ok" /\ SamePass /\ UNCHANGED <<engine, table>>

-----------------------------------------------------------------------------
(* Iteration.                                                              *)

Yield(k) == Report(k) /\ visited' = visited \cup {k} /\ UNCHANGED stable

Exhaust == Report(None) /\ NewPass(Contents)

\* each on an index: the next occupied slot, from the cursor on.
EachSlot ==
    /\ engine \in {"Perl", "Ordered"}
    /\ LET ahead == {i \in DOMAIN slots : i > cursor /\ slots[i] # None}
       IN  \/ ahead # {} /\ cursor' = Min(ahead) /\ Yield(slots[Min(ahead)])
           \/ ahead = {} /\ cursor' = 0 /\ Exhaust
    /\ UNCHANGED <<slots, map, walk>>

\* each on a snapshot, taken when none is parked, in whatever order the trie
\* has: keys deleted since are skipped.
EachWalk ==
    /\ engine = "Immutable"
    /\ \E w \in IF walk = None THEN SetToSeqs(map) ELSE {walk} :
        LET alive == {i \in DOMAIN w : w[i] \in map}
        IN  \/ alive # {} /\ walk' = SubSeq(w, Min(alive) + 1, Len(w)) /\ Yield(w[Min(alive)])
            \/ alive = {} /\ walk' = None /\ Exhaust
    /\ UNCHANGED <<slots, cursor, map>>

\* keys and values reset the cursor, or retire the walk.
Keys ==
    /\ Report("ok")
    /\ cursor' = 0 /\ walk' = None
    /\ NewPass(Contents)
    /\ UNCHANGED <<slots, map>>

HashNext ==
    \/ \E k \in Key : StoreKey(k)
    \/ \E k \in Key : DeleteKey(k)
    \/ ClearKeys \/ RejectHash \/ SetHashReadonly \/ EachSlot \/ EachWalk \/ Keys

HashSpec == HashInit /\ [][HashNext]_hash_vars

-----------------------------------------------------------------------------
(* Properties.                                                             *)

\* Every variable has its type: a key is stored once, and the cursor is an
\* index that has not wrapped below zero or gone past the slots.
HashTypeOK ==
    /\ engine \in Engine
    /\ slots \in Seq(Key \cup {None})
    /\ \A i, j \in DOMAIN slots : slots[i] = slots[j] /\ slots[i] # None => i = j
    /\ cursor \in 0 .. Len(slots)
    /\ map \subseteq Key
    /\ walk = None \/ walk \in Seq(Key)
    /\ hashReadonly \in BOOLEAN
    /\ visited \subseteq Contents /\ stable \subseteq Contents
    /\ hashResult \in Key \cup {None, "ok", "ReadOnly"}

\* "Delete-during-iteration is exact", and so is the rest: whichever engine,
\* and whatever is stored, deleted or cleared between calls of each, a pass
\* yields every key that stays exactly once, and no key that is gone.
I == INSTANCE HashIteration WITH contents <- Contents, result <- hashResult
IsIteration == I!Spec

=============================================================================
