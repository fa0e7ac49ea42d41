--------------------------- MODULE RefCountProofs ---------------------------
(***************************************************************************)
(* The counting protocol of RefCount for any number of threads, handles    *)
(* and objects, as long as the counts cannot reach their ceiling: each     *)
(* count is exact, nothing reachable is freed, an in-place writer is       *)
(* alone, and nothing leaks.                                               *)
(***************************************************************************)
EXTENDS RefCount, FiniteSetTheorems, TLAPS

\* A handle has an owner exactly while it holds a reference, and is a heap
\* form only then.
Ownership == \A h \in Handle : owner[h] = None <=> refers[h] = None

\* A thread has a reference in flight exactly between a retain or a copy and
\* its installation.
Flight == \A t \in Thread : refers[t] # None <=> pc[t] \in {"span", "install"}

\* The handle an operation in progress works on is the thread's own.
Argument ==
    \A t \in Thread : pc[t] \in {"write", "copy", "install"} => arg[t] \in Handle /\ owner[arg[t]] = t

\* References lead to live objects only.
RefersLive == \A s \in Slot : refers[s] # None => status[refers[s]] = "live"

\* A live object is referred to, and a free one holds nothing.
LiveHeld == \A o \in Object : status[o] = "live" => count[o] # 0
FreeHoldsNothing == \A o \in Object : status[o] = "free" => refers[o] = None

\* A thread in a drop does nothing else.
Dropping == \A t \in Thread : top[t] # None => pc[t] = "idle"

\* The stacks of drops: what is on a stack is dying, and no two frames share
\* an object.
Stacks ==
    /\ \A t \in Thread : top[t] # None => status[top[t]] = "dying"
    /\ \A o \in Object : status[o] = "dying" /\ caller[o] # None => status[caller[o]] = "dying"
    /\ \A t, u \in Thread : top[t] # None /\ top[t] = top[u] => t = u
    /\ \A t \in Thread, o \in Object : status[o] = "dying" /\ top[t] # None => caller[o] # top[t]
    /\ \A o, p \in Object :
        status[o] = "dying" /\ status[p] = "dying" /\ caller[o] # None /\ caller[o] = caller[p] => o = p

\* Every dying object is on a stack.
Stacked ==
    \A o \in Object : status[o] = "dying" =>
        \/ \E t \in Thread : top[t] = o
        \/ \E p \in Object : status[p] = "dying" /\ caller[p] = o

\* A live object's bytes are its own or those of the object it holds.
BaseOfHolder ==
    \A o \in Object : status[o] = "live" =>
        base[o] = IF refers[o] = None THEN o ELSE base[refers[o]]

\* Chains of holders end: every set of objects has a member whose holder is
\* not in it.
Grounded == \A S \in SUBSET Object : S # {} => \E o \in S : refers[o] \notin S

\* An in-place writer's handle is the only reference on its buffer.
WriterAlone == \A t \in Thread : pc[t] = "write" => Referrers(refers[arg[t]]) = {arg[t]}

RefTypes ==
    /\ refers \in [Slot -> Object \cup {None}]
    /\ owner \in [Handle -> Thread \cup {None}]
    /\ writable \in [Handle -> BOOLEAN]
    /\ status \in [Object -> {"free", "live", "dying"}]
    /\ kind \in [Object -> {"buffer", "adopted"}]
    /\ count \in [Object -> 0 .. Ceiling]
    /\ base \in [Object -> Object]
    /\ pc \in [Thread -> {"idle", "overflow", "span", "write", "copy", "install"}]
    /\ arg \in [Thread -> Handle \cup {None}]
    /\ top \in [Thread -> Object \cup {None}]
    /\ caller \in [Object -> Object \cup {None}]
    /\ halted \in BOOLEAN

\* What is true of the objects, their counts and the references on them.
Graph ==
    /\ CountExact
    /\ RefersLive /\ LiveHeld /\ FreeHoldsNothing
    /\ Stacks /\ Stacked
    /\ BaseOfHolder /\ Grounded

\* What is true of the threads and their handles.
Threads == Ownership /\ Flight /\ Argument /\ Dropping /\ WriterAlone

IInv == RefTypes /\ Graph /\ Threads

-----------------------------------------------------------------------------
(* Counting the references of a function from slots to objects.            *)

Refs(f, o) == {s \in Slot : f[s] = o}

LEMMA ConstantFacts ==
    /\ IsFiniteSet(Slot)
    /\ None \notin Slot /\ None \notin Object
    /\ Object \subseteq Slot
    /\ \A t \in Thread : t \in Slot /\ t \notin Handle /\ t \notin Object
    /\ \A h \in Handle : h \in Slot /\ h \notin Thread /\ h \notin Object
BY RefCountAssumption, FS_Union DEF Slot

\* The references on o are finitely many, and at most the slots.
LEMMA RefsFinite ==
    ASSUME NEW f, NEW o
    PROVE  /\ IsFiniteSet(Refs(f, o))
           /\ Cardinality(Refs(f, o)) \in Nat
           /\ Cardinality(Refs(f, o)) = 0 <=> Refs(f, o) = {}
           /\ Cardinality(Refs(f, o)) <= Cardinality(Slot)
           /\ Cardinality(Refs(f, o)) = Cardinality(Slot) => Refs(f, o) = Slot
BY ConstantFacts, FS_Subset, FS_CardinalityType, FS_EmptySet DEF Refs

\* Changing what one slot refers to changes two counts, by one each.
LEMMA OneSlot ==
    ASSUME NEW f \in [Slot -> Object \cup {None}], NEW s \in Slot,
           NEW v \in Object \cup {None}, NEW o \in Object
    PROVE  LET n == Cardinality(Refs(f, o))
               m == Cardinality(Refs([f EXCEPT ![s] = v], o))
           IN  /\ v = o /\ f[s] # o => m = n + 1
               /\ v # o /\ f[s] = o => m = n - 1
               /\ (v = o <=> f[s] = o) => m = n
<1> DEFINE g == [f EXCEPT ![s] = v]
<1>1. IsFiniteSet(Refs(f, o)) /\ Cardinality(Refs(f, o)) \in Nat
  BY RefsFinite
<1>2. s \in Refs(f, o) <=> f[s] = o
  BY DEF Refs
<1>3. CASE v = o
  <2>1. Refs(g, o) = Refs(f, o) \cup {s}
    BY <1>3 DEF Refs
  <2>2. Cardinality(Refs(g, o)) =
            IF s \in Refs(f, o) THEN Cardinality(Refs(f, o)) ELSE Cardinality(Refs(f, o)) + 1
    BY <1>1, <2>1, FS_AddElement
  <2> QED BY <1>1, <1>2, <1>3, <2>2
<1>4. CASE v # o
  <2>1. Refs(g, o) = Refs(f, o) \ {s}
    BY <1>4 DEF Refs
  <2>2. Cardinality(Refs(g, o)) =
            IF s \in Refs(f, o) THEN Cardinality(Refs(f, o)) - 1 ELSE Cardinality(Refs(f, o))
    BY <1>1, <2>1, FS_RemoveElement
  <2> QED BY <1>1, <1>2, <1>4, <2>2
<1> QED BY <1>3, <1>4

LEMMA ReferrersAreRefs == \A o : Referrers(o) = Refs(refers, o) /\ Referrers(o)' = Refs(refers', o)
BY DEF Referrers, Refs

\* While a slot is free to take one more reference on o, its count is below
\* the number of slots.
LEMMA Room ==
    ASSUME RefTypes, CountExact, NEW o \in Object, NEW s \in Slot, refers[s] # o
    PROVE  count[o] < Cardinality(Slot)
<1>1. Refs(refers, o) # Slot
  BY DEF Refs
<1> QED BY <1>1, RefsFinite, ReferrersAreRefs, ConstantFacts, FS_CardinalityType DEF CountExact

-----------------------------------------------------------------------------
(* What the operations do to the graph of objects and references.          *)

USE ConstantFacts

\* An object fresh from the allocator, referred to by one slot.
LEMMA FreshKeepsGraph ==
    ASSUME RefTypes, Graph,
           NEW o \in Object, NEW s \in Handle \cup Thread,
           status[o] = "free", refers[s] = None,
           refers' = [refers EXCEPT ![s] = o],
           status' = [status EXCEPT ![o] = "live"],
           count' = [count EXCEPT ![o] = 1],
           base' = [base EXCEPT ![o] = o],
           UNCHANGED <<top, caller>>
    PROVE  Graph'
<1>1. Refs(refers, o) = {}
  BY DEF Refs, Graph, RefersLive
<1>2. CountExact'
  <2> SUFFICES ASSUME NEW p \in Object PROVE count'[p] = Cardinality(Refs(refers', p))
    BY ReferrersAreRefs DEF CountExact
  <2>a. refers \in [Slot -> Object \cup {None}] /\ s \in Slot /\ o \in Object \cup {None}
    BY DEF RefTypes
  <2>b. refers[s] # p
    OBVIOUS
  <2>1. /\ o = p => Cardinality(Refs(refers', p)) = Cardinality(Refs(refers, p)) + 1
        /\ o # p => Cardinality(Refs(refers', p)) = Cardinality(Refs(refers, p))
    BY ONLY <2>a, <2>b, OneSlot, p \in Object, refers' = [refers EXCEPT ![s] = o]
  <2>2. count[p] = Cardinality(Refs(refers, p)) /\ Cardinality(Refs(refers, p)) \in Nat
    BY ReferrersAreRefs, RefsFinite DEF Graph, CountExact
  <2> QED BY <1>1, <2>1, <2>2, RefsFinite DEF RefTypes
<1>3. RefersLive' /\ LiveHeld' /\ FreeHoldsNothing'
  BY DEF RefTypes, Graph, RefersLive, LiveHeld, FreeHoldsNothing
<1>4. Stacks' /\ Stacked'
  BY DEF RefTypes, Graph, Stacks, Stacked
<1>5. BaseOfHolder'
  BY DEF RefTypes, Graph, BaseOfHolder, RefersLive, FreeHoldsNothing
<1>6. Grounded'
  BY DEF RefTypes, Graph, Grounded
<1> QED BY <1>2, <1>3, <1>4, <1>5, <1>6 DEF Graph

\* One more reference on a live object, in a slot that held none.
LEMMA RetainKeepsGraph ==
    ASSUME Cardinality(Slot) <= Ceiling, RefTypes, Graph,
           NEW o \in Object, NEW s \in Handle \cup Thread,
           status[o] = "live", refers[s] = None,
           refers' = [refers EXCEPT ![s] = o],
           count' = [count EXCEPT ![o] = Incremented(@)],
           UNCHANGED <<status, base, top, caller>>
    PROVE  Graph' /\ count'[o] = count[o] + 1 /\ count'[o] \in 0 .. Ceiling
<1>1. count[o] < Ceiling
  <2>1. count[o] < Cardinality(Slot)
    BY Room DEF Graph
  <2>2. count[o] \in Nat /\ Cardinality(Slot) \in Nat /\ Ceiling \in Nat
    BY RefCountAssumption, FS_CardinalityType DEF RefTypes
  <2> QED BY <2>1, <2>2
<1>2. Incremented(count[o]) = count[o] + 1
  <2>1. count[o] \in Nat /\ Ceiling \in Nat
    BY RefCountAssumption DEF RefTypes
  <2> QED BY ONLY <1>1, <2>1 DEF Incremented
<1>3. CountExact'
  <2> SUFFICES ASSUME NEW p \in Object PROVE count'[p] = Cardinality(Refs(refers', p))
    BY ReferrersAreRefs DEF CountExact
  <2>a. refers \in [Slot -> Object \cup {None}] /\ s \in Slot /\ o \in Object \cup {None}
    BY DEF RefTypes
  <2>b. refers[s] # p
    OBVIOUS
  <2>1. /\ o = p => Cardinality(Refs(refers', p)) = Cardinality(Refs(refers, p)) + 1
        /\ o # p => Cardinality(Refs(refers', p)) = Cardinality(Refs(refers, p))
    BY ONLY <2>a, <2>b, OneSlot, p \in Object, refers' = [refers EXCEPT ![s] = o]
  <2>2. count[p] = Cardinality(Refs(refers, p)) /\ Cardinality(Refs(refers, p)) \in Nat
    BY ReferrersAreRefs, RefsFinite DEF Graph, CountExact
  <2> QED BY <1>2, <2>1, <2>2 DEF RefTypes
<1>4. RefersLive' /\ LiveHeld' /\ FreeHoldsNothing'
  BY <1>2 DEF RefTypes, Graph, RefersLive, LiveHeld, FreeHoldsNothing
<1>5. Stacks' /\ Stacked'
  BY DEF RefTypes, Graph, Stacks, Stacked
<1>6. BaseOfHolder' /\ Grounded'
  BY DEF RefTypes, Graph, BaseOfHolder, Grounded
<1>7. count'[o] = count[o] + 1 /\ count'[o] \in 0 .. Ceiling
  BY <1>1, <1>2, RefCountAssumption DEF RefTypes
<1> QED BY <1>3, <1>4, <1>5, <1>6, <1>7 DEF Graph

\* A fresh span child takes over the reference its thread retained.
LEMMA MintKeepsGraph ==
    ASSUME RefTypes, Graph,
           NEW c \in Object, NEW g \in Handle, NEW t \in Thread,
           status[c] = "free", refers[g] = None, refers[t] # None,
           refers' = [refers EXCEPT ![c] = refers[t], ![g] = c, ![t] = None],
           status' = [status EXCEPT ![c] = "live"],
           count' = [count EXCEPT ![c] = 1],
           base' = [base EXCEPT ![c] = base[refers[t]]],
           UNCHANGED <<top, caller>>
    PROVE  Graph'
<1>1. /\ refers[c] = None /\ Refs(refers, c) = {}
      /\ refers[t] \in Object /\ refers[t] # c
  BY DEF Refs, RefTypes, Graph, RefersLive, FreeHoldsNothing
<1>2. \A x \in Slot : refers'[x] = IF x = c THEN refers[t] ELSE IF x = g THEN c
                                    ELSE IF x = t THEN None ELSE refers[x]
  BY DEF RefTypes
<1>3. CountExact'
  <2> SUFFICES ASSUME NEW p \in Object PROVE count'[p] = Cardinality(Refs(refers', p))
    BY ReferrersAreRefs DEF CountExact
  <2>1. /\ count[p] = Cardinality(Refs(refers, p)) /\ Cardinality(Refs(refers, p)) \in Nat
        /\ IsFiniteSet(Refs(refers, p))
    BY ReferrersAreRefs, RefsFinite DEF Graph, CountExact
  <2>2. CASE p = c
    <3>1. \A x \in Slot : refers'[x] = c <=> x = g
      <4> TAKE x \in Slot
      <4>1. refers[x] # c
        BY ONLY <1>1, x \in Slot DEF Refs
      <4>2. c # None /\ g # c
        BY ConstantFacts
      <4> QED BY ONLY <1>1, <1>2, <4>1, <4>2, x \in Slot
    <3>2. g \in Slot
      BY ConstantFacts
    <3>3. Refs(refers', p) = {g}
      BY ONLY <2>2, <3>1, <3>2 DEF Refs
    <3> QED BY <2>2, <3>3, FS_Singleton DEF RefTypes
  <2>3. CASE p = refers[t]
    <3>1. Refs(refers', p) = (Refs(refers, p) \ {t}) \cup {c}
      BY <1>1, <1>2, <2>3 DEF Refs
    <3>2. t \in Refs(refers, p) /\ c \notin Refs(refers, p) \ {t}
      BY <1>1, <2>3 DEF Refs
    <3>3. /\ IsFiniteSet(Refs(refers, p) \ {t})
          /\ Cardinality(Refs(refers, p) \ {t}) = Cardinality(Refs(refers, p)) - 1
      BY <2>1, <3>2, FS_RemoveElement
    <3>4. Cardinality((Refs(refers, p) \ {t}) \cup {c}) = Cardinality(Refs(refers, p) \ {t}) + 1
      BY <3>2, <3>3, FS_AddElement
    <3>5. Cardinality(Refs(refers', p)) = Cardinality(Refs(refers, p))
      BY ONLY <2>1, <3>1, <3>3, <3>4
    <3> QED BY <1>1, <2>1, <2>3, <3>5 DEF RefTypes
  <2>4. CASE p # c /\ p # refers[t]
    <3>1. Refs(refers', p) = Refs(refers, p)
      BY <1>1, <1>2, <2>4 DEF Refs
    <3> QED BY <2>1, <2>4, <3>1 DEF RefTypes
  <2> QED BY <2>2, <2>3, <2>4
<1>4. RefersLive' /\ LiveHeld' /\ FreeHoldsNothing'
  BY <1>1 DEF RefTypes, Graph, RefersLive, LiveHeld, FreeHoldsNothing
<1>5. Stacks' /\ Stacked'
  BY DEF RefTypes, Graph, Stacks, Stacked
<1>6. BaseOfHolder'
  BY <1>1 DEF RefTypes, Graph, BaseOfHolder, RefersLive
<1>7. Grounded'
  <2> SUFFICES ASSUME NEW S \in SUBSET Object, S # {} PROVE \E o \in S : refers'[o] \notin S
    BY DEF Grounded
  <2>1. \A o \in Object : refers'[o] = IF o = c THEN refers[t] ELSE refers[o]
    BY DEF RefTypes
  <2>2. CASE S \ {c} = {}
    <3>1. S = {c}
      BY <2>2
    <3>2. refers'[c] = refers[t]
      BY <2>1
    <3> QED BY ONLY <1>1, <3>1, <3>2
  <2>3. CASE S \ {c} # {}
    <3>1. PICK o \in S \ {c} : refers[o] \notin S \ {c}
      BY <2>3 DEF Graph, Grounded
    <3>2. refers[o] # c
      BY <1>1 DEF Refs
    <3> QED BY ONLY <2>1, <3>1, <3>2, S \in SUBSET Object
  <2> QED BY <2>2, <2>3
<1> QED BY <1>3, <1>4, <1>5, <1>6, <1>7 DEF Graph

\* A release of one of the references on a live object: the slots lose one
\* reference on it and no other, and an object loses its holder's only when
\* it is the dying one whose drop this release is part of.
LEMMA ReleaseKeepsGraph ==
    ASSUME RefTypes, Graph,
           NEW o \in Object, NEW t \in Thread, NEW frame \in Object \cup {None},
           status[o] = "live", Release(t, o, frame), top[t] = frame,
           base' = base,
           refers' \in [Slot -> Object \cup {None}],
           \A p \in Object : Cardinality(Refs(refers, p)) =
                            Cardinality(Refs(refers', p)) + (IF p = o THEN 1 ELSE 0),
           \A p \in Object : refers'[p] = refers[p] \/ (refers'[p] = None /\ p = frame)
    PROVE  Graph' /\ count'[o] \in 0 .. Ceiling
<1>1. \A p \in Object :
        /\ Cardinality(Refs(refers', p)) \in Nat /\ Cardinality(Refs(refers, p)) \in Nat
        /\ count[p] = Cardinality(Refs(refers, p))
  BY RefsFinite, ReferrersAreRefs DEF Graph, CountExact
<1>2. count[o] \in 1 .. Ceiling
  BY <1>1 DEF RefTypes
<1>3. count' = [count EXCEPT ![o] = count[o] - 1]
  <2>1. Decremented(count[o]) = count[o] - 1
    BY <1>2, RefCountAssumption DEF Decremented
  <2> QED BY <2>1 DEF Release
<1>4. CountExact'
  <2> SUFFICES ASSUME NEW p \in Object PROVE count'[p] = Cardinality(Refs(refers', p))
    BY ReferrersAreRefs DEF CountExact
  <2> QED BY <1>1, <1>3 DEF RefTypes
<1>5. \A s \in Slot : refers'[s] # None => Refs(refers', refers'[s]) # {}
  BY DEF Refs
<1>6. \A s \in Slot : refers'[s] # None => refers'[s] \in Object /\ count'[refers'[s]] # 0
  <2> SUFFICES ASSUME NEW s \in Slot, refers'[s] # None
               PROVE  refers'[s] \in Object /\ count'[refers'[s]] # 0
    OBVIOUS
  <2>1. refers'[s] \in Object /\ count'[refers'[s]] = Cardinality(Refs(refers', refers'[s]))
    BY <1>4, ReferrersAreRefs DEF CountExact
  <2> QED BY <1>5, <2>1, RefsFinite
<1>7. \A p \in Object : status[p] # "live" => Refs(refers, p) = {} /\ count[p] = 0
  <2> SUFFICES ASSUME NEW p \in Object, status[p] # "live" PROVE Refs(refers, p) = {} /\ count[p] = 0
    OBVIOUS
  <2>1. Refs(refers, p) = {}
    BY DEF Graph, RefersLive, Refs
  <2> QED BY <1>1, <2>1, RefsFinite
<1>8. \A p \in Object : status'[p] =
        IF p = o /\ count[o] = 1 THEN "dying" ELSE status[p]
  BY DEF Release, RefTypes
<1>9. RefersLive'
  <2> SUFFICES ASSUME NEW s \in Slot, refers'[s] # None PROVE status'[refers'[s]] = "live"
    BY DEF RefersLive
  <2>1. refers'[s] \in Object /\ count'[refers'[s]] # 0
    BY <1>6
  <2>2. status[refers'[s]] = "live"
    BY <1>2, <1>3, <1>7, <2>1 DEF RefTypes
  <2>3. ~(refers'[s] = o /\ count[o] = 1)
    BY <1>3, <2>1 DEF RefTypes
  <2> QED BY <1>8, <2>1, <2>2, <2>3
<1>10. LiveHeld'
  BY <1>2, <1>3, <1>8 DEF RefTypes, Graph, LiveHeld
<1>11. FreeHoldsNothing'
  BY <1>8 DEF RefTypes, Graph, FreeHoldsNothing
<1>12. BaseOfHolder'
  <2> SUFFICES ASSUME NEW p \in Object, status'[p] = "live"
               PROVE  base[p] = IF refers'[p] = None THEN p ELSE base[refers'[p]]
    BY DEF BaseOfHolder
  <2>1. status[p] = "live"
    BY <1>8
  <2>2. p # frame
    BY <2>1 DEF Graph, Stacks
  <2> QED BY <2>1, <2>2 DEF Graph, BaseOfHolder
<1>13. Grounded'
  BY DEF Graph, Grounded
<1>14. Stacks' /\ Stacked'
  <2>1. CASE count[o] # 1
    BY <2>1 DEF Release, Graph, Stacks, Stacked
  <2>2. CASE count[o] = 1
    <3>1. /\ status' = [status EXCEPT ![o] = "dying"]
          /\ caller' = [caller EXCEPT ![o] = frame]
          /\ top' = [top EXCEPT ![t] = o]
      BY <2>2 DEF Release
    <3>2. Stacks'
      BY <3>1 DEF RefTypes, Graph, Stacks
    <3>3. Stacked'
      BY <3>1 DEF RefTypes, Graph, Stacks, Stacked
    <3> QED BY <3>2, <3>3
  <2> QED BY <2>1, <2>2
<1>15. count'[o] \in 0 .. Ceiling
  BY <1>2, <1>3, RefCountAssumption DEF RefTypes
<1> QED BY <1>4, <1>9, <1>10, <1>11, <1>12, <1>13, <1>14, <1>15 DEF Graph

\* The memory of a dying object on top of a stack is returned.
LEMMA DeallocateKeepsGraph ==
    ASSUME RefTypes, Graph, NEW t \in Thread, Deallocate(t)
    PROVE  Graph'
<1> DEFINE o == top[t]
<1>1. o \in Object /\ status[o] = "dying" /\ refers[o] = None
  BY DEF Deallocate, RefTypes, Graph, Stacks
<1>2. CountExact' /\ RefersLive' /\ LiveHeld' /\ FreeHoldsNothing'
  BY <1>1 DEF Deallocate, RefTypes, Graph, CountExact, Referrers, RefersLive, LiveHeld, FreeHoldsNothing
<1>3. BaseOfHolder' /\ Grounded'
  BY <1>1 DEF Deallocate, RefTypes, Graph, BaseOfHolder, Grounded, RefersLive
<1>4. Stacks'
  BY <1>1 DEF Deallocate, RefTypes, Graph, Stacks
<1>5. Stacked'
  BY <1>1 DEF Deallocate, RefTypes, Graph, Stacks, Stacked
<1> QED BY <1>2, <1>3, <1>4, <1>5 DEF Graph

\* Clearing one slot takes one reference from what it referred to.
LEMMA LoseOne ==
    ASSUME NEW f \in [Slot -> Object \cup {None}], NEW s \in Slot, f[s] \in Object,
           NEW p \in Object
    PROVE  Cardinality(Refs(f, p)) =
              Cardinality(Refs([f EXCEPT ![s] = None], p)) + (IF p = f[s] THEN 1 ELSE 0)
<1>1. Cardinality(Refs(f, p)) \in Nat /\ Cardinality(Refs([f EXCEPT ![s] = None], p)) \in Nat
  BY RefsFinite
<1>2. None # p /\ None \in Object \cup {None}
  OBVIOUS
<1>3. CASE p = f[s]
  <2>1. Cardinality(Refs([f EXCEPT ![s] = None], p)) = Cardinality(Refs(f, p)) - 1
    BY ONLY <1>2, <1>3, OneSlot, f \in [Slot -> Object \cup {None}], s \in Slot, p \in Object
  <2> QED BY <1>1, <1>3, <2>1
<1>4. CASE p # f[s]
  <2>1. Cardinality(Refs([f EXCEPT ![s] = None], p)) = Cardinality(Refs(f, p))
    BY ONLY <1>2, <1>4, OneSlot, f \in [Slot -> Object \cup {None}], s \in Slot, p \in Object
  <2> QED BY <1>1, <1>4, <2>1
<1> QED BY <1>3, <1>4

\* The same for a step that empties one slot, in the form the steps need.
LEMMA SlotEmptied ==
    ASSUME NEW f \in [Slot -> Object \cup {None}], NEW g \in [Slot -> Object \cup {None}],
           NEW s \in Slot, f[s] \in Object, g[s] = None,
           \A x \in Slot : x # s => g[x] = f[x],
           NEW p \in Object
    PROVE  Cardinality(Refs(f, p)) = Cardinality(Refs(g, p)) + (IF p = f[s] THEN 1 ELSE 0)
<1>1. Cardinality(Refs(f, p)) =
          Cardinality(Refs([f EXCEPT ![s] = None], p)) + (IF p = f[s] THEN 1 ELSE 0)
  BY ONLY LoseOne, f \in [Slot -> Object \cup {None}], s \in Slot, f[s] \in Object, p \in Object
<1>2. g = [f EXCEPT ![s] = None]
  OBVIOUS
<1> QED BY ONLY <1>1, <1>2

-----------------------------------------------------------------------------
(* What the operations do to the other threads.                            *)

\* Thread t leaves what belongs to the others alone, and a reference it adds
\* is a copy of one of its own or leads to a fresh object.
LEMMA OthersWriteAlone ==
    ASSUME RefTypes, Graph, Threads, NEW t \in Thread,
           \A u \in Thread \ {t} : pc'[u] = pc[u] /\ arg'[u] = arg[u],
           pc'[t] # "write",
           \A h \in Handle : owner[h] \notin {t, None} => refers'[h] = refers[h],
           \A s \in Slot :
              \/ refers'[s] \in {refers[s], None}
              \/ status[refers'[s]] = "free"
              \/ \E r \in Slot : refers[r] = refers'[s] /\ (r \in Handle => owner[r] = t)
    PROVE  WriterAlone'
<1> SUFFICES ASSUME NEW u \in Thread, pc'[u] = "write"
             PROVE  Refs(refers', refers'[arg'[u]]) = {arg'[u]}
  BY ReferrersAreRefs DEF WriterAlone, Refs, Referrers
<1> DEFINE h == arg[u]
<1>1. u # t /\ pc[u] = "write" /\ arg'[u] = h
  OBVIOUS
<1>2. h \in Handle /\ owner[h] = u
  BY <1>1 DEF Threads, Argument
<1>3. refers'[h] = refers[h] /\ refers[h] \in Object /\ status[refers[h]] = "live"
  BY <1>1, <1>2 DEF Threads, Ownership, RefTypes, Graph, RefersLive
<1>4. \A s \in Slot : refers[s] = refers[h] <=> s = h
  BY <1>1, <1>2 DEF Threads, WriterAlone, Referrers
<1>5. \A s \in Slot : refers'[s] = refers[h] => s = h
  BY <1>1, <1>2, <1>3, <1>4
<1> QED BY <1>1, <1>2, <1>3, <1>5 DEF Refs

-----------------------------------------------------------------------------
(* Each operation preserves the invariant.                                 *)

LEMMA AllocateStep ==
    ASSUME IInv, NEW t \in Thread, NEW h \in Handle, NEW o \in Object, NEW k \in Kind,
           Allocate(t, h, o, k)
    PROVE  IInv'
<1> USE DEF IInv
<1>1. RefTypes'
  BY RefCountAssumption DEF Allocate, Fresh, RefTypes
<1>2. refers[h] = None
  BY DEF Allocate, Empty, Threads, Ownership
<1>3. Graph'
  BY <1>2, FreshKeepsGraph DEF Allocate, Fresh
<1>4. Ownership' /\ Flight' /\ Argument' /\ Dropping'
  BY <1>2 DEF Allocate, Idle, Empty, Fresh, RefTypes, Threads, Ownership, Flight, Argument, Dropping
<1>5. WriterAlone'
  BY <1>2, OthersWriteAlone DEF Allocate, Idle, Empty, Fresh, RefTypes
<1> QED BY <1>1, <1>3, <1>4, <1>5 DEF Threads

LEMMA ShareStep ==
    ASSUME Cardinality(Slot) <= Ceiling, IInv,
           NEW t \in Thread, NEW h \in Handle, NEW g \in Handle, NEW w \in BOOLEAN,
           Share(t, h, g, w)
    PROVE  IInv'
<1> USE DEF IInv
<1>1. refers[h] \in Object /\ status[refers[h]] = "live" /\ refers[g] = None
  BY DEF Share, Holds, Empty, RefTypes, Threads, Ownership, Graph, RefersLive
<1>2. Graph' /\ count'[refers[h]] \in 0 .. Ceiling
  BY <1>1, RetainKeepsGraph DEF Share, Retain
<1>3. RefTypes'
  BY <1>1, <1>2 DEF Share, Retain, RefTypes
<1>4. Ownership' /\ Flight' /\ Argument' /\ Dropping'
  BY <1>1 DEF Share, Retain, Empty, RefTypes, Threads, Ownership, Flight, Argument, Dropping
<1>5. WriterAlone'
  <2>1. \A s \in Slot : refers'[s] = refers[s] \/ refers'[s] = refers[h]
    BY DEF Share, Retain, RefTypes
  <2>2. /\ owner[h] = t /\ pc' = pc /\ arg' = arg /\ pc[t] = "idle"
        /\ \A x \in Handle : owner[x] # None => refers'[x] = refers[x]
    BY DEF Share, Retain, Holds, Idle, Empty, RefTypes
  <2> QED BY <2>1, <2>2, OthersWriteAlone
<1> QED BY <1>2, <1>3, <1>4, <1>5 DEF Threads

LEMMA ShareNeverOverflows ==
    ASSUME Cardinality(Slot) <= Ceiling, IInv, NEW t \in Thread, NEW h \in Handle
    PROVE  ~ShareOverflows(t, h)
<1> SUFFICES ASSUME ShareOverflows(t, h) PROVE FALSE
  OBVIOUS
<1>1. refers[h] \in Object /\ refers[t] = None
  BY DEF ShareOverflows, Holds, Idle, IInv, RefTypes, Threads, Ownership, Flight
<1>2. count[refers[h]] < Cardinality(Slot)
  BY <1>1, Room DEF IInv, Graph
<1>3. count[refers[h]] = Ceiling
  BY DEF ShareOverflows, RetainOverflows, Overflows
<1> QED BY <1>2, <1>3, RefCountAssumption, FS_CardinalityType

LEMMA SpanRetainStep ==
    ASSUME Cardinality(Slot) <= Ceiling, IInv, NEW t \in Thread, NEW h \in Handle,
           SpanRetain(t, h)
    PROVE  IInv'
<1> USE DEF IInv
<1>1. /\ refers[h] \in Object /\ status[refers[h]] = "live" /\ refers[t] = None
      /\ owner[h] = t /\ pc[t] = "idle" /\ top[t] = None
  BY DEF SpanRetain, Holds, Idle, RefTypes, Threads, Ownership, Flight, Graph, RefersLive
<1>2. Graph' /\ count'[refers[h]] \in 0 .. Ceiling
  BY <1>1, RetainKeepsGraph DEF SpanRetain, Retain
<1>3. RefTypes'
  BY <1>1, <1>2 DEF SpanRetain, Retain, Goto, RefTypes
<1>4. Ownership' /\ Flight' /\ Argument' /\ Dropping'
  BY <1>1 DEF SpanRetain, Retain, Goto, RefTypes, Threads, Ownership, Flight, Argument, Dropping
<1>5. WriterAlone'
  <2>1. \A s \in Slot : refers'[s] = refers[s] \/ refers'[s] = refers[h]
    BY DEF SpanRetain, Retain, RefTypes
  <2>2. /\ \A u \in Thread \ {t} : pc'[u] = pc[u] /\ arg'[u] = arg[u]
        /\ pc'[t] # "write"
        /\ \A x \in Handle : refers'[x] = refers[x]
    BY DEF SpanRetain, Retain, Goto, RefTypes
  <2> QED BY <1>1, <2>1, <2>2, OthersWriteAlone
<1> QED BY <1>2, <1>3, <1>4, <1>5 DEF Threads

LEMMA SpanMintStep ==
    ASSUME IInv, NEW t \in Thread, NEW g \in Handle, NEW c \in Object, SpanMint(t, g, c)
    PROVE  IInv'
<1> USE DEF IInv
<1>1. /\ refers[g] = None /\ owner[g] = None /\ refers[t] \in Object /\ status[c] = "free"
      /\ pc[t] = "span" /\ top[t] = None
  BY DEF SpanMint, Fresh, Empty, RefTypes, Threads, Ownership, Flight, Dropping
<1>2. Graph'
  BY <1>1, MintKeepsGraph DEF SpanMint, Fresh
<1>3. RefTypes'
  BY <1>1, RefCountAssumption DEF SpanMint, Fresh, Goto, RefTypes
<1>4. Ownership' /\ Flight' /\ Argument' /\ Dropping'
  <2>1. Ownership'
    BY <1>1 DEF SpanMint, Fresh, Goto, RefTypes, Threads, Ownership
  <2>2. Flight'
    BY <1>1 DEF SpanMint, Fresh, Goto, RefTypes, Threads, Flight
  <2>3. Argument'
    BY <1>1 DEF SpanMint, Fresh, Goto, RefTypes, Threads, Argument
  <2>4. Dropping'
    BY <1>1 DEF SpanMint, Fresh, Goto, RefTypes, Threads, Dropping
  <2> QED BY <2>1, <2>2, <2>3, <2>4
<1>5. WriterAlone'
  <2>1. \A s \in Slot : refers'[s] \in {refers[s], None, c, refers[t]}
    BY DEF SpanMint, RefTypes
  <2>2. /\ \A u \in Thread \ {t} : pc'[u] = pc[u] /\ arg'[u] = arg[u]
        /\ pc'[t] # "write"
        /\ \A x \in Handle : owner[x] # None => refers'[x] = refers[x]
    BY <1>1 DEF SpanMint, Goto, RefTypes
  <2> QED BY <1>1, <2>1, <2>2, OthersWriteAlone
<1> QED BY <1>2, <1>3, <1>4, <1>5 DEF Threads

\* A step that drops references of t and adds none keeps the other writers
\* alone, and the release keeps the types.
LEMMA ReleaseTypes ==
    ASSUME RefTypes, NEW t \in Thread, NEW o \in Object, NEW frame \in Object \cup {None},
           Release(t, o, frame)
    PROVE  /\ count' \in [Object -> 0 .. Ceiling]
           /\ status' \in [Object -> {"free", "live", "dying"}]
           /\ caller' \in [Object -> Object \cup {None}]
           /\ top' \in [Thread -> Object \cup {None}]
           /\ \A u \in Thread \ {t} : top'[u] = top[u]
<1>1. Decremented(count[o]) \in 0 .. Ceiling
  BY RefCountAssumption DEF Decremented, RefTypes
<1> QED BY <1>1 DEF Release, RefTypes

LEMMA SpanFailStep ==
    ASSUME IInv, NEW t \in Thread, SpanFail(t)
    PROVE  IInv'
<1> USE DEF IInv
<1>1. /\ refers[t] \in Object /\ status[refers[t]] = "live"
      /\ pc[t] = "span" /\ top[t] = None
  BY DEF SpanFail, RefTypes, Threads, Flight, Dropping, Graph, RefersLive
<1>2. Graph'
  <2>1. \A p \in Object : Cardinality(Refs(refers, p)) =
                        Cardinality(Refs(refers', p)) + (IF p = refers[t] THEN 1 ELSE 0)
    <3> TAKE p \in Object
    <3>1. /\ refers \in [Slot -> Object \cup {None}] /\ refers' \in [Slot -> Object \cup {None}]
          /\ t \in Slot /\ refers'[t] = None
          /\ \A x \in Slot : x # t => refers'[x] = refers[x]
      BY <1>1 DEF SpanFail, RefTypes
    <3>2. refers[t] \in Object
      BY <1>1
    <3> QED BY ONLY <3>1, <3>2, p \in Object, SlotEmptied
  <2>2. refers' \in [Slot -> Object \cup {None}]
    BY DEF SpanFail, RefTypes
  <2>3. ASSUME NEW p \in Object PROVE refers'[p] = refers[p] \/ (refers'[p] = None /\ p = None)
    BY DEF SpanFail, RefTypes
  <2>4. Release(t, refers[t], None) /\ base' = base /\ None \in Object \cup {None}
    BY DEF SpanFail
  <2> QED BY <1>1, <2>1, <2>2, <2>3, <2>4, ReleaseKeepsGraph
<1>3. RefTypes'
  BY <1>1, ReleaseTypes DEF SpanFail, Goto, RefTypes
<1>4. Ownership' /\ Flight' /\ Argument' /\ Dropping'
  BY <1>1, ReleaseTypes DEF SpanFail, Goto, RefTypes, Threads, Ownership, Flight, Argument, Dropping
<1>5. WriterAlone'
  <2>1. \A s \in Slot : refers'[s] \in {refers[s], None}
    BY DEF SpanFail, RefTypes
  <2>2. /\ \A u \in Thread \ {t} : pc'[u] = pc[u] /\ arg'[u] = arg[u]
        /\ pc'[t] # "write"
        /\ \A x \in Handle : refers'[x] = refers[x]
    BY DEF SpanFail, Goto, RefTypes
  <2> QED BY <2>1, <2>2, OthersWriteAlone
<1> QED BY <1>2, <1>3, <1>4, <1>5 DEF Threads

LEMMA DropStep ==
    ASSUME IInv, NEW t \in Thread, NEW h \in Handle, Drop(t, h)
    PROVE  IInv'
<1> USE DEF IInv
<1>1. /\ refers[h] \in Object /\ status[refers[h]] = "live"
      /\ pc[t] = "idle" /\ top[t] = None /\ owner[h] = t
  BY DEF Drop, Holds, Idle, RefTypes, Threads, Ownership, Graph, RefersLive
<1>2. Graph'
  <2>1. \A p \in Object : Cardinality(Refs(refers, p)) =
                        Cardinality(Refs(refers', p)) + (IF p = refers[h] THEN 1 ELSE 0)
    <3> TAKE p \in Object
    <3>1. /\ refers \in [Slot -> Object \cup {None}] /\ refers' \in [Slot -> Object \cup {None}]
          /\ h \in Slot /\ refers'[h] = None
          /\ \A x \in Slot : x # h => refers'[x] = refers[x]
      BY <1>1 DEF Drop, RefTypes
    <3>2. refers[h] \in Object
      BY <1>1
    <3> QED BY ONLY <3>1, <3>2, p \in Object, SlotEmptied
  <2>2. refers' \in [Slot -> Object \cup {None}]
    BY DEF Drop, RefTypes
  <2>3. ASSUME NEW p \in Object PROVE refers'[p] = refers[p] \/ (refers'[p] = None /\ p = None)
    BY DEF Drop, RefTypes
  <2>4. Release(t, refers[h], None) /\ base' = base /\ None \in Object \cup {None}
    BY DEF Drop
  <2> QED BY <1>1, <2>1, <2>2, <2>3, <2>4, ReleaseKeepsGraph
<1>3. RefTypes'
  BY <1>1, ReleaseTypes DEF Drop, RefTypes
<1>4. Ownership' /\ Flight' /\ Argument' /\ Dropping'
  BY <1>1, ReleaseTypes DEF Drop, RefTypes, Threads, Ownership, Flight, Argument, Dropping
<1>5. WriterAlone'
  <2>1. \A s \in Slot : refers'[s] \in {refers[s], None}
    BY DEF Drop, RefTypes
  <2>2. /\ pc' = pc /\ arg' = arg
        /\ \A x \in Handle : owner[x] # t => refers'[x] = refers[x]
    BY <1>1 DEF Drop, RefTypes
  <2> QED BY <1>1, <2>1, <2>2, OthersWriteAlone
<1> QED BY <1>2, <1>3, <1>4, <1>5 DEF Threads

LEMMA DropHolderStep ==
    ASSUME IInv, NEW t \in Thread, DropHolder(t)
    PROVE  IInv'
<1> USE DEF IInv
<1> DEFINE q == top[t]
<1>1. /\ q \in Object /\ refers[q] \in Object /\ status[refers[q]] = "live" /\ pc[t] = "idle"
  BY DEF DropHolder, RefTypes, Threads, Dropping, Graph, RefersLive
<1>2. Graph'
  <2>1. \A p \in Object : Cardinality(Refs(refers, p)) =
                        Cardinality(Refs(refers', p)) + (IF p = refers[q] THEN 1 ELSE 0)
    <3> TAKE p \in Object
    <3>1. /\ refers \in [Slot -> Object \cup {None}] /\ refers' \in [Slot -> Object \cup {None}]
          /\ q \in Slot /\ refers'[q] = None
          /\ \A x \in Slot : x # q => refers'[x] = refers[x]
      BY <1>1 DEF DropHolder, RefTypes
    <3>2. refers[q] \in Object
      BY <1>1
    <3> QED BY ONLY <3>1, <3>2, p \in Object, SlotEmptied
  <2>2. refers' \in [Slot -> Object \cup {None}]
    BY DEF DropHolder, RefTypes
  <2>3. ASSUME NEW p \in Object PROVE refers'[p] = refers[p] \/ (refers'[p] = None /\ p = q)
    BY <1>1 DEF DropHolder, RefTypes
  <2>4. Release(t, refers[q], q) /\ base' = base /\ q \in Object \cup {None}
    BY <1>1 DEF DropHolder
  <2> HIDE DEF q
  <2>5. top[t] = q
    BY DEF q
  <2> QED BY <1>1, <2>1, <2>2, <2>3, <2>4, <2>5, ReleaseKeepsGraph
<1>3. RefTypes'
  BY <1>1, ReleaseTypes DEF DropHolder, RefTypes
<1>4. Ownership' /\ Flight' /\ Argument' /\ Dropping'
  BY <1>1, ReleaseTypes DEF DropHolder, RefTypes, Threads, Ownership, Flight, Argument, Dropping
<1>5. WriterAlone'
  <2>1. \A s \in Slot : refers'[s] \in {refers[s], None}
    BY DEF DropHolder, RefTypes
  <2>2. /\ pc' = pc /\ arg' = arg
        /\ \A x \in Handle : refers'[x] = refers[x]
    BY <1>1 DEF DropHolder, RefTypes
  <2> QED BY <1>1, <2>1, <2>2, OthersWriteAlone
<1> QED BY <1>2, <1>3, <1>4, <1>5 DEF Threads

LEMMA CopyOutStep ==
    ASSUME IInv, NEW t \in Thread, NEW n \in Object, CopyOut(t, n)
    PROVE  IInv'
<1> USE DEF IInv
<1>1. /\ refers[t] = None /\ status[n] = "free" /\ pc[t] = "copy" /\ top[t] = None
      /\ refers' = [refers EXCEPT ![t] = n]
  BY DEF CopyOut, Fresh, RefTypes, Threads, Flight, Dropping
<1>2. Graph'
  BY <1>1, FreshKeepsGraph DEF CopyOut, Fresh
<1>3. RefTypes'
  BY RefCountAssumption DEF CopyOut, Fresh, Goto, RefTypes
<1>4. Ownership' /\ Flight' /\ Argument' /\ Dropping'
  BY <1>1 DEF CopyOut, Fresh, Goto, RefTypes, Threads, Ownership, Flight, Argument, Dropping
<1>5. WriterAlone'
  <2>1. \A s \in Slot : refers'[s] = refers[s] \/ status[refers'[s]] = "free"
    BY <1>1 DEF RefTypes
  <2>2. /\ \A u \in Thread \ {t} : pc'[u] = pc[u] /\ arg'[u] = arg[u]
        /\ pc'[t] # "write"
        /\ \A x \in Handle : refers'[x] = refers[x]
    BY <1>1 DEF CopyOut, Goto, RefTypes
  <2> QED BY <2>1, <2>2, OthersWriteAlone
<1> QED BY <1>2, <1>3, <1>4, <1>5 DEF Threads

\* The handle moves to the copy, and its reference on the old buffer is
\* released.
LEMMA InstallStep ==
    ASSUME IInv, NEW t \in Thread, Install(t)
    PROVE  IInv'
<1> USE DEF IInv
<1> DEFINE h == arg[t]
           o == refers[h]
           n == refers[t]
<1>1. /\ h \in Handle /\ owner[h] = t /\ o \in Object /\ status[o] = "live" /\ n \in Object
      /\ pc[t] = "install" /\ top[t] = None
  BY DEF Install, RefTypes, Threads, Ownership, Flight, Argument, Dropping, Graph, RefersLive
<1>2. \A x \in Slot : refers'[x] = IF x = t THEN None ELSE IF x = h THEN n ELSE refers[x]
  BY <1>1 DEF Install, RefTypes
<1>3. Graph'
  <2>1. ASSUME NEW p \in Object
        PROVE  Cardinality(Refs(refers, p)) = Cardinality(Refs(refers', p)) + (IF p = o THEN 1 ELSE 0)
    <3>1. /\ IsFiniteSet(Refs(refers, p)) /\ Cardinality(Refs(refers, p)) \in Nat
          /\ IsFiniteSet(Refs(refers', p)) /\ Cardinality(Refs(refers', p)) \in Nat
      BY RefsFinite
    <3>2. h \in Slot /\ t \in Slot /\ h # t
      BY <1>1
    <3>3. CASE p = o /\ p = n
      <4>1. Refs(refers', p) = Refs(refers, p) \ {t}
        BY <1>2, <3>2, <3>3 DEF Refs
      <4>2. t \in Refs(refers, p)
        BY <3>3 DEF Refs
      <4>3. Cardinality(Refs(refers, p) \ {t}) = Cardinality(Refs(refers, p)) - 1
        BY <3>1, <4>2, FS_RemoveElement
      <4> QED BY <3>1, <3>3, <4>1, <4>3
    <3>4. CASE p = o /\ p # n
      <4>1. Refs(refers', p) = Refs(refers, p) \ {h}
        BY <1>2, <3>2, <3>4 DEF Refs
      <4>2. h \in Refs(refers, p)
        BY <3>2, <3>4 DEF Refs
      <4>3. Cardinality(Refs(refers, p) \ {h}) = Cardinality(Refs(refers, p)) - 1
        BY <3>1, <4>2, FS_RemoveElement
      <4> QED BY <3>1, <3>4, <4>1, <4>3
    <3>5. CASE p # o /\ p = n
      <4>1. Refs(refers', p) = (Refs(refers, p) \ {t}) \cup {h}
        BY <1>2, <3>2, <3>5 DEF Refs
      <4>2. t \in Refs(refers, p) /\ h \notin Refs(refers, p) \ {t}
        BY <3>2, <3>5 DEF Refs
      <4>3. /\ IsFiniteSet(Refs(refers, p) \ {t})
            /\ Cardinality(Refs(refers, p) \ {t}) = Cardinality(Refs(refers, p)) - 1
        BY <3>1, <4>2, FS_RemoveElement
      <4>4. Cardinality((Refs(refers, p) \ {t}) \cup {h}) = Cardinality(Refs(refers, p) \ {t}) + 1
        BY <4>2, <4>3, FS_AddElement
      <4> QED BY <3>1, <3>5, <4>1, <4>3, <4>4
    <3>6. CASE p # o /\ p # n
      <4>1. Refs(refers', p) = Refs(refers, p)
        BY <1>2, <3>2, <3>6 DEF Refs
      <4> QED BY <3>1, <3>6, <4>1
    <3> QED BY <3>3, <3>4, <3>5, <3>6
  <2>2. refers' \in [Slot -> Object \cup {None}]
    BY <1>1 DEF Install, RefTypes
  <2>3. ASSUME NEW p \in Object PROVE refers'[p] = refers[p] \/ (refers'[p] = None /\ p = None)
    BY <1>1, <1>2
  <2>4. Release(t, o, None) /\ base' = base /\ None \in Object \cup {None}
    BY DEF Install
  <2> QED BY <1>1, <2>1, <2>2, <2>3, <2>4, ReleaseKeepsGraph
<1>4. RefTypes'
  BY <1>1, ReleaseTypes DEF Install, Done, Goto, RefTypes
<1>5. Ownership' /\ Flight' /\ Argument' /\ Dropping'
  BY <1>1, <1>2, ReleaseTypes DEF Install, Done, Goto, RefTypes, Threads, Ownership, Flight, Argument, Dropping
<1>6. WriterAlone'
  <2>1. \A s \in Slot : refers'[s] \in {refers[s], None, refers[t]}
    BY <1>2
  <2>2. /\ \A u \in Thread \ {t} : pc'[u] = pc[u] /\ arg'[u] = arg[u]
        /\ pc'[t] # "write"
        /\ \A x \in Handle : owner[x] # t => refers'[x] = refers[x]
    BY <1>1, <1>2 DEF Install, Done, Goto, RefTypes
  <2> QED BY <1>1, <2>1, <2>2, OthersWriteAlone
<1> QED BY <1>3, <1>4, <1>5, <1>6 DEF Threads

LEMMA DeallocateStep ==
    ASSUME IInv, NEW t \in Thread, Deallocate(t)
    PROVE  IInv'
<1> USE DEF IInv
<1>1. RefTypes'
  BY DEF Deallocate, RefTypes
<1>2. Threads'
  BY DEF Deallocate, RefTypes, Threads, Ownership, Flight, Argument, Dropping, WriterAlone, Referrers
<1> QED BY <1>1, <1>2, DeallocateKeepsGraph

\* The uniqueness test: a count of one is this handle's.
LEMMA TestUniqueStep ==
    ASSUME IInv, NEW t \in Thread, NEW h \in Handle, TestUnique(t, h)
    PROVE  IInv'
<1> USE DEF IInv
<1>1. refers[h] \in Object /\ owner[h] = t /\ pc[t] = "idle" /\ top[t] = None /\ refers[t] = None
  BY DEF TestUnique, Holds, Idle, RefTypes, Threads, Ownership, Flight
<1>2. RefTypes'
  BY DEF TestUnique, Goto, RefTypes
<1>3. Graph'
  BY DEF TestUnique, Graph, CountExact, Referrers, RefersLive, LiveHeld, FreeHoldsNothing,
         Stacks, Stacked, BaseOfHolder, Grounded
<1>4. Ownership' /\ Flight' /\ Argument' /\ Dropping'
  BY <1>1 DEF TestUnique, Goto, RefTypes, Threads, Ownership, Flight, Argument, Dropping
<1>5. WriterAlone'
  <2> SUFFICES ASSUME NEW u \in Thread, pc'[u] = "write"
               PROVE  Refs(refers, refers[arg'[u]]) = {arg'[u]}
    BY ReferrersAreRefs DEF WriterAlone, TestUnique
  <2>1. CASE u # t
    BY <2>1, ReferrersAreRefs DEF TestUnique, Goto, RefTypes, Threads, WriterAlone
  <2>2. CASE u = t
    <3>1. arg'[u] = h /\ count[refers[h]] = 1
      BY <2>2 DEF TestUnique, Goto, RefTypes
    <3>2. Cardinality(Refs(refers, refers[h])) = 1 /\ IsFiniteSet(Refs(refers, refers[h]))
      BY <1>1, <3>1, ReferrersAreRefs, RefsFinite DEF Graph, CountExact
    <3>3. h \in Refs(refers, refers[h])
      BY DEF Refs
    <3>4. \E x : Refs(refers, refers[h]) = {x}
      BY <3>2, FS_Singleton
    <3> QED BY <3>1, <3>3, <3>4
  <2> QED BY <2>1, <2>2
<1> QED BY <1>2, <1>3, <1>4, <1>5 DEF Threads

\* The steps that touch neither counts nor references.
LEMMA LocalSteps ==
    ASSUME IInv, NEW t \in Thread,
           \/ Abort(t) \/ WriteInPlace(t) \/ CopyFail(t)
           \/ \E h \in Handle : Read(t, h) \/ LeaveView(t, h) \/ \E u \in Thread : Send(t, h, u)
    PROVE  IInv'
<1> USE DEF IInv
<1>1. UNCHANGED <<refers, status, kind, count, base, top, caller, writable>>
  BY DEF Abort, WriteInPlace, CopyFail, Read, LeaveView, Send, refVars
<1>2. CASE Abort(t) \/ \E h \in Handle : Read(t, h)
  <2>1. UNCHANGED refVars /\ halted' \in BOOLEAN
    BY <1>2 DEF Abort, Read, RefTypes
  <2> QED BY <2>1 DEF refVars, RefTypes, Graph, CountExact, Referrers, RefersLive, LiveHeld,
             FreeHoldsNothing, Stacks, Stacked, BaseOfHolder, Grounded, Threads, Ownership,
             Flight, Argument, Dropping, WriterAlone
<1>3. CASE WriteInPlace(t) \/ CopyFail(t)
  <2>1. RefTypes'
    BY <1>3 DEF WriteInPlace, CopyFail, Done, Goto, RefTypes
  <2>2. Threads'
    BY <1>3 DEF WriteInPlace, CopyFail, Done, Goto, RefTypes, Threads, Ownership, Flight, Argument,
           Dropping, WriterAlone, Referrers
  <2> QED BY <1>1, <2>1, <2>2 DEF Graph, CountExact, Referrers, RefersLive, LiveHeld,
             FreeHoldsNothing, Stacks, Stacked, BaseOfHolder, Grounded
<1>4. CASE \E h \in Handle : LeaveView(t, h)
  <2>1. RefTypes'
    BY <1>4 DEF LeaveView, Goto, RefTypes
  <2>2. Threads'
    BY <1>4 DEF LeaveView, Holds, Idle, Goto, RefTypes, Threads, Ownership, Flight, Argument,
           Dropping, WriterAlone, Referrers
  <2> QED BY <1>1, <2>1, <2>2 DEF Graph, CountExact, Referrers, RefersLive, LiveHeld,
             FreeHoldsNothing, Stacks, Stacked, BaseOfHolder, Grounded
<1>5. CASE \E h \in Handle : \E u \in Thread : Send(t, h, u)
  <2>1. RefTypes'
    BY <1>5 DEF Send, RefTypes
  <2>2. Threads'
    BY <1>5 DEF Send, Holds, Idle, RefTypes, Threads, Ownership, Flight, Argument,
           Dropping, WriterAlone, Referrers
  <2> QED BY <1>1, <2>1, <2>2 DEF Graph, CountExact, Referrers, RefersLive, LiveHeld,
             FreeHoldsNothing, Stacks, Stacked, BaseOfHolder, Grounded
<1> QED BY <1>2, <1>3, <1>4, <1>5

-----------------------------------------------------------------------------
(* The invariant of the specification.                                     *)

LEMMA IInvInit == Init => IInv
<1> SUFFICES ASSUME Init PROVE IInv
  OBVIOUS
<1>1. RefTypes
  <2>1. 0 \in 0 .. Ceiling
    BY RefCountAssumption
  <2>2. count \in [Object -> 0 .. Ceiling] /\ base \in [Object -> Object]
    BY <2>1 DEF Init
  <2> QED BY <2>2 DEF Init, RefTypes
<1>6. Threads
  BY DEF Init, Threads, Ownership, Flight, Argument, Dropping, WriterAlone
<1>2. \A o \in Object : Refs(refers, o) = {}
  BY DEF Init, Refs
<1>3. CountExact
  BY <1>2, ReferrersAreRefs, FS_EmptySet DEF Init, CountExact
<1>4. RefersLive /\ LiveHeld /\ FreeHoldsNothing /\ Stacks /\ Stacked /\ BaseOfHolder
  BY DEF Init, RefersLive, LiveHeld, FreeHoldsNothing, Stacks, Stacked, BaseOfHolder
<1>5. Grounded
  BY DEF Init, Grounded
<1> QED BY <1>1, <1>3, <1>4, <1>5, <1>6 DEF IInv, Graph

LEMMA IInvStep ==
    ASSUME Cardinality(Slot) <= Ceiling, IInv, [Next]_vars
    PROVE  IInv'
<1>1. CASE UNCHANGED vars
  BY <1>1 DEF vars, refVars, hbVars, IInv, RefTypes, Graph, CountExact, Referrers, RefersLive, LiveHeld,
         FreeHoldsNothing, Stacks, Stacked, BaseOfHolder, Grounded, Threads, Ownership, Flight,
         Argument, Dropping, WriterAlone
<1>2. ASSUME NEW t \in Thread, Step(t) PROVE IInv'
  <2>1. ASSUME NEW h \in Handle, NEW o \in Object, NEW k \in Kind, Allocate(t, h, o, k) PROVE IInv'
    BY <2>1, AllocateStep
  <2>2. ASSUME NEW h \in Handle, NEW g \in Handle, Clone(t, h, g) PROVE IInv'
    <3>1. writable[h] \in BOOLEAN
      BY DEF IInv, RefTypes
    <3> QED BY <2>2, <3>1, ShareStep DEF Clone
  <2>3. ASSUME NEW h \in Handle, NEW g \in Handle, MakeView(t, h, g) PROVE IInv'
    BY <2>3, ShareStep DEF MakeView
  <2>4. ASSUME NEW h \in Handle, ShareOverflows(t, h) PROVE IInv'
    BY <2>4, ShareNeverOverflows
  <2>5. ASSUME NEW h \in Handle, SpanRetain(t, h) PROVE IInv'
    BY <2>5, SpanRetainStep
  <2>6. ASSUME NEW g \in Handle, NEW c \in Object, SpanMint(t, g, c) PROVE IInv'
    BY <2>6, SpanMintStep
  <2>7. ASSUME NEW h \in Handle, TestUnique(t, h) PROVE IInv'
    BY <2>7, TestUniqueStep
  <2>8. ASSUME NEW h \in Handle, Drop(t, h) PROVE IInv'
    BY <2>8, DropStep
  <2>9. ASSUME NEW n \in Object, CopyOut(t, n) PROVE IInv'
    BY <2>9, CopyOutStep
  <2>10. CASE \/ Abort(t) \/ WriteInPlace(t) \/ CopyFail(t)
              \/ \E h \in Handle : Read(t, h) \/ LeaveView(t, h) \/ \E u \in Thread : Send(t, h, u)
    BY <2>10, LocalSteps
  <2>11. CASE SpanFail(t) \/ Install(t) \/ DropHolder(t) \/ Deallocate(t)
    BY <2>11, SpanFailStep, InstallStep, DropHolderStep, DeallocateStep
  <2> QED BY <1>2, <2>1, <2>2, <2>3, <2>4, <2>5, <2>6, <2>7, <2>8, <2>9, <2>10, <2>11 DEF Step
<1> QED BY <1>1, <1>2 DEF Next

\* The invariant holds at every step, for every number of threads, handles
\* and objects whose references together stay below the ceiling.
THEOREM InvariantHolds ==
    ASSUME Cardinality(Slot) <= Ceiling
    PROVE  Spec => []IInv
<1>1. IInv /\ [Next]_vars => IInv'
  BY IInvStep
<1> QED BY <1>1, IInvInit, PTL DEF Spec

-----------------------------------------------------------------------------
(* The types of the happens-before bookkeeping.                            *)

HBTypes ==
    /\ known \in [Thread -> SUBSET Access]
    /\ published \in [Object -> SUBSET Access]

LEMMA PerformTypes ==
    ASSUME HBTypes, NEW t \in Thread, NEW done \in SUBSET Access, Perform(t, done)
    PROVE  HBTypes'
BY DEF HBTypes, Perform, Touched, Unpublished

LEMMA ReadsTypes ==
    ASSUME NEW t \in Thread, NEW S \in SUBSET Object, NEW o \in Object
    PROVE  Reads(t, S) \in SUBSET Access /\ {<<o, t, "w">>} \in SUBSET Access /\ AllOf(o) \in SUBSET Access
BY DEF Reads, Access, AllOf

LEMMA ReleaseHBTypes ==
    ASSUME HBTypes, NEW t \in Thread, NEW o \in Object, NEW frame, Release(t, o, frame)
    PROVE  HBTypes'
<1>1. known[t] \in SUBSET Access /\ published[o] \in SUBSET Access
  BY DEF HBTypes
<1> QED BY <1>1 DEF HBTypes, Release

LEMMA InitializeTypes ==
    ASSUME HBTypes, NEW t \in Thread, NEW o \in Object, NEW S \in SUBSET Object, Initialize(t, o, S)
    PROVE  HBTypes'
<1>1. {<<o, t, "w">>} \cup Reads(t, S) \in SUBSET Access
  BY ReadsTypes
<1> QED BY <1>1, PerformTypes DEF Initialize

\* The objects a thread's operation can name.
LEMMA Named ==
    ASSUME IInv
    PROVE  /\ \A h \in Handle : owner[h] # None => refers[h] \in Object /\ base[refers[h]] \in Object
           /\ \A t \in Thread : pc[t] \in {"span", "install"} => refers[t] \in Object
           /\ \A t \in Thread : pc[t] \in {"write", "copy", "install"} =>
                 refers[arg[t]] \in Object /\ base[refers[arg[t]]] \in Object
           /\ None \notin Thread
BY RefCountAssumption DEF IInv, RefTypes, Threads, Ownership, Flight, Argument

LEMMA HBStep ==
    ASSUME IInv, HBTypes, [Next]_vars
    PROVE  HBTypes'
<1>1. CASE UNCHANGED vars
  BY <1>1 DEF vars, hbVars, HBTypes
<1>2. ASSUME NEW t \in Thread, Step(t) PROVE HBTypes'
  <2>1. ASSUME NEW h \in Handle, NEW o \in Object, NEW k \in Kind, Allocate(t, h, o, k) PROVE HBTypes'
    BY <2>1, InitializeTypes DEF Allocate
  <2>2. ASSUME NEW h \in Handle, NEW g \in Handle, Clone(t, h, g) \/ MakeView(t, h, g) PROVE HBTypes'
    <3>1. owner[h] = t /\ Perform(t, Reads(t, {refers[h]}))
      BY <2>2 DEF Clone, MakeView, Share, Holds
    <3>2. Reads(t, {refers[h]}) \in SUBSET Access
      BY <3>1, Named, ReadsTypes
    <3> QED BY <3>1, <3>2, PerformTypes
  <2>3. ASSUME NEW h \in Handle, ShareOverflows(t, h) \/ SpanRetain(t, h) PROVE HBTypes'
    <3>1. owner[h] = t /\ Perform(t, Reads(t, {refers[h]}))
      BY <2>3 DEF ShareOverflows, RetainOverflows, SpanRetain, Holds
    <3>2. Reads(t, {refers[h]}) \in SUBSET Access
      BY <3>1, Named, ReadsTypes
    <3> QED BY <3>1, <3>2, PerformTypes
  <2>4. ASSUME NEW g \in Handle, NEW c \in Object, SpanMint(t, g, c) PROVE HBTypes'
    <3>1. {refers[t]} \in SUBSET Object /\ Initialize(t, c, {refers[t]})
      BY <2>4, Named DEF SpanMint
    <3> QED BY <3>1, InitializeTypes
  <2>5. ASSUME NEW h \in Handle, Read(t, h) PROVE HBTypes'
    <3>1. {refers[h], base[refers[h]]} \in SUBSET Object
      BY <2>5, Named DEF Read, Holds
    <3>2. Perform(t, Reads(t, {refers[h], base[refers[h]]}))
      BY <2>5 DEF Read
    <3> QED BY <3>1, <3>2, ReadsTypes, PerformTypes
  <2>6. ASSUME NEW h \in Handle, TestUnique(t, h) PROVE HBTypes'
    <3>1. refers[h] \in Object
      BY <2>6, Named DEF TestUnique, Holds
    <3> QED BY <2>6, <3>1 DEF TestUnique, HBTypes, Unpublished
  <2>7. ASSUME NEW n \in Object, CopyOut(t, n) PROVE HBTypes'
    <3>1. {refers[arg[t]], base[refers[arg[t]]]} \in SUBSET Object
      BY <2>7, Named DEF CopyOut
    <3>2. Initialize(t, n, {refers[arg[t]], base[refers[arg[t]]]})
      BY <2>7 DEF CopyOut
    <3> QED BY <3>1, <3>2, InitializeTypes
  <2>8. ASSUME WriteInPlace(t) PROVE HBTypes'
    <3>1. refers[arg[t]] \in Object /\ Perform(t, {<<refers[arg[t]], t, "w">>})
      BY <2>8, Named DEF WriteInPlace
    <3> QED BY <3>1, ReadsTypes, PerformTypes
  <2>9. CASE Abort(t) \/ CopyFail(t) \/ \E h \in Handle : LeaveView(t, h)
    BY <2>9 DEF Abort, CopyFail, LeaveView, hbVars, HBTypes
  <2>10. ASSUME NEW h \in Handle, NEW u \in Thread, Send(t, h, u) PROVE HBTypes'
    BY <2>10 DEF Send, HBTypes
  <2>11. ASSUME NEW o \in Object, NEW frame, Release(t, o, frame) PROVE HBTypes'
    BY <2>11, ReleaseHBTypes
  <2>12. CASE SpanFail(t) \/ Install(t) \/ DropHolder(t) \/ \E h \in Handle : Drop(t, h)
    <3>1. \E o \in Object, frame \in Object \cup {None} : Release(t, o, frame)
      BY <2>12, Named DEF SpanFail, Install, DropHolder, Drop, Holds, IInv, RefTypes
    <3> QED BY <2>11, <3>1
  <2>13. CASE Deallocate(t)
    <3>1. top[t] \in Object
      BY <2>13 DEF Deallocate, IInv, RefTypes
    <3>2. AllOf(top[t]) \in SUBSET Access
      BY <3>1, ReadsTypes
    <3> QED BY <2>13, <3>2 DEF Deallocate, HBTypes
  <2> QED BY <1>2, <2>1, <2>2, <2>3, <2>4, <2>5, <2>6, <2>7, <2>8, <2>9, <2>10, <2>12, <2>13 DEF Step
<1> QED BY <1>1, <1>2 DEF Next

\* Every variable keeps its type.
THEOREM TypesHold ==
    ASSUME Cardinality(Slot) <= Ceiling
    PROVE  Spec => []TypeOK
<1>1. Init => HBTypes
  BY DEF Init, HBTypes
<1>2. IInv /\ HBTypes /\ [Next]_vars => HBTypes'
  BY HBStep
<1>3. IInv /\ HBTypes => TypeOK
  BY DEF IInv, RefTypes, HBTypes, TypeOK
<1> QED BY <1>1, <1>2, <1>3, InvariantHolds, PTL DEF Spec

-----------------------------------------------------------------------------
(* What the invariant gives.                                               *)

\* The bytes behind a live object are live, however long the chain: of the
\* objects whose bytes are not, one would hold an object outside them.
LEMMA BaseLive ==
    ASSUME IInv, NEW o \in Object, status[o] = "live"
    PROVE  status[base[o]] = "live"
<1> USE DEF IInv
<1> DEFINE S == {p \in Object : status[p] = "live" /\ status[base[p]] # "live"}
<1>1. SUFFICES ASSUME S # {} PROVE FALSE
  OBVIOUS
<1>2. PICK p \in S : refers[p] \notin S
  BY <1>1 DEF Graph, Grounded
<1>3. CASE refers[p] = None
  BY <1>2, <1>3 DEF Graph, BaseOfHolder
<1>4. CASE refers[p] # None
  BY <1>2, <1>4 DEF RefTypes, Graph, BaseOfHolder, RefersLive
<1> QED BY <1>3, <1>4

\* A buffer whose only reference is a handle has no span child, near or far.
LEMMA AloneMeansNoSpans ==
    ASSUME IInv, NEW b \in Object, NEW h \in Handle, Referrers(b) = {h}
    PROVE  \A o \in Object : status[o] = "live" /\ base[o] = b => o = b
<1> USE DEF IInv
<1> DEFINE S == {p \in Object : status[p] = "live" /\ base[p] = b /\ p # b}
<1>1. SUFFICES ASSUME S # {} PROVE FALSE
  OBVIOUS
<1>2. PICK p \in S : refers[p] \notin S
  BY <1>1 DEF Graph, Grounded
<1>3. refers[p] # b
  BY DEF Referrers
<1>4. CASE refers[p] = None
  BY <1>2, <1>4 DEF Graph, BaseOfHolder
<1>5. CASE refers[p] # None
  BY <1>2, <1>3, <1>5 DEF RefTypes, Graph, BaseOfHolder, RefersLive
<1> QED BY <1>4, <1>5

\* The count of every buffer and Adopted is the number of references on it.
THEOREM CountsAreExact ==
    ASSUME Cardinality(Slot) <= Ceiling
    PROVE  Spec => []CountExact
<1>1. IInv => CountExact
  BY DEF IInv, Graph
<1> QED BY <1>1, InvariantHolds, PTL

\* No handle, holder or reference in flight leads to freed memory, neither to
\* the object it counts on nor to the bytes behind it.
THEOREM NothingFreedIsReachable ==
    ASSUME Cardinality(Slot) <= Ceiling
    PROVE  Spec => []NoUseAfterFree
<1>1. IInv => NoUseAfterFree
  <2> SUFFICES ASSUME IInv, NEW s \in Slot, refers[s] # None
               PROVE  status[refers[s]] = "live" /\ status[base[refers[s]]] = "live"
    BY DEF NoUseAfterFree
  <2>1. refers[s] \in Object /\ status[refers[s]] = "live"
    BY DEF IInv, RefTypes, Graph, RefersLive
  <2> QED BY <2>1, BaseLive
<1> QED BY <1>1, InvariantHolds, PTL

\* Between the uniqueness test and the write, nobody else can read the buffer.
THEOREM WritersAreSole ==
    ASSUME Cardinality(Slot) <= Ceiling
    PROVE  Spec => []SoleWriter
<1>1. IInv => SoleWriter
  <2> SUFFICES ASSUME IInv, NEW t \in Thread, pc[t] = "write"
               PROVE  /\ Referrers(refers[arg[t]]) = {arg[t]}
                      /\ owner[arg[t]] = t
                      /\ \A o \in Object : status[o] = "live" /\ base[o] = refers[arg[t]] => o = refers[arg[t]]
    BY DEF SoleWriter
  <2>1. arg[t] \in Handle /\ owner[arg[t]] = t /\ Referrers(refers[arg[t]]) = {arg[t]}
    BY DEF IInv, Threads, Argument, WriterAlone
  <2>2. refers[arg[t]] \in Object
    BY <2>1 DEF IInv, RefTypes, Threads, Ownership
  <2> QED BY <2>1, <2>2, AloneMeansNoSpans
<1> QED BY <1>1, InvariantHolds, PTL

\* An object nobody refers to is on a thread's stack of drops.
THEOREM NothingLeaks ==
    ASSUME Cardinality(Slot) <= Ceiling
    PROVE  Spec => []NoLeak
<1>1. IInv => NoLeak
  <2> SUFFICES ASSUME IInv, NEW o \in Object, status[o] # "free", Referrers(o) = {}
               PROVE  /\ status[o] = "dying"
                      /\ \/ \E t \in Thread : top[t] = o
                         \/ \E p \in Object : status[p] = "dying" /\ caller[p] = o
    BY DEF NoLeak
  <2>1. count[o] = 0
    BY FS_EmptySet DEF IInv, Graph, CountExact
  <2>2. status[o] = "dying"
    BY <2>1 DEF IInv, RefTypes, Graph, LiveHeld
  <2> QED BY <2>2 DEF IInv, Graph, Stacked
<1> QED BY <1>1, InvariantHolds, PTL

-----------------------------------------------------------------------------
(***************************************************************************)
(* The memory orders of RefCount for any number of threads, handles and    *)
(* objects: a Release decrement and an Acquire fence or load are enough    *)
(* for every read, write and deallocation of a buffer or an Adopted to     *)
(* come after the accesses it must not race with.                          *)
(*                                                                         *)
(* A free of o must know every access of o's memory.  Such an access was   *)
(* made through a reference on o, or on an object whose chain of holders   *)
(* leads to o, and it is somewhere on the way from there: with the thread  *)
(* that made it, while that thread keeps a reference; in the release       *)
(* sequence of an object it has released; or with the thread that drops    *)
(* such an object and is about to release its holder.                      *)
(***************************************************************************)

\* The slots a thread acts through, and the thread that acts.
Active == Handle \cup Thread
Agent(s) == IF s \in Thread THEN s ELSE owner[s]

\* A thread knows its own accesses.
OwnKnown == \A t \in Thread, a \in Access : a[2] = t => a \in known[t]

\* Nothing is left to know of a free object.
FreeKnown == \A o \in Object, t \in Thread : status[o] = "free" => AllOf(o) \subseteq known[t]

\* Who can read an object, or the bytes behind it, knows the writes to it.
WritesKnown ==
    \A s \in Active, u \in Thread : refers[s] # None =>
        <<refers[s], u, "w">> \in known[Agent(s)] /\ <<base[refers[s]], u, "w">> \in known[Agent(s)]

\* Who writes in place knows every access.
WriterKnows == \A t \in Thread : pc[t] = "write" => AllOf(refers[arg[t]]) \subseteq known[t]

\* A thread knows every access of each object on its stack of drops.
Frames(S, t) ==
    /\ top[t] \in S
    /\ \A x \in S : caller[x] # None => caller[x] \in S
    /\ \A x \in S : status[x] = "dying" /\ AllOf(x) \subseteq known[t]

DropsKnown == \A t \in Thread : top[t] # None => \E S \in SUBSET Object : Frames(S, t)

\* The frames below the top have released their holders.
CallersEmpty == \A o \in Object : status[o] = "dying" /\ caller[o] # None => refers[caller[o]] = None

\* S holds, with an object, those whose holders lead to it.
UpClosed(S) == \A c \in Object : refers[c] \in S => c \in S

\* The knowledge of access a that is kept at object x.
Source(x, a) ==
    \/ /\ status[x] = "live"
       /\ \/ a \in published[x]
          \/ \E s \in Active : refers[s] = x /\ a \in known[Agent(s)]
    \/ status[x] = "dying" /\ \E t \in Thread : top[t] = x /\ a \in known[t]

\* Each access of a live object is known somewhere on the way to it.
Covered ==
    \A o \in Object, a \in Access, S \in SUBSET Object :
        status[o] = "live" /\ a[1] = o /\ o \in S /\ UpClosed(S) => \E x \in S : Source(x, a)

HBInv ==
    /\ HBTypes
    /\ OwnKnown /\ FreeKnown /\ WritesKnown /\ WriterKnows
    /\ DropsKnown /\ CallersEmpty /\ Covered

-----------------------------------------------------------------------------
(* Facts of the graph.                                                     *)

\* An object whose bytes are another's is among those that lead to it.
LEMMA UpToHolder ==
    ASSUME IInv, NEW S \in SUBSET Object, UpClosed(S),
           NEW c \in Object, status[c] = "live", base[c] \in S
    PROVE  c \in S
<1> DEFINE R == {x \in Object : status[x] = "live" /\ base[x] = base[c] /\ x \notin S}
<1>1. SUFFICES ASSUME R # {} PROVE FALSE
  OBVIOUS
<1>2. PICK x \in R : refers[x] \notin R
  BY <1>1 DEF IInv, Graph, Grounded
<1>3. CASE refers[x] = None
  <2>1. base[x] = x
    BY <1>2, <1>3 DEF IInv, Graph, BaseOfHolder
  <2> QED BY <1>2, <2>1
<1>4. CASE refers[x] # None
  <2>1. refers[x] \in Object /\ status[refers[x]] = "live" /\ base[x] = base[refers[x]]
    BY <1>2, <1>4, ConstantFacts DEF IInv, RefTypes, Graph, BaseOfHolder, RefersLive
  <2>2. refers[x] \in S
    BY <1>2, <2>1
  <2> QED BY <1>2, <2>2 DEF UpClosed
<1> QED BY <1>3, <1>4

\* The agent of a slot with a reference is a thread.
LEMMA Agents ==
    ASSUME IInv, NEW s \in Active, refers[s] # None
    PROVE  /\ Agent(s) \in Thread /\ refers[s] \in Object /\ base[refers[s]] \in Object
           /\ status[refers[s]] = "live" /\ status[base[refers[s]]] = "live"
<1>1. s \in Slot /\ refers[s] \in Object
  BY ConstantFacts DEF Active, IInv, RefTypes
<1>2. Agent(s) \in Thread
  BY DEF Active, Agent, IInv, RefTypes, Threads, Ownership
<1>3. status[refers[s]] = "live"
  BY <1>1 DEF IInv, Graph, RefersLive
<1>4. base[refers[s]] \in Object
  BY <1>1 DEF IInv, RefTypes
<1> QED BY <1>1, <1>2, <1>3, <1>4, BaseLive

-----------------------------------------------------------------------------
(* Steps that keep every reference: t performs the accesses in done,       *)
(* through its references or on a fresh object, and may add references to  *)
(* what it refers to already and to fresh objects.                         *)

\* t refers to o, or to an object whose bytes are o's.
Reaches(t, o) ==
    \E r \in Active : refers[r] # None /\ Agent(r) = t /\ (o = refers[r] \/ o = base[refers[r]])

\* The object t is about to write in place.
Writes(t, o) == pc[t] = "write" /\ o = refers[arg[t]]

Performs(t, done) ==
    /\ done \in SUBSET Access
    /\ \A a \in done : a[2] = t
    /\ \A a \in done :
        \/ status[a[1]] = "free" /\ status'[a[1]] = "live"
        \/ Reaches(t, a[1]) /\ (a[3] = "w" => Writes(t, a[1]))
    /\ \A u \in Thread : known[u] \ done \subseteq known'[u]
    /\ known[t] \subseteq known'[t]
    /\ \A o \in Object : published[o] \ done \subseteq published'[o]

\* Objects in use stay as they are, and a fresh one is referred to by t and
\* has its own bytes or those of an object t refers to.
ObjectsKept(t) ==
    /\ \A o \in Object : status[o] # "free" =>
        status'[o] = status[o] /\ base'[o] = base[o] /\ refers'[o] = refers[o]
    /\ \A o \in Object : status[o] = "free" /\ status'[o] # "free" =>
        /\ status'[o] = "live"
        /\ base'[o] = o \/ Reaches(t, base'[o])
        /\ \E g \in Active : refers'[g] = o /\ Agent(g)' = t

\* A reference of t becomes the holder's of a fresh object of t.
Moved(t, s) ==
    /\ Agent(s) = t /\ refers'[s] = None
    /\ \E c \in Object, g \in Active :
        /\ status[c] = "free" /\ status'[c] = "live"
        /\ refers'[c] = refers[s] /\ refers'[g] = c /\ Agent(g)' = t

\* Slots keep their references and threads, or go to a thread told what the
\* first one knew; new references are t's.
SlotsKept(t, done) ==
    /\ \A s \in Active : refers[s] # None =>
        \/ /\ refers'[s] = refers[s]
           /\ Agent(s)' = Agent(s) \/ (done = {} /\ known[Agent(s)] \subseteq known'[Agent(s)'])
        \/ Moved(t, s)
    /\ \A s \in Active : refers'[s] # None /\ refers'[s] # refers[s] =>
        /\ Agent(s)' = t
        /\ \/ refers'[s] \in Object /\ status[refers'[s]] = "free" /\ status'[refers'[s]] = "live"
           \/ \E r \in Active : Agent(r) = t /\ refers[r] = refers'[s]

\* The others stay where they are, and who is licensed to write knows all.
PlacesKept(t) ==
    /\ \A u \in Thread \ {t} : pc'[u] = pc[u] /\ arg'[u] = arg[u]
    /\ pc'[t] = "write" => AllOf(refers'[arg'[t]]) \subseteq known'[t]
    /\ top' = top /\ caller' = caller

Grow(t, done) == Performs(t, done) /\ ObjectsKept(t) /\ SlotsKept(t, done) /\ PlacesKept(t)

\* The accesses performed are on objects that are live afterwards, and no
\* slot of another thread is about to see them.
LEMMA GrowDone ==
    ASSUME IInv, NEW t \in Thread, NEW done, Grow(t, done), NEW a \in done
    PROVE  /\ a \in Access /\ a[1] \in Object /\ a[2] = t
           /\ status[a[1]] # "dying" /\ status'[a[1]] = "live"
           /\ status[a[1]] = "live" => Reaches(t, a[1]) /\ (a[3] = "w" => Writes(t, a[1]))
<1>1. a \in Access /\ a[2] = t
  BY DEF Grow, Performs
<1>2. a[1] \in Object
  BY <1>1 DEF Access
<1>3. CASE status[a[1]] = "free" /\ status'[a[1]] = "live"
  BY <1>1, <1>2, <1>3
<1>4. CASE Reaches(t, a[1]) /\ (a[3] = "w" => Writes(t, a[1]))
  <2>1. status[a[1]] = "live"
    BY <1>4, Agents DEF Reaches
  <2>2. status'[a[1]] = "live"
    BY <1>2, <2>1 DEF Grow, ObjectsKept
  <2> QED BY <1>1, <1>2, <1>4, <2>1, <2>2
<1> QED BY <1>3, <1>4 DEF Grow, Performs

\* A write seen by the agent of a slot that keeps its reference is its own.
LEMMA GrowWrites ==
    ASSUME IInv, NEW t \in Thread, NEW done, Grow(t, done),
           NEW a \in done, a[3] = "w", NEW s \in Active, refers[s] # None,
           a[1] = refers[s] \/ a[1] = base[refers[s]]
    PROVE  Agent(s) = t
<1>1. status[a[1]] = "live"
  BY Agents
<1>2. pc[t] = "write" /\ a[1] = refers[arg[t]]
  BY <1>1, GrowDone DEF Writes
<1>3. /\ arg[t] \in Handle /\ owner[arg[t]] = t /\ arg[t] \notin Thread
      /\ Referrers(refers[arg[t]]) = {arg[t]}
  BY <1>2, ConstantFacts DEF IInv, Threads, Argument, WriterAlone
<1>4. refers[s] \in Object /\ status[refers[s]] = "live" /\ refers[arg[t]] \in Object
  BY <1>2, Agents, GrowDone
<1>5. refers[s] = refers[arg[t]]
  BY <1>2, <1>3, <1>4, AloneMeansNoSpans
<1>6. s \in Slot
  BY ConstantFacts DEF Active
<1>7. s = arg[t]
  BY <1>3, <1>5, <1>6 DEF Referrers
<1> QED BY <1>3, <1>7 DEF Agent

LEMMA GrowKeepsKnowledge ==
    ASSUME IInv, IInv', HBInv, NEW t \in Thread, NEW done, Grow(t, done)
    PROVE  OwnKnown' /\ FreeKnown' /\ WritesKnown' /\ WriterKnows'
<1>1. OwnKnown'
  <2> SUFFICES ASSUME NEW u \in Thread, NEW a \in Access, a[2] = u PROVE a \in known'[u]
    BY DEF OwnKnown
  <2>1. a \in known[u]
    BY DEF HBInv, OwnKnown
  <2>2. CASE u = t
    BY <2>1, <2>2 DEF Grow, Performs
  <2>3. CASE u # t
    <3>1. a \notin done
      BY <2>3, GrowDone
    <3> QED BY <2>1, <3>1 DEF Grow, Performs
  <2> QED BY <2>2, <2>3
<1>2. FreeKnown'
  <2> SUFFICES ASSUME NEW o \in Object, NEW u \in Thread, status'[o] = "free", NEW a \in AllOf(o)
               PROVE  a \in known'[u]
    BY DEF FreeKnown, AllOf
  <2>1. status[o] = "free"
    BY DEF Grow, ObjectsKept
  <2>2. a \in known[u] /\ a[1] = o
    BY <2>1 DEF HBInv, FreeKnown, AllOf
  <2>3. a \notin done
    BY <2>2, GrowDone
  <2> QED BY <2>2, <2>3 DEF Grow, Performs
<1>3. WritesKnown'
  <2> SUFFICES ASSUME NEW s \in Active, NEW u \in Thread, refers'[s] # None,
                      NEW o, o = refers'[s] \/ o = base'[refers'[s]]
               PROVE  <<o, u, "w">> \in known'[Agent(s)']
    BY DEF WritesKnown, Active, Agent
  <2>1. CASE refers'[s] = refers[s]
    <3>1. refers[s] # None
      BY <2>1
    <3>2. /\ Agent(s) \in Thread /\ refers[s] \in Object /\ base[refers[s]] \in Object
          /\ status[refers[s]] = "live"
      BY <3>1, Agents
    <3>3. o = refers[s] \/ o = base[refers[s]]
      BY <2>1, <3>2 DEF Grow, ObjectsKept
    <3>4. <<o, u, "w">> \in known[Agent(s)]
      BY <3>1, <3>3 DEF HBInv, WritesKnown
    <3>5. \/ Agent(s)' = Agent(s)
          \/ done = {} /\ known[Agent(s)] \subseteq known'[Agent(s)']
      BY <2>1, <3>1 DEF Grow, SlotsKept, Moved
    <3>6. CASE <<o, u, "w">> \in done
      <4>1. Agent(s) = t
        BY <3>1, <3>3, <3>6, GrowWrites
      <4>2. Agent(s)' = t
        BY <3>5, <3>6, <4>1
      <4> QED BY <3>4, <4>1, <4>2 DEF Grow, Performs
    <3>7. CASE <<o, u, "w">> \notin done
      BY <3>2, <3>4, <3>5, <3>7 DEF Grow, Performs
    <3> QED BY <3>6, <3>7
  <2>2. CASE refers'[s] # refers[s]
    <3>1. Agent(s)' = t /\ known[t] \subseteq known'[t]
      BY <2>2 DEF Grow, SlotsKept, Performs
    <3>2. ASSUME NEW r \in Active, refers[r] # None, Agent(r) = t, o = refers[r] \/ o = base[refers[r]]
          PROVE  <<o, u, "w">> \in known[t]
      BY <3>2 DEF HBInv, WritesKnown
    <3>3. CASE \E r \in Active : Agent(r) = t /\ refers[r] = refers'[s]
      <4>1. PICK r \in Active : Agent(r) = t /\ refers[r] = refers'[s]
        BY <3>3
      <4>2. base'[refers[r]] = base[refers[r]]
        BY <4>1, Agents DEF Grow, ObjectsKept
      <4> QED BY <3>1, <3>2, <4>1, <4>2
    <3>4. CASE refers'[s] \in Object /\ status[refers'[s]] = "free" /\ status'[refers'[s]] = "live"
      <4>1. base'[refers'[s]] = refers'[s] \/ Reaches(t, base'[refers'[s]])
        BY <3>4 DEF Grow, ObjectsKept
      <4>2. CASE o = refers'[s]
        <5>1. <<o, u, "w">> \in AllOf(o)
          BY <3>4, <4>2 DEF AllOf, Access
        <5> QED BY <3>1, <3>4, <4>2, <5>1 DEF HBInv, FreeKnown
      <4>3. CASE Reaches(t, o)
        BY <3>1, <3>2, <4>3 DEF Reaches
      <4> QED BY <4>1, <4>2, <4>3
    <3> QED BY <2>2, <3>3, <3>4 DEF Grow, SlotsKept
  <2> QED BY <2>1, <2>2
<1>4. WriterKnows'
  <2> SUFFICES ASSUME NEW u \in Thread, pc'[u] = "write", u # t, NEW a \in AllOf(refers'[arg'[u]])
               PROVE  a \in known'[u]
    BY DEF WriterKnows, Grow, PlacesKept, AllOf
  <2>1. pc[u] = "write" /\ arg'[u] = arg[u]
    BY DEF Grow, PlacesKept
  <2>2. arg[u] \in Active /\ Agent(arg[u]) = u /\ refers[arg[u]] # None /\ Referrers(refers[arg[u]]) = {arg[u]}
    BY <2>1, ConstantFacts, RefCountAssumption
       DEF IInv, Threads, Argument, Ownership, WriterAlone, Active, Agent
  <2>3. refers'[arg[u]] = refers[arg[u]]
    BY <2>2 DEF Grow, SlotsKept, Moved
  <2>4. a \in known[u] /\ a[1] = refers[arg[u]]
    BY <2>1, <2>3 DEF HBInv, WriterKnows, AllOf
  <2>5. a \notin done
    <3> SUFFICES ASSUME a \in done PROVE FALSE
      OBVIOUS
    <3>1. Reaches(t, refers[arg[u]])
      BY <2>2, <2>4, Agents, GrowDone
    <3>2. PICK r \in Active : /\ refers[r] # None /\ Agent(r) = t
                              /\ refers[arg[u]] = refers[r] \/ refers[arg[u]] = base[refers[r]]
      BY <3>1 DEF Reaches
    <3>a. arg[u] \in Handle
      BY <2>1 DEF IInv, Threads, Argument
    <3>b. refers[r] \in Object /\ status[refers[r]] = "live" /\ refers[arg[u]] \in Object
      BY <2>2, <3>2, Agents
    <3>3. refers[r] = refers[arg[u]]
      BY <2>2, <3>2, <3>a, <3>b, AloneMeansNoSpans
    <3>4. r \in Slot
      BY ConstantFacts DEF Active
    <3>5. r = arg[u]
      BY <2>2, <3>3, <3>4 DEF Referrers
    <3> QED BY <2>2, <3>2, <3>5
  <2> QED BY <2>4, <2>5 DEF Grow, Performs
<1> QED BY <1>1, <1>2, <1>3, <1>4

LEMMA GrowKeepsDrops ==
    ASSUME IInv, HBInv, NEW t \in Thread, NEW done, Grow(t, done)
    PROVE  DropsKnown' /\ CallersEmpty'
<1>1. DropsKnown'
  <2> SUFFICES ASSUME NEW u \in Thread, top'[u] # None PROVE \E S \in SUBSET Object : Frames(S, u)'
    BY DEF DropsKnown
  <2>1. top' = top /\ caller' = caller
    BY DEF Grow, PlacesKept
  <2>2. PICK S \in SUBSET Object : Frames(S, u)
    BY <2>1 DEF HBInv, DropsKnown
  <2>3. ASSUME NEW x \in S PROVE status'[x] = "dying" /\ AllOf(x) \subseteq known'[u]
    <3>1. status[x] = "dying" /\ AllOf(x) \subseteq known[u]
      BY <2>2 DEF Frames
    <3>2. status'[x] = "dying"
      BY <3>1 DEF Grow, ObjectsKept
    <3>3. ASSUME NEW a \in AllOf(x) PROVE a \in known'[u]
      <4>1. a \notin done
        BY <3>1, GrowDone DEF AllOf
      <4> QED BY <3>1, <4>1 DEF Grow, Performs
    <3> QED BY <3>2, <3>3
  <2>4. AllOf(top[u])' = AllOf(top[u])
    BY <2>1 DEF AllOf
  <2>5. Frames(S, u)'
    BY <2>1, <2>2, <2>3 DEF Frames, AllOf
  <2> QED BY <2>5
<1>2. CallersEmpty'
  <2> SUFFICES ASSUME NEW o \in Object, status'[o] = "dying", caller'[o] # None
               PROVE  refers'[caller'[o]] = None
    BY DEF CallersEmpty
  <2>1. status[o] = "dying" /\ caller'[o] = caller[o]
    BY DEF Grow, ObjectsKept, PlacesKept, IInv, RefTypes
  <2>2. refers[caller[o]] = None /\ status[caller[o]] = "dying" /\ caller[o] \in Object
    BY <2>1 DEF HBInv, CallersEmpty, IInv, RefTypes, Graph, Stacks
  <2> QED BY <2>1, <2>2 DEF Grow, ObjectsKept
<1> QED BY <1>1, <1>2

LEMMA GrowKeepsCovered ==
    ASSUME IInv, IInv', HBInv, HBTypes', NEW t \in Thread, NEW done, Grow(t, done)
    PROVE  Covered'
<1> SUFFICES ASSUME NEW o \in Object, NEW a \in Access, NEW S \in SUBSET Object,
                    status'[o] = "live", a[1] = o, o \in S, UpClosed(S)'
             PROVE  \E x \in S : Source(x, a)'
  BY DEF Covered
<1>1. UpClosed(S)
  <2> SUFFICES ASSUME NEW c \in Object, refers[c] \in S PROVE c \in S
    BY DEF UpClosed
  <2>1. status[c] # "free"
    BY ConstantFacts DEF IInv, Graph, FreeHoldsNothing
  <2>2. refers'[c] = refers[c]
    BY <2>1 DEF Grow, ObjectsKept
  <2> QED BY <2>2 DEF UpClosed
<1>2. ASSUME NEW s \in Active, refers'[s] \in S, a \in known'[Agent(s)']
      PROVE  \E x \in S : Source(x, a)'
  <2>1. PICK x \in S : refers'[s] = x
    BY <1>2
  <2>2. status'[x] = "live"
    BY <2>1, ConstantFacts DEF Active, IInv, Graph, RefersLive
  <2>3. Source(x, a)'
    BY <1>2, <2>1, <2>2 DEF Source, Active, Agent
  <2> QED BY <2>3
<1>3. ASSUME NEW s \in Active, refers[s] \in S, a \in known[Agent(s)], a \notin done \/ Agent(s) = t
      PROVE  \E x \in S : Source(x, a)'
  <2>1. refers[s] # None /\ Agent(s) \in Thread
    BY <1>3, ConstantFacts, Agents
  <2>2. CASE Moved(t, s)
    <3>1. PICK c \in Object, g \in Active : refers'[c] = refers[s] /\ refers'[g] = c /\ Agent(g)' = t
      BY <2>2 DEF Moved
    <3>2. c \in S
      BY <1>3, <3>1 DEF UpClosed
    <3>3. a \in known'[Agent(g)']
      BY <1>3, <2>2, <3>1 DEF Moved, Grow, Performs
    <3> QED BY <1>2, <3>1, <3>2, <3>3
  <2>3. CASE /\ refers'[s] = refers[s]
             /\ Agent(s)' = Agent(s) \/ (done = {} /\ known[Agent(s)] \subseteq known'[Agent(s)'])
    <3>1. a \in known'[Agent(s)']
      BY <1>3, <2>1, <2>3 DEF Grow, Performs
    <3> QED BY <1>2, <1>3, <2>3, <3>1
  <2> QED BY <2>1, <2>2, <2>3 DEF Grow, SlotsKept
<1>4. CASE status[o] # "live"
  <2>1. status[o] = "free"
    BY <1>4 DEF Grow, ObjectsKept, IInv, RefTypes
  <2>2. PICK g \in Active : refers'[g] = o /\ Agent(g)' = t
    BY <2>1 DEF Grow, ObjectsKept
  <2>3. a \in known'[t]
    BY <2>1 DEF HBInv, FreeKnown, AllOf, Grow, Performs
  <2> QED BY <1>2, <2>2, <2>3
<1>5. CASE status[o] = "live" /\ a \in done
  <2>1. Reaches(t, o) /\ a[2] = t
    BY <1>5, GrowDone
  <2>2. PICK r \in Active : refers[r] # None /\ Agent(r) = t /\ (o = refers[r] \/ o = base[refers[r]])
    BY <2>1 DEF Reaches
  <2>3. refers[r] \in S
    BY <1>1, <2>2, Agents, UpToHolder
  <2>4. a \in known[t]
    BY <2>1 DEF HBInv, OwnKnown
  <2> QED BY <1>3, <2>2, <2>3, <2>4
<1>6. CASE status[o] = "live" /\ a \notin done
  <2>1. PICK x \in S : Source(x, a)
    BY <1>1, <1>6 DEF HBInv, Covered
  <2>2. CASE status[x] = "live" /\ a \in published[x]
    <3>1. status'[x] = "live" /\ a \in published'[x]
      BY <1>6, <2>2 DEF Grow, Performs, ObjectsKept
    <3> QED BY <3>1 DEF Source
  <2>3. CASE \E s \in Active : refers[s] = x /\ a \in known[Agent(s)]
    BY <1>3, <1>6, <2>3
  <2>4. ASSUME status[x] = "dying", NEW u \in Thread, top[u] = x, a \in known[u]
        PROVE  \E y \in S : Source(y, a)'
    <3>1. status'[x] = "dying" /\ top'[u] = x /\ a \in known'[u]
      BY <1>6, <2>4 DEF Grow, Performs, ObjectsKept, PlacesKept
    <3> QED BY <3>1 DEF Source
  <2> QED BY <2>1, <2>2, <2>3, <2>4 DEF Source
<1> QED BY <1>4, <1>5, <1>6

LEMMA GrowStep ==
    ASSUME IInv, IInv', HBInv, HBTypes', NEW t \in Thread, NEW done, Grow(t, done)
    PROVE  HBInv'
BY GrowKeepsKnowledge, GrowKeepsDrops, GrowKeepsCovered DEF HBInv

-----------------------------------------------------------------------------
(* Steps that release a reference: t drops the one slot s holds on o.  The *)
(* slot is t's own, or it is the dying object on top of t's stack.         *)

Falls(t, s, o, frame) ==
    /\ o \in Object /\ refers[s] = o /\ status[o] = "live"
    /\ \/ s \in Active /\ Agent(s) = t /\ frame = None /\ top[t] = None
       \/ s \in Object /\ s = top[t] /\ frame = s
    /\ Release(t, o, frame) /\ base' = base
    /\ count[o] = 1 => \A c \in Slot : refers[c] = o => c = s

\* The other slots keep their references, or leave them to a slot of the same
\* thread; the objects' own stay.
OthersKept(s) ==
    /\ \A c \in Object : refers'[c] = IF c = s THEN None ELSE refers[c]
    /\ \A r \in Active : r # s /\ refers[r] # None =>
        \E q \in Active : refers'[q] = refers[r] /\ Agent(q)' = Agent(r)
    /\ \A q \in Active : refers'[q] # None =>
        \E r \in Active : refers[r] = refers'[q] /\ Agent(r) = Agent(q)'
    /\ \A u \in Thread : pc'[u] = "write" =>
        pc[u] = "write" /\ arg'[u] = arg[u] /\ refers'[arg[u]] = refers[arg[u]]

Fall(t, s, o, frame) == Falls(t, s, o, frame) /\ OthersKept(s)

\* What a release does, whether it was the last one or not.
LEMMA FallEffect ==
    ASSUME IInv, HBInv, NEW t \in Thread, NEW s, NEW o, NEW frame, Fall(t, s, o, frame)
    PROVE  /\ o \in Object /\ status[o] = "live" /\ refers[s] = o /\ base' = base
           /\ known[t] \subseteq published'[o]
           /\ \A p \in Object : published[p] \subseteq published'[p]
           /\ \A u \in Thread : known[u] \subseteq known'[u]
           /\ \A p \in Object \ {o} : status'[p] = status[p] /\ caller'[p] = caller[p]
           /\ \A u \in Thread \ {t} : top'[u] = top[u]
           /\ \/ count[o] # 1 /\ status'[o] = "live" /\ top' = top /\ caller' = caller
              \/ /\ count[o] = 1 /\ status'[o] = "dying" /\ top'[t] = o /\ caller'[o] = frame
                 /\ published'[o] \subseteq known'[t]
<1>1. /\ o \in Object /\ status[o] = "live" /\ refers[s] = o /\ base' = base /\ Release(t, o, frame)
      /\ status \in [Object -> {"free", "live", "dying"}]
      /\ caller \in [Object -> Object \cup {None}]
      /\ top \in [Thread -> Object \cup {None}]
      /\ known \in [Thread -> SUBSET Access]
      /\ published \in [Object -> SUBSET Access]
  BY DEF Fall, Falls, IInv, RefTypes, HBInv, HBTypes
<1>2. /\ known[t] \subseteq published'[o]
      /\ \A p \in Object : published[p] \subseteq published'[p]
  BY <1>1 DEF Release
<1>3. CASE count[o] = 1
  BY <1>1, <1>2, <1>3 DEF Release
<1>4. CASE count[o] # 1
  BY <1>1, <1>2, <1>4 DEF Release
<1> QED BY <1>1, <1>2, <1>3, <1>4

LEMMA FallKeepsKnowledge ==
    ASSUME IInv, HBInv, NEW t \in Thread, NEW s, NEW o, NEW frame, Fall(t, s, o, frame)
    PROVE  OwnKnown' /\ FreeKnown' /\ WritesKnown' /\ WriterKnows'
<1>1. /\ \A u \in Thread : known[u] \subseteq known'[u]
      /\ \A p \in Object : status'[p] = "free" => status[p] = "free"
      /\ base' = base
  BY FallEffect
<1>2. OwnKnown'
  BY <1>1 DEF HBInv, OwnKnown
<1>3. FreeKnown'
  BY <1>1 DEF HBInv, FreeKnown, AllOf
<1>4. WritesKnown'
  <2> SUFFICES ASSUME NEW q \in Active, NEW u \in Thread, refers'[q] # None
               PROVE  /\ <<refers'[q], u, "w">> \in known'[Agent(q)']
                      /\ <<base'[refers'[q]], u, "w">> \in known'[Agent(q)']
    BY DEF WritesKnown, Active, Agent
  <2>1. PICK r \in Active : refers[r] = refers'[q] /\ Agent(r) = Agent(q)'
    BY DEF Fall, OthersKept
  <2>2. Agent(r) \in Thread
    BY <2>1, Agents
  <2> QED BY <1>1, <2>1, <2>2 DEF HBInv, WritesKnown
<1>5. WriterKnows'
  BY <1>1 DEF HBInv, WriterKnows, AllOf, Fall, OthersKept
<1> QED BY <1>2, <1>3, <1>4, <1>5

LEMMA FallKeepsDrops ==
    ASSUME IInv, IInv', HBInv, NEW t \in Thread, NEW s, NEW o, NEW frame, Fall(t, s, o, frame)
    PROVE  DropsKnown' /\ CallersEmpty'
<1>1. ASSUME NEW u \in Thread, NEW S \in SUBSET Object, Frames(S, u), top'[u] = top[u]
      PROVE  Frames(S, u)'
  <2>1. \A x \in S : x # o /\ x \in Object
    BY <1>1, FallEffect DEF Frames
  <2> QED BY <1>1, <2>1, FallEffect DEF Frames, AllOf
<1>2. DropsKnown'
  <2> SUFFICES ASSUME NEW u \in Thread, top'[u] # None PROVE \E S \in SUBSET Object : Frames(S, u)'
    BY DEF DropsKnown
  <2>1. CASE top'[u] = top[u]
    BY <1>1, <2>1 DEF HBInv, DropsKnown
  <2>2. CASE top'[u] # top[u]
    <3>1. /\ u = t /\ count[o] = 1 /\ o \in Object /\ refers[s] = o
          /\ status[o] = "live" /\ status'[o] = "dying"
          /\ top'[t] = o /\ caller'[o] = frame /\ published'[o] \subseteq known'[t]
          /\ published[o] \subseteq published'[o] /\ known[t] \subseteq known'[t]
      BY <2>2, FallEffect
    <3>2. \A c \in Slot : refers[c] = o => c = s
      BY <3>1 DEF Fall, Falls
    <3>3. CASE s \in Active /\ Agent(s) = t /\ frame = None
      <4>1. UpClosed({o})
        <5> SUFFICES ASSUME NEW c \in Object, refers[c] = o PROVE FALSE
          BY DEF UpClosed
        <5> QED BY <3>2, <3>3, ConstantFacts DEF Active
      <4>2. ASSUME NEW a \in AllOf(o) PROVE a \in known'[t]
        <5>1. Source(o, a)
          BY <3>1, <4>1 DEF HBInv, Covered, AllOf
        <5>2. a \in published[o] \/ \E r \in Active : refers[r] = o /\ a \in known[Agent(r)]
          BY <3>1, <5>1 DEF Source
        <5>3. ASSUME NEW r \in Active, refers[r] = o, a \in known[Agent(r)] PROVE a \in known[t]
          <6>1. r = s
            BY <3>2, <5>3, ConstantFacts DEF Active
          <6> QED BY <3>3, <5>3, <6>1
        <5> QED BY <3>1, <5>2, <5>3
      <4>3. Frames({o}, t)'
        BY <3>1, <3>3, <4>2 DEF Frames, AllOf
      <4> QED BY <3>1, <4>3
    <3>4. CASE s \in Object /\ s = top[t] /\ frame = s
      <4>1. status[s] = "dying"
        BY <3>4, ConstantFacts DEF IInv, Graph, Stacks
      <4>2. UpClosed({o, s})
        <5>1. ASSUME NEW c \in Object, refers[c] = o PROVE c = s
          BY <3>2, <5>1, ConstantFacts
        <5>2. ASSUME NEW c \in Object, refers[c] = s PROVE FALSE
          BY <3>4, <4>1, <5>2, ConstantFacts DEF IInv, Graph, RefersLive
        <5> QED BY <5>1, <5>2 DEF UpClosed
      <4>3. ASSUME NEW a \in AllOf(o) PROVE a \in known'[t]
        <5>1. Source(o, a) \/ Source(s, a)
          <6>1. {o, s} \in SUBSET Object /\ a \in Access /\ a[1] = o
            BY <3>1, <3>4 DEF AllOf
          <6>2. PICK x \in {o, s} : Source(x, a)
            BY <3>1, <4>2, <6>1 DEF HBInv, Covered
          <6> QED BY <6>2
        <5>2. CASE Source(o, a)
          <6>1. \A r \in Active : refers[r] # o
            BY <3>2, <3>4, ConstantFacts DEF Active
          <6>2. a \in published[o]
            BY <3>1, <5>2, <6>1 DEF Source
          <6> QED BY <3>1, <6>2
        <5>3. CASE Source(s, a)
          <6>1. PICK v \in Thread : top[v] = s /\ a \in known[v]
            BY <4>1, <5>3 DEF Source
          <6>2. v = t
            BY <3>4, <6>1, ConstantFacts DEF IInv, Graph, Stacks
          <6> QED BY <3>1, <6>1, <6>2
        <5> QED BY <5>1, <5>2, <5>3
      <4>4. PICK S \in SUBSET Object : Frames(S, t)
        BY <3>4, ConstantFacts DEF HBInv, DropsKnown
      <4>5. \A x \in S : x # o /\ x \in Object
        BY <3>1, <4>4 DEF Frames
      <4>6. \A x \in S : caller'[x] = caller[x] /\ status'[x] = status[x]
        BY <4>5, FallEffect
      <4>7. Frames(S \cup {o}, t)'
        BY <3>1, <3>4, <4>3, <4>4, <4>6 DEF Frames, AllOf
      <4> QED BY <3>1, <4>7
    <3> QED BY <3>3, <3>4 DEF Fall, Falls
  <2> QED BY <2>1, <2>2
<1>3. CallersEmpty'
  <2> SUFFICES ASSUME NEW p \in Object, status'[p] = "dying", caller'[p] # None
               PROVE  refers'[caller'[p]] = None
    BY DEF CallersEmpty
  <2>1. CASE p # o
    <3>1. status[p] = "dying" /\ caller'[p] = caller[p]
      BY <2>1, FallEffect
    <3>2. caller[p] \in Object /\ refers[caller[p]] = None
      BY <3>1 DEF IInv, RefTypes, HBInv, CallersEmpty
    <3> QED BY <3>1, <3>2 DEF Fall, OthersKept
  <2>2. CASE p = o
    <3>1. caller'[o] = frame
      BY <2>2, FallEffect
    <3> QED BY <2>2, <3>1 DEF Fall, Falls, OthersKept
  <2> QED BY <2>1, <2>2
<1> QED BY <1>2, <1>3

\* What is known at an object is known there after the release, or at the
\* one released.
LEMMA FallKeepsSources ==
    ASSUME IInv, IInv', HBInv, NEW t \in Thread, NEW s, NEW o, NEW frame, Fall(t, s, o, frame),
           NEW x \in Object, NEW a, Source(x, a)
    PROVE  (x # s /\ Source(x, a)') \/ ((x = o \/ x = s) /\ Source(o, a)')
<1>1. ASSUME a \in known[t] \/ a \in published[o] PROVE Source(o, a)'
  <2>1. a \in published'[o]
    BY <1>1, FallEffect
  <2>2. CASE status'[o] = "live"
    BY <2>1, <2>2 DEF Source
  <2>3. CASE status'[o] = "dying" /\ top'[t] = o /\ published'[o] \subseteq known'[t]
    BY <2>1, <2>3 DEF Source
  <2> QED BY <2>2, <2>3, FallEffect
<1>2. ASSUME x = s PROVE Source(o, a)'
  <2>1. s \in Object /\ s = top[t]
    BY <1>2, ConstantFacts DEF Fall, Falls, Active
  <2>2. status[s] = "dying"
    BY <2>1, ConstantFacts DEF IInv, Graph, Stacks
  <2>3. PICK v \in Thread : top[v] = s /\ a \in known[v]
    BY <1>2, <2>2 DEF Source
  <2>4. v = t
    BY <2>1, <2>3, ConstantFacts DEF IInv, Graph, Stacks
  <2> QED BY <1>1, <2>3, <2>4
<1>3. CASE x # s /\ status[x] = "live" /\ a \in published[x]
  <2>1. CASE x = o
    BY <1>1, <1>3, <2>1
  <2>2. CASE x # o
    <3>1. status'[x] = "live" /\ a \in published'[x]
      BY <1>3, <2>2, FallEffect
    <3> QED BY <1>3, <3>1 DEF Source
  <2> QED BY <2>1, <2>2
<1>4. ASSUME x # s, NEW r \in Active, refers[r] = x, a \in known[Agent(r)]
      PROVE  Source(x, a)' \/ (x = o /\ Source(o, a)')
  <2>1. CASE r = s
    <3>1. Agent(s) = t /\ x = o
      BY <1>4, <2>1, ConstantFacts DEF Active, Fall, Falls
    <3> QED BY <1>1, <1>4, <2>1, <3>1
  <2>2. CASE r # s
    <3>1. PICK q \in Active : refers'[q] = x /\ Agent(q)' = Agent(r)
      BY <1>4, <2>2, ConstantFacts DEF Fall, OthersKept
    <3>2. status'[x] = "live"
      BY <3>1, ConstantFacts DEF Active, IInv, Graph, RefersLive
    <3>3. a \in known'[Agent(q)']
      BY <1>4, <3>1, Agents, ConstantFacts, FallEffect
    <3> QED BY <3>1, <3>2, <3>3 DEF Source, Active, Agent
  <2> QED BY <2>1, <2>2
<1>5. ASSUME x # s, status[x] = "dying", NEW v \in Thread, top[v] = x, a \in known[v]
      PROVE  Source(x, a)'
  <2>1. v # t
    BY <1>5, ConstantFacts DEF Fall, Falls
  <2>2. x # o
    BY <1>5, FallEffect
  <2>3. status'[x] = "dying" /\ top'[v] = x /\ a \in known'[v]
    BY <1>5, <2>1, <2>2, FallEffect
  <2> QED BY <2>3 DEF Source
<1> QED BY <1>2, <1>3, <1>4, <1>5 DEF Source

LEMMA FallKeepsCovered ==
    ASSUME IInv, IInv', HBInv, NEW t \in Thread, NEW s, NEW o, NEW frame, Fall(t, s, o, frame)
    PROVE  Covered'
<1> SUFFICES ASSUME NEW p \in Object, NEW a \in Access, NEW S \in SUBSET Object,
                    status'[p] = "live", a[1] = p, p \in S, UpClosed(S)'
             PROVE  \E x \in S : Source(x, a)'
  BY DEF Covered
<1>1. status[p] = "live" /\ o \in Object /\ refers[s] = o
  BY FallEffect
<1>2. ASSUME NEW R \in SUBSET Object, p \in R, UpClosed(R),
             \A x \in R : x \in S \/ x = s,
             s \in R => o \in S, o \in R => o \in S
      PROVE  \E x \in S : Source(x, a)'
  <2>1. PICK x \in R : Source(x, a)
    BY <1>1, <1>2 DEF HBInv, Covered
  <2>2. (x # s /\ Source(x, a)') \/ ((x = o \/ x = s) /\ Source(o, a)')
    BY <2>1, FallKeepsSources
  <2> QED BY <1>2, <2>1, <2>2
<1>3. CASE s \in Active
  <2>1. s \notin Object
    BY <1>3, ConstantFacts DEF Active
  <2>2. UpClosed(S)
    BY <2>1 DEF UpClosed, Fall, OthersKept
  <2> QED BY <1>2, <2>1, <2>2
<1>4. CASE s \in Object /\ s = top[t]
  <2>1. status[s] = "dying"
    BY <1>4, ConstantFacts DEF IInv, Graph, Stacks
  <2>2. p # s
    BY <1>1, <2>1
  <2>3. \A c \in Object : c # s /\ refers[c] \in S => c \in S
    BY DEF UpClosed, Fall, OthersKept
  <2>4. CASE o \in S
    <3>1. \A c \in Object : refers[c] # s
      BY <1>4, <2>1, ConstantFacts DEF IInv, Graph, RefersLive
    <3>2. UpClosed(S \cup {s})
      BY <2>3, <3>1 DEF UpClosed
    <3> QED BY <1>2, <1>4, <2>4, <3>2
  <2>5. CASE o \notin S
    <3>1. UpClosed(S \ {s})
      BY <1>1, <2>3, <2>5 DEF UpClosed
    <3> QED BY <1>2, <2>2, <2>5, <3>1
  <2> QED BY <2>4, <2>5
<1> QED BY <1>3, <1>4 DEF Fall, Falls

LEMMA FallStep ==
    ASSUME IInv, IInv', HBInv, HBTypes', NEW t \in Thread, NEW s, NEW o, NEW frame, Fall(t, s, o, frame)
    PROVE  HBInv'
BY FallKeepsKnowledge, FallKeepsDrops, FallKeepsCovered DEF HBInv

-----------------------------------------------------------------------------
(* The return of a dying object's memory.                                  *)

LEMMA DeallocateKeepsRaceFree ==
    ASSUME IInv, HBInv, HBTypes', NEW t \in Thread, Deallocate(t)
    PROVE  HBInv'
<1> DEFINE d == top[t]
<1>1. /\ d \in Object /\ status[d] = "dying" /\ refers[d] = None
      /\ \A u \in Thread : u # t => top[u] # d
      /\ \A o \in Object : status[o] = "dying" => caller[o] # d
  BY DEF Deallocate, IInv, RefTypes, Graph, Stacks
<1>2. /\ refers' = refers /\ owner' = owner /\ pc' = pc /\ arg' = arg
      /\ \A o \in Object : status'[o] = IF o = d THEN "free" ELSE status[o]
      /\ \A o \in Object : o # d => base'[o] = base[o] /\ caller'[o] = caller[o]
      /\ \A u \in Thread : top'[u] = IF u = t THEN caller[d] ELSE top[u]
      /\ \A u \in Thread : known'[u] = known[u] \cup AllOf(d)
      /\ \A o \in Object : o # d => published[o] \ AllOf(d) \subseteq published'[o]
  BY <1>1 DEF Deallocate, IInv, RefTypes
<1> HIDE DEF d
<1>3. OwnKnown'
  BY <1>2 DEF HBInv, OwnKnown
<1>4. FreeKnown'
  BY <1>1, <1>2 DEF HBInv, FreeKnown, AllOf
<1>5. WritesKnown'
  <2> SUFFICES ASSUME NEW s \in Active, NEW u \in Thread, refers'[s] # None
               PROVE  /\ <<refers'[s], u, "w">> \in known'[Agent(s)']
                      /\ <<base'[refers'[s]], u, "w">> \in known'[Agent(s)']
    BY DEF WritesKnown, Active, Agent
  <2>1. Agent(s)' = Agent(s) /\ Agent(s) \in Thread /\ refers[s] \in Object /\ refers[s] # d
    BY <1>1, <1>2, Agents DEF Agent
  <2> QED BY <1>2, <2>1 DEF HBInv, WritesKnown
<1>6. WriterKnows'
  BY <1>2 DEF HBInv, WriterKnows, AllOf
<1>7. DropsKnown'
  <2> SUFFICES ASSUME NEW u \in Thread, top'[u] # None PROVE \E S \in SUBSET Object : Frames(S, u)'
    BY DEF DropsKnown
  <2>1. top[u] # None
    BY <1>1, <1>2, ConstantFacts DEF d
  <2>2. PICK S \in SUBSET Object : Frames(S, u)
    BY <2>1 DEF HBInv, DropsKnown
  <2>3. top'[u] \in S \ {d}
    <3>1. CASE u = t
      <4>1. caller[d] # d /\ caller[d] # None /\ d \in S
        BY <1>1, <1>2, <2>2, <3>1 DEF Frames, d
      <4> QED BY <1>2, <2>2, <3>1, <4>1 DEF Frames
    <3>2. CASE u # t
      BY <1>1, <1>2, <2>2, <3>2 DEF Frames
    <3> QED BY <3>1, <3>2
  <2>4. \A x \in S \ {d} : /\ caller'[x] # None => caller'[x] \in S \ {d}
                           /\ status'[x] = "dying" /\ AllOf(x) \subseteq known'[u]
    BY <1>1, <1>2, <2>2 DEF Frames
  <2>5. PICK R \in SUBSET Object : R = S \ {d}
    OBVIOUS
  <2>6. Frames(R, u)'
    BY <2>3, <2>4, <2>5 DEF Frames, AllOf
  <2> QED BY <2>6
<1>8. CallersEmpty'
  BY <1>2 DEF HBInv, CallersEmpty
<1>9. Covered'
  <2> SUFFICES ASSUME NEW p \in Object, NEW a \in Access, NEW S \in SUBSET Object,
                      status'[p] = "live", a[1] = p, p \in S, UpClosed(S)'
               PROVE  \E x \in S : Source(x, a)'
    BY DEF Covered
  <2>1. status[p] = "live" /\ p # d /\ a \notin AllOf(d)
    BY <1>2 DEF AllOf
  <2>2. UpClosed(S \ {d})
    BY <1>1, <1>2, ConstantFacts DEF UpClosed
  <2>3. PICK x \in S \ {d} : Source(x, a)
    BY <2>1, <2>2 DEF HBInv, Covered
  <2>4. CASE status[x] = "live" /\ a \in published[x]
    BY <1>2, <2>1, <2>3, <2>4 DEF Source
  <2>5. ASSUME status[x] = "live", NEW s \in Active, refers[s] = x, a \in known[Agent(s)]
        PROVE  Source(x, a)'
    <3>1. Agent(s)' = Agent(s) /\ Agent(s) \in Thread
      BY <1>2, <2>5, Agents, ConstantFacts DEF Agent
    <3> QED BY <1>2, <2>3, <2>5, <3>1 DEF Source, Active, Agent
  <2>6. ASSUME status[x] = "dying", NEW u \in Thread, top[u] = x, a \in known[u]
        PROVE  Source(x, a)'
    <3>1. top'[u] = x /\ a \in known'[u] /\ status'[x] = "dying"
      BY <1>2, <2>3, <2>6 DEF d
    <3> QED BY <3>1 DEF Source
  <2> QED BY <2>3, <2>4, <2>5, <2>6 DEF Source
<1> QED BY <1>3, <1>4, <1>5, <1>6, <1>7, <1>8, <1>9 DEF HBInv

-----------------------------------------------------------------------------
(* The operations are such steps.                                          *)

\* Performing accesses that t has made, on objects it reaches or on a fresh
\* one, is all that Perform does.
LEMMA PerformGrows ==
    ASSUME HBInv, NEW t \in Thread, NEW done \in SUBSET Access, Perform(t, done),
           \A a \in done : a[2] = t,
           \A a \in done :
              \/ status[a[1]] = "free" /\ status'[a[1]] = "live"
              \/ Reaches(t, a[1]) /\ (a[3] = "w" => Writes(t, a[1]))
    PROVE  Performs(t, done) /\ known'[t] = known[t]
<1>1. /\ \A u \in Thread : known'[u] = IF u = t THEN known[u] ELSE known[u] \ done
      /\ \A o \in Object : published'[o] = published[o] \ done
  BY DEF Perform, Touched, Unpublished
<1> QED BY <1>1 DEF Performs

\* A handle of t reaches its object and the bytes behind it.
LEMMA HandleReaches ==
    ASSUME IInv, NEW t \in Thread, NEW s \in Active, Agent(s) = t, refers[s] # None
    PROVE  Reaches(t, refers[s]) /\ Reaches(t, base[refers[s]])
BY DEF Reaches

LEMMA OwnHandle ==
    ASSUME IInv, NEW t \in Thread, NEW h \in Handle, owner[h] = t
    PROVE  /\ h \in Active /\ Agent(h) = t /\ refers[h] # None /\ refers[h] \in Object
           /\ base[refers[h]] \in Object /\ status[refers[h]] = "live"
           /\ Reaches(t, refers[h]) /\ Reaches(t, base[refers[h]])
<1>1. h \in Active /\ Agent(h) = t
  BY ConstantFacts DEF Active, Agent
<1>2. refers[h] # None
  BY RefCountAssumption DEF IInv, Threads, Ownership
<1> QED BY <1>1, <1>2, Agents, HandleReaches

\* Steps that change no reference and no object.
LEMMA StayGrows ==
    ASSUME IInv, NEW t \in Thread, NEW done, Performs(t, done),
           UNCHANGED <<refers, owner, status, base, top, caller>>,
           \A u \in Thread \ {t} : pc'[u] = pc[u] /\ arg'[u] = arg[u],
           pc'[t] = "write" => AllOf(refers[arg'[t]]) \subseteq known'[t]
    PROVE  Grow(t, done)
<1>1. ObjectsKept(t)
  BY DEF ObjectsKept
<1>2. SlotsKept(t, done)
  BY DEF SlotsKept, Agent
<1>3. PlacesKept(t)
  BY DEF PlacesKept
<1> QED BY <1>1, <1>2, <1>3 DEF Grow

LEMMA ReadGrows ==
    ASSUME IInv, HBInv, NEW t \in Thread, NEW h \in Handle, Read(t, h)
    PROVE  \E done : Grow(t, done)
<1> DEFINE done == Reads(t, {refers[h], base[refers[h]]})
<1>1. owner[h] = t /\ pc[t] = "idle"
  BY DEF Read, Holds, Idle
<1>2. /\ refers[h] \in Object /\ base[refers[h]] \in Object
      /\ Reaches(t, refers[h]) /\ Reaches(t, base[refers[h]])
  BY <1>1, OwnHandle
<1>3. done \in SUBSET Access
  BY <1>2 DEF Reads, Access
<1>4. \A a \in done : a[2] = t /\ Reaches(t, a[1]) /\ a[3] # "w"
  BY <1>2 DEF Reads
<1>5. Perform(t, done) /\ UNCHANGED refVars
  BY DEF Read
<1> HIDE DEF done
<1>6. Performs(t, done)
  BY <1>3, <1>4, <1>5, PerformGrows
<1>7. Grow(t, done)
  BY <1>1, <1>5, <1>6, StayGrows DEF refVars
<1> QED BY <1>7

LEMMA LocalGrows ==
    ASSUME IInv, HBInv, NEW t \in Thread,
           Abort(t) \/ CopyFail(t) \/ \E h \in Handle : LeaveView(t, h)
    PROVE  \E done : Grow(t, done)
<1>1. UNCHANGED <<refers, owner, status, base, top, caller, known, published>> /\ t \in DOMAIN pc
  BY DEF Abort, CopyFail, LeaveView, refVars, hbVars, IInv, RefTypes
<1>2. Performs(t, {})
  BY <1>1 DEF Performs
<1>3. (\A u \in Thread \ {t} : pc'[u] = pc[u] /\ arg'[u] = arg[u]) /\ pc'[t] # "write"
  BY DEF Abort, CopyFail, LeaveView, Done, Goto, refVars, IInv, RefTypes
<1>4. Grow(t, {})
  BY <1>1, <1>2, <1>3, StayGrows
<1> QED BY <1>4

LEMMA WriteGrows ==
    ASSUME IInv, HBInv, NEW t \in Thread, WriteInPlace(t)
    PROVE  \E done : Grow(t, done)
<1> DEFINE done == {<<refers[arg[t]], t, "w">>}
<1>1. pc[t] = "write" /\ arg[t] \in Handle /\ owner[arg[t]] = t
  BY DEF WriteInPlace, IInv, Threads, Argument
<1>2. refers[arg[t]] \in Object /\ Reaches(t, refers[arg[t]])
  BY <1>1, OwnHandle
<1>3. done \in SUBSET Access
  BY <1>2 DEF Access
<1>4. \A a \in done : a[2] = t /\ Reaches(t, a[1]) /\ Writes(t, a[1])
  BY <1>1, <1>2 DEF Writes
<1>5. /\ Perform(t, done) /\ UNCHANGED <<refers, owner, status, base, top, caller>>
      /\ (\A u \in Thread \ {t} : pc'[u] = pc[u] /\ arg'[u] = arg[u]) /\ pc'[t] # "write"
  BY DEF WriteInPlace, Done, Goto, IInv, RefTypes
<1> HIDE DEF done
<1>6. Performs(t, done)
  BY <1>3, <1>4, <1>5, PerformGrows
<1>7. Grow(t, done)
  BY <1>5, <1>6, StayGrows
<1> QED BY <1>7

\* A handle that finds itself alone has taken what every former reference
\* on the buffer released.
LEMMA TestUniqueGrows ==
    ASSUME IInv, IInv', HBInv, NEW t \in Thread, NEW h \in Handle, TestUnique(t, h)
    PROVE  \E done : Grow(t, done)
<1> DEFINE done == Reads(t, {refers[h]})
<1>1. owner[h] = t /\ arg' = [arg EXCEPT ![t] = h] /\ UNCHANGED <<refers, owner, status, base, top, caller>>
  BY DEF TestUnique, Holds
<1>2. /\ refers[h] \in Object /\ Reaches(t, refers[h]) /\ h \in Active /\ Agent(h) = t
      /\ status[refers[h]] = "live"
  BY <1>1, OwnHandle
<1>3. done \in SUBSET Access
  BY <1>2 DEF Reads, Access
<1>4. \A a \in done : a[2] = t /\ Reaches(t, a[1]) /\ a[3] # "w"
  BY <1>2 DEF Reads
<1>5. /\ known'[t] = known[t] \cup published[refers[h]]
      /\ \A u \in Thread : u # t => known'[u] = known[u] \ done
      /\ \A o \in Object : published'[o] = published[o] \ done
      /\ \A u \in Thread \ {t} : pc'[u] = pc[u] /\ arg'[u] = arg[u]
      /\ arg'[t] = h
      /\ pc'[t] = "write" \/ pc'[t] = "copy"
  BY DEF TestUnique, Unpublished, Goto, IInv, RefTypes
<1>6. Performs(t, done)
  BY <1>3, <1>4, <1>5 DEF Performs
<1> HIDE DEF done
<1>7. ASSUME pc'[t] = "write", NEW a \in AllOf(refers[h]) PROVE a \in known'[t]
  <2>1. Referrers(refers[h]) = {h}
    BY <1>1, <1>5, <1>7 DEF IInv, Threads, WriterAlone, Referrers
  <2>2. UpClosed({refers[h]})
    BY <2>1, ConstantFacts DEF UpClosed, Referrers
  <2>3. Source(refers[h], a)
    BY <1>2, <2>2 DEF HBInv, Covered, AllOf
  <2>4. \A r \in Active : refers[r] = refers[h] => r = h
    BY <2>1, ConstantFacts DEF Active, Referrers
  <2>5. a \in published[refers[h]] \/ a \in known[t]
    BY <1>2, <2>3, <2>4 DEF Source
  <2> QED BY <1>5, <2>5
<1>8. Grow(t, done)
  BY <1>1, <1>5, <1>6, <1>7, StayGrows
<1> QED BY <1>8

\* A handle sent to another thread takes what its sender knows along.
LEMMA SendGrows ==
    ASSUME IInv, HBInv, NEW t \in Thread, NEW h \in Handle, NEW u \in Thread, Send(t, h, u)
    PROVE  \E done : Grow(t, done)
<1>1. /\ UNCHANGED <<refers, status, base, top, caller, pc, arg, published>>
      /\ pc[t] = "idle" /\ owner[h] = t
      /\ known' = [known EXCEPT ![u] = @ \cup known[t]] /\ owner' = [owner EXCEPT ![h] = u]
  BY DEF Send, Holds, Idle
<1>2. \A v \in Thread : known[v] \subseteq known'[v]
  BY <1>1 DEF HBInv, HBTypes
<1>3. Performs(t, {})
  BY <1>1, <1>2 DEF Performs
<1>4. ASSUME NEW s \in Active, refers[s] # None
      PROVE  Agent(s)' = Agent(s) \/ known[Agent(s)] \subseteq known'[Agent(s)']
  <2>1. CASE s # h \/ s \in Thread
    BY <1>1, <2>1 DEF Agent, Active, IInv, RefTypes
  <2>2. CASE s = h /\ s \notin Thread
    <3>1. owner'[h] = u /\ known[t] \subseteq known'[u]
      BY <1>1 DEF IInv, RefTypes, HBInv, HBTypes
    <3> QED BY <1>1, <2>2, <3>1 DEF Agent
  <2> QED BY <2>1, <2>2
<1>5. SlotsKept(t, {})
  BY <1>1, <1>4 DEF SlotsKept
<1>6. ObjectsKept(t) /\ PlacesKept(t)
  BY <1>1 DEF ObjectsKept, PlacesKept
<1>7. Grow(t, {})
  BY <1>3, <1>5, <1>6 DEF Grow
<1> QED BY <1>7

\* A fresh object initialized by t from what it reaches.
LEMMA InitializePerforms ==
    ASSUME IInv, HBInv, NEW t \in Thread, NEW o \in Object, NEW R \in SUBSET Object,
           Initialize(t, o, R), status[o] = "free", status' = [status EXCEPT ![o] = "live"],
           \A p \in R : Reaches(t, p)
    PROVE  \E done : Performs(t, done) /\ known'[t] = known[t] /\ done # {}
<1> DEFINE done == {<<o, t, "w">>} \cup Reads(t, R)
<1>1. done \in SUBSET Access
  BY DEF Reads, Access
<1>2. status'[o] = "live"
  BY DEF IInv, RefTypes
<1>3. \A a \in done : /\ a[2] = t
                      /\ \/ status[a[1]] = "free" /\ status'[a[1]] = "live"
                         \/ Reaches(t, a[1]) /\ (a[3] = "w" => Writes(t, a[1]))
  BY <1>2 DEF Reads
<1>4. Perform(t, done) /\ done # {}
  BY DEF Initialize
<1> HIDE DEF done
<1> QED BY <1>1, <1>3, <1>4, PerformGrows

\* A new object in a new handle.
LEMMA AllocateGrows ==
    ASSUME IInv, HBInv, NEW t \in Thread, NEW h \in Handle, NEW o \in Object, NEW k, Allocate(t, h, o, k)
    PROVE  \E done : Grow(t, done)
<1>1. /\ pc[t] = "idle" /\ owner[h] = None /\ status[o] = "free"
      /\ status' = [status EXCEPT ![o] = "live"] /\ base' = [base EXCEPT ![o] = o]
      /\ refers' = [refers EXCEPT ![h] = o] /\ owner' = [owner EXCEPT ![h] = t]
      /\ Initialize(t, o, {}) /\ UNCHANGED <<pc, arg, top, caller>>
  BY DEF Allocate, Fresh, Idle, Empty
<1>2. /\ refers[h] = None /\ h \notin Thread /\ h \notin Object /\ h \in Active /\ h \in Slot
      /\ refers'[h] = o /\ owner'[h] = t /\ status'[o] = "live" /\ base'[o] = o
      /\ \A s \in Slot : s # h => refers'[s] = refers[s]
      /\ \A g \in Handle : g # h => owner'[g] = owner[g]
      /\ \A p \in Object : p # o => status'[p] = status[p] /\ base'[p] = base[p]
  BY <1>1, ConstantFacts DEF Active, IInv, RefTypes, Threads, Ownership
<1>3. PICK done : Performs(t, done)
  <2>1. {} \in SUBSET Object /\ \A p \in {} : Reaches(t, p)
    OBVIOUS
  <2> QED BY <1>1, <2>1, InitializePerforms
<1>4. Agent(h)' = t
  BY <1>2 DEF Agent
<1>5. ObjectsKept(t)
  BY <1>1, <1>2, <1>4, ConstantFacts DEF ObjectsKept
<1>6. \A s \in Active : refers[s] # None => refers'[s] = refers[s] /\ Agent(s)' = Agent(s)
  BY <1>2, ConstantFacts DEF Active, Agent
<1>7. \A s \in Active : refers'[s] # refers[s] => s = h
  BY <1>2, ConstantFacts DEF Active
<1>8. SlotsKept(t, done)
  BY <1>1, <1>2, <1>4, <1>6, <1>7 DEF SlotsKept
<1>9. PlacesKept(t)
  BY <1>1 DEF PlacesKept
<1> QED BY <1>3, <1>5, <1>8, <1>9 DEF Grow

\* A copy under way refers to the fresh object from its thread.
LEMMA CopyOutGrows ==
    ASSUME IInv, HBInv, NEW t \in Thread, NEW n \in Object, CopyOut(t, n)
    PROVE  \E done : Grow(t, done)
<1>1. /\ pc[t] = "copy" /\ status[n] = "free"
      /\ status' = [status EXCEPT ![n] = "live"] /\ base' = [base EXCEPT ![n] = n]
      /\ refers' = [refers EXCEPT ![t] = n] /\ pc' = [pc EXCEPT ![t] = "install"]
      /\ Initialize(t, n, {refers[arg[t]], base[refers[arg[t]]]})
      /\ UNCHANGED <<owner, arg, top, caller>>
  BY DEF CopyOut, Fresh, Goto
<1>2. arg[t] \in Handle /\ owner[arg[t]] = t /\ refers[t] = None
  BY <1>1 DEF IInv, Threads, Argument, Flight
<1>3. /\ refers[arg[t]] \in Object /\ base[refers[arg[t]]] \in Object
      /\ Reaches(t, refers[arg[t]]) /\ Reaches(t, base[refers[arg[t]]])
  BY <1>2, OwnHandle
<1>4. /\ t \notin Object /\ t \in Active /\ t \in Slot
      /\ refers'[t] = n /\ status'[n] = "live" /\ base'[n] = n /\ pc'[t] = "install"
      /\ \A s \in Slot : s # t => refers'[s] = refers[s]
      /\ \A p \in Object : p # n => status'[p] = status[p] /\ base'[p] = base[p]
      /\ \A u \in Thread : u # t => pc'[u] = pc[u]
  BY <1>1, ConstantFacts DEF Active, IInv, RefTypes
<1> DEFINE R == {refers[arg[t]], base[refers[arg[t]]]}
<1>a. R \in SUBSET Object /\ \A p \in R : Reaches(t, p)
  BY <1>3
<1>b. Initialize(t, n, R)
  BY <1>1
<1> HIDE DEF R
<1>5. PICK done : Performs(t, done)
  BY <1>1, <1>a, <1>b, InitializePerforms
<1>6. \A s \in Active : Agent(s)' = Agent(s)
  BY <1>1 DEF Agent
<1>7. Agent(t) = t
  BY DEF Agent
<1>8. ObjectsKept(t)
  BY <1>1, <1>4, <1>6, <1>7, ConstantFacts DEF ObjectsKept
<1>9. \A s \in Active : refers'[s] # refers[s] => s = t
  BY <1>4, ConstantFacts DEF Active
<1>10. SlotsKept(t, done)
  BY <1>1, <1>2, <1>4, <1>6, <1>7, <1>9 DEF SlotsKept
<1>11. PlacesKept(t)
  BY <1>1, <1>4 DEF PlacesKept
<1> QED BY <1>5, <1>8, <1>10, <1>11 DEF Grow

\* A span child comes between a new handle and the reference its thread
\* retained.
LEMMA SpanMintGrows ==
    ASSUME IInv, HBInv, NEW t \in Thread, NEW g \in Handle, NEW c \in Object, SpanMint(t, g, c)
    PROVE  \E done : Grow(t, done)
<1> DEFINE r == refers[t]
<1>1. /\ pc[t] = "span" /\ owner[g] = None /\ status[c] = "free"
      /\ status' = [status EXCEPT ![c] = "live"] /\ base' = [base EXCEPT ![c] = base[r]]
      /\ refers' = [refers EXCEPT ![c] = r, ![g] = c, ![t] = None]
      /\ owner' = [owner EXCEPT ![g] = t] /\ pc' = [pc EXCEPT ![t] = "idle"]
      /\ Initialize(t, c, {r})
      /\ UNCHANGED <<arg, top, caller>>
  BY DEF SpanMint, Fresh, Goto, Empty
<1>2. t \in Active /\ Agent(t) = t /\ r # None /\ r \in Object /\ status[r] = "live"
  <2>1. t \in Active /\ Agent(t) = t /\ r # None
    BY <1>1 DEF Active, Agent, IInv, Threads, Flight
  <2> QED BY <2>1, Agents
<1>3. Reaches(t, r) /\ Reaches(t, base[r]) /\ base[r] \in Object
  BY <1>2, HandleReaches, Agents
<1>4. /\ t \notin Object /\ g \notin Object /\ t # g /\ g \in Active /\ g \notin Thread
      /\ refers[g] = None /\ refers[c] = None
  BY <1>1, ConstantFacts DEF Active, IInv, Graph, FreeHoldsNothing, Threads, Ownership
<1>5. /\ refers'[c] = r /\ refers'[g] = c /\ refers'[t] = None
      /\ \A s \in Slot : s # c /\ s # g /\ s # t => refers'[s] = refers[s]
      /\ status'[c] = "live" /\ base'[c] = base[r] /\ owner'[g] = t
      /\ \A p \in Object : p # c => status'[p] = status[p] /\ base'[p] = base[p]
      /\ \A h \in Handle : h # g => owner'[h] = owner[h]
      /\ pc'[t] = "idle"
      /\ \A u \in Thread : u # t => pc'[u] = pc[u]
  BY <1>1, <1>4, ConstantFacts DEF IInv, RefTypes
<1> HIDE DEF r
<1>6. PICK done : Performs(t, done)
  BY <1>1, <1>2, <1>3, InitializePerforms
<1>7. Agent(g)' = t
  BY <1>4, <1>5 DEF Agent
<1>8. ObjectsKept(t)
  BY <1>1, <1>3, <1>4, <1>5, <1>7, ConstantFacts DEF ObjectsKept
<1>9. \A s \in Active : s # g => Agent(s)' = Agent(s)
  BY <1>5 DEF Agent, Active
<1>10. \A s \in Active : s # g /\ s # t => refers'[s] = refers[s]
  BY <1>5, ConstantFacts DEF Active
<1>11. Moved(t, t)
  BY <1>1, <1>2, <1>4, <1>5, <1>7 DEF Moved, r
<1>12. SlotsKept(t, done)
  <2>1. ASSUME NEW s \in Active, refers[s] # None
        PROVE  (refers'[s] = refers[s] /\ Agent(s)' = Agent(s)) \/ Moved(t, s)
    <3>1. s # g
      BY <1>4, <2>1
    <3>2. CASE s = t
      BY <1>11, <3>2
    <3>3. CASE s # t
      BY <1>9, <1>10, <3>1, <3>3
    <3> QED BY <3>2, <3>3
  <2>2. ASSUME NEW s \in Active, refers'[s] # None, refers'[s] # refers[s]
        PROVE  /\ Agent(s)' = t
               /\ refers'[s] \in Object /\ status[refers'[s]] = "free" /\ status'[refers'[s]] = "live"
    <3>1. s = g
      BY <1>5, <1>10, <2>2
    <3> QED BY <1>1, <1>5, <1>7, <3>1
  <2> QED BY <2>1, <2>2 DEF SlotsKept
<1>13. PlacesKept(t)
  BY <1>1, <1>5 DEF PlacesKept
<1> QED BY <1>6, <1>8, <1>12, <1>13 DEF Grow

\* One more reference on an object of t's, in a slot of t's that held none.
LEMMA RetainGrows ==
    ASSUME IInv, HBInv, NEW t \in Thread, NEW h \in Handle, NEW s \in Active,
           owner[h] = t, pc[t] = "idle", refers[s] = None, Agent(s)' = t,
           Retain(t, refers[h], s), Perform(t, Reads(t, {refers[h]})), arg' = arg,
           \A u \in Thread \ {t} : pc'[u] = pc[u],
           pc'[t] # "write",
           \A r \in Active : r # s => Agent(r)' = Agent(r)
    PROVE  \E done : Grow(t, done)
<1> DEFINE done == Reads(t, {refers[h]})
<1>1. /\ refers' = [refers EXCEPT ![s] = refers[h]] /\ UNCHANGED <<status, base, top, caller>>
  BY DEF Retain
<1>2. /\ h \in Active /\ Agent(h) = t /\ refers[h] # None /\ refers[h] \in Object
      /\ Reaches(t, refers[h])
  BY OwnHandle
<1>3. /\ \A r \in Active : r # s => refers'[r] = refers[r]
      /\ refers'[s] = refers[h]
      /\ \A p \in Object : refers'[p] = refers[p]
  BY <1>1, ConstantFacts DEF Active, IInv, RefTypes
<1>4. done \in SUBSET Access
  BY <1>2 DEF Reads, Access
<1>5. \A a \in done : a[2] = t /\ Reaches(t, a[1]) /\ a[3] # "w"
  BY <1>2 DEF Reads
<1>6. Perform(t, done)
  OBVIOUS
<1> HIDE DEF done
<1>7. Performs(t, done)
  BY <1>4, <1>5, <1>6, PerformGrows
<1>8. ObjectsKept(t)
  BY <1>1, <1>3 DEF ObjectsKept
<1>9. SlotsKept(t, done)
  BY <1>2, <1>3 DEF SlotsKept
<1>10. PlacesKept(t)
  BY <1>1 DEF PlacesKept
<1> QED BY <1>7, <1>8, <1>9, <1>10 DEF Grow

LEMMA ShareGrows ==
    ASSUME IInv, HBInv, NEW t \in Thread, NEW h \in Handle, NEW g \in Handle, NEW w, Share(t, h, g, w)
    PROVE  \E done : Grow(t, done)
<1>1. /\ owner[h] = t /\ pc[t] = "idle" /\ owner[g] = None /\ Retain(t, refers[h], g)
      /\ owner' = [owner EXCEPT ![g] = t] /\ Perform(t, Reads(t, {refers[h]}))
      /\ UNCHANGED <<pc, arg>>
  BY DEF Share, Holds, Idle, Empty
<1>2. /\ g \in Active /\ g \notin Thread /\ refers[g] = None /\ owner'[g] = t
      /\ \A r \in Handle : r # g => owner'[r] = owner[r]
  BY <1>1, ConstantFacts DEF Active, IInv, RefTypes, Threads, Ownership
<1>3. Agent(g)' = t /\ \A r \in Active : r # g => Agent(r)' = Agent(r)
  BY <1>2 DEF Agent, Active
<1> QED BY <1>1, <1>2, <1>3, RetainGrows

LEMMA SpanRetainGrows ==
    ASSUME IInv, HBInv, NEW t \in Thread, NEW h \in Handle, SpanRetain(t, h)
    PROVE  \E done : Grow(t, done)
<1>1. /\ owner[h] = t /\ pc[t] = "idle" /\ Retain(t, refers[h], t)
      /\ pc' = [pc EXCEPT ![t] = "span"] /\ Perform(t, Reads(t, {refers[h]}))
      /\ UNCHANGED <<owner, arg>>
  BY DEF SpanRetain, Holds, Idle, Goto
<1>2. t \in Active /\ refers[t] = None /\ pc'[t] # "write" /\ \A u \in Thread \ {t} : pc'[u] = pc[u]
  BY <1>1 DEF Active, IInv, RefTypes, Threads, Flight
<1>3. Agent(t)' = t /\ \A r \in Active : Agent(r)' = Agent(r)
  BY <1>1 DEF Agent
<1> QED BY <1>1, <1>2, <1>3, RetainGrows

\* The last of an object's references has no other beside it.
LEMMA OneReferrer ==
    ASSUME IInv, NEW o \in Object, NEW s \in Slot, refers[s] = o, count[o] = 1
    PROVE  \A c \in Slot : refers[c] = o => c = s
<1> SUFFICES ASSUME NEW c \in Slot, refers[c] = o, c # s PROVE FALSE
  OBVIOUS
<1>1. IsFiniteSet(Refs(refers, o)) /\ Cardinality(Refs(refers, o)) = 1
  BY RefsFinite, ReferrersAreRefs DEF IInv, Graph, CountExact
<1>2. c \in Refs(refers, o) \ {s} /\ s \in Refs(refers, o)
  BY DEF Refs
<1>3. IsFiniteSet(Refs(refers, o) \ {s}) /\ Cardinality(Refs(refers, o) \ {s}) = 1 - 1
  BY <1>1, <1>2, FS_RemoveElement
<1> QED BY <1>2, <1>3, FS_EmptySet

\* A release of the reference a slot of t holds.
LEMMA OwnFall ==
    ASSUME IInv, NEW t \in Thread, NEW s \in Active, refers[s] # None, Agent(s) = t, top[t] = None,
           Release(t, refers[s], None), base' = base, OthersKept(s)
    PROVE  Fall(t, s, refers[s], None)
<1>1. s \in Slot /\ refers[s] \in Object /\ status[refers[s]] = "live"
  BY Agents, ConstantFacts DEF Active
<1>2. count[refers[s]] = 1 => \A c \in Slot : refers[c] = refers[s] => c = s
  BY <1>1, OneReferrer
<1> QED BY <1>1, <1>2 DEF Fall, Falls

LEMMA DropFalls ==
    ASSUME IInv, NEW t \in Thread, NEW h \in Handle, Drop(t, h)
    PROVE  \E s, o, frame : Fall(t, s, o, frame)
<1>1. /\ owner[h] = t /\ top[t] = None /\ pc[t] = "idle" /\ Release(t, refers[h], None)
      /\ refers' = [refers EXCEPT ![h] = None] /\ owner' = [owner EXCEPT ![h] = None]
      /\ UNCHANGED <<base, pc, arg>>
  BY DEF Drop, Holds, Idle
<1>2. h \in Active /\ Agent(h) = t /\ refers[h] # None
  BY <1>1, OwnHandle
<1>3. /\ refers'[h] = None
      /\ \A s \in Slot : s # h => refers'[s] = refers[s]
      /\ \A g \in Handle : g # h => owner'[g] = owner[g]
  BY <1>1, ConstantFacts DEF IInv, RefTypes
<1>4. \A s \in Active : s # h => Agent(s)' = Agent(s) /\ refers'[s] = refers[s]
  BY <1>3, ConstantFacts DEF Active, Agent
<1>5. OthersKept(h)
  <2>1. ASSUME NEW u \in Thread, pc'[u] = "write"
        PROVE  pc[u] = "write" /\ arg'[u] = arg[u] /\ refers'[arg[u]] = refers[arg[u]]
    <3>1. pc[u] = "write" /\ u # t /\ arg'[u] = arg[u]
      BY <1>1, <2>1
    <3>2. arg[u] \in Handle /\ owner[arg[u]] = u
      BY <3>1 DEF IInv, Threads, Argument
    <3> QED BY <1>1, <1>3, <3>1, <3>2, ConstantFacts
  <2> QED BY <1>3, <1>4, <2>1, ConstantFacts DEF OthersKept
<1>6. Fall(t, h, refers[h], None)
  BY <1>1, <1>2, <1>5, OwnFall
<1> QED BY <1>6

LEMMA SpanFailFalls ==
    ASSUME IInv, NEW t \in Thread, SpanFail(t)
    PROVE  \E s, o, frame : Fall(t, s, o, frame)
<1>1. /\ pc[t] = "span" /\ Release(t, refers[t], None)
      /\ refers' = [refers EXCEPT ![t] = None] /\ pc' = [pc EXCEPT ![t] = "idle"]
      /\ UNCHANGED <<base, owner, arg>>
  BY DEF SpanFail, Goto
<1>2. t \in Active /\ Agent(t) = t /\ refers[t] # None /\ top[t] = None
  BY <1>1 DEF Active, Agent, IInv, Threads, Flight, Dropping
<1>3. /\ refers'[t] = None
      /\ \A s \in Slot : s # t => refers'[s] = refers[s]
      /\ pc'[t] = "idle" /\ \A u \in Thread : u # t => pc'[u] = pc[u]
  BY <1>1, ConstantFacts DEF IInv, RefTypes
<1>4. /\ \A s \in Active : Agent(s)' = Agent(s)
      /\ \A s \in Active : s # t => refers'[s] = refers[s]
  BY <1>1, <1>3, ConstantFacts DEF Active, Agent
<1>5. OthersKept(t)
  <2>1. ASSUME NEW u \in Thread, pc'[u] = "write"
        PROVE  pc[u] = "write" /\ arg'[u] = arg[u] /\ refers'[arg[u]] = refers[arg[u]]
    <3>1. pc[u] = "write" /\ arg'[u] = arg[u]
      BY <1>1, <1>3, <2>1
    <3>2. arg[u] \in Handle
      BY <3>1 DEF IInv, Threads, Argument
    <3> QED BY <1>3, <3>1, <3>2, ConstantFacts
  <2> QED BY <1>3, <1>4, <2>1, ConstantFacts DEF OthersKept
<1>6. Fall(t, t, refers[t], None)
  BY <1>1, <1>2, <1>5, OwnFall
<1> QED BY <1>6

\* The value gives up its old reference and takes its thread's.
LEMMA InstallFalls ==
    ASSUME IInv, NEW t \in Thread, Install(t)
    PROVE  \E s, o, frame : Fall(t, s, o, frame)
<1> DEFINE h == arg[t]
<1>1. /\ pc[t] = "install" /\ Release(t, refers[h], None)
      /\ refers' = [refers EXCEPT ![h] = refers[t], ![t] = None]
      /\ pc' = [pc EXCEPT ![t] = "idle"] /\ arg' = [arg EXCEPT ![t] = None]
      /\ UNCHANGED <<base, owner>>
  BY DEF Install, Done, Goto
<1>2. /\ h \in Handle /\ owner[h] = t /\ t # h /\ t \in Active /\ Agent(t) = t
      /\ refers[t] # None /\ top[t] = None /\ h \in Slot /\ t \in Slot
  BY <1>1, ConstantFacts DEF Active, Agent, IInv, Threads, Argument, Flight, Dropping
<1>3. h \in Active /\ Agent(h) = t /\ refers[h] # None
  BY <1>2, OwnHandle
<1>4. /\ refers'[t] = None /\ refers'[h] = refers[t]
      /\ \A s \in Slot : s # t /\ s # h => refers'[s] = refers[s]
      /\ pc'[t] = "idle"
      /\ \A u \in Thread : u # t => pc'[u] = pc[u] /\ arg'[u] = arg[u]
  BY <1>1, <1>2 DEF IInv, RefTypes
<1> HIDE DEF h
<1>5. /\ \A s \in Active : Agent(s)' = Agent(s)
      /\ \A s \in Active : s # t /\ s # h => refers'[s] = refers[s]
  BY <1>1, <1>4, ConstantFacts DEF Active, Agent
<1>6. OthersKept(h)
  <2>1. ASSUME NEW u \in Thread, pc'[u] = "write"
        PROVE  pc[u] = "write" /\ arg'[u] = arg[u] /\ refers'[arg[u]] = refers[arg[u]]
    <3>1. pc[u] = "write" /\ u # t /\ arg'[u] = arg[u]
      BY <1>4, <2>1
    <3>2. arg[u] \in Handle /\ owner[arg[u]] = u
      BY <3>1 DEF IInv, Threads, Argument
    <3> QED BY <1>2, <1>4, <3>1, <3>2, ConstantFacts
  <2>2. \A c \in Object : refers'[c] = refers[c] /\ c # h
    BY <1>2, <1>4, ConstantFacts
  <2>3. ASSUME NEW r \in Active, r # h, refers[r] # None
        PROVE  \E q \in Active : refers'[q] = refers[r] /\ Agent(q)' = Agent(r)
    BY <1>2, <1>3, <1>4, <1>5, <2>3
  <2>4. ASSUME NEW q \in Active, refers'[q] # None
        PROVE  \E r \in Active : refers[r] = refers'[q] /\ Agent(r) = Agent(q)'
    BY <1>2, <1>3, <1>4, <1>5, <2>4
  <2> QED BY <2>1, <2>2, <2>3, <2>4 DEF OthersKept
<1>7. Fall(t, h, refers[h], None)
  BY <1>1, <1>2, <1>3, <1>6, OwnFall
<1> QED BY <1>7

\* A dying Adopted releases what its holder retains.
LEMMA DropHolderFalls ==
    ASSUME IInv, NEW t \in Thread, DropHolder(t)
    PROVE  \E s, o, frame : Fall(t, s, o, frame)
<1> DEFINE q == top[t]
<1>1. /\ q \in Object /\ refers[q] # None /\ Release(t, refers[q], q)
      /\ refers' = [refers EXCEPT ![q] = None] /\ UNCHANGED <<base, owner, pc, arg>>
  BY DEF DropHolder, IInv, RefTypes
<1>2. refers[q] \in Object /\ status[refers[q]] = "live" /\ q \in Slot
  BY <1>1, ConstantFacts DEF IInv, RefTypes, Graph, RefersLive
<1>3. count[refers[q]] = 1 => \A c \in Slot : refers[c] = refers[q] => c = q
  BY <1>2, OneReferrer
<1>4. refers'[q] = None /\ \A s \in Slot : s # q => refers'[s] = refers[s]
  BY <1>1, <1>2 DEF IInv, RefTypes
<1>5. Falls(t, q, refers[q], q)
  BY <1>1, <1>2, <1>3 DEF Falls
<1> HIDE DEF q
<1>6. \A s \in Active : Agent(s)' = Agent(s) /\ refers'[s] = refers[s] /\ s # q
  BY <1>1, <1>4, ConstantFacts DEF Active, Agent
<1>7. \A u \in Thread : pc[u] = "write" => arg[u] \in Active
  BY DEF Active, IInv, Threads, Argument
<1>8. OthersKept(q)
  BY <1>1, <1>4, <1>6, <1>7, ConstantFacts DEF OthersKept
<1> QED BY <1>5, <1>8 DEF Fall

-----------------------------------------------------------------------------
(* The invariant of the specification.                                     *)

LEMMA HBInit == Init => HBInv
<1> SUFFICES ASSUME Init PROVE HBInv
  OBVIOUS
<1>1. HBTypes /\ OwnKnown
  BY DEF Init, HBTypes, OwnKnown
<1>2. FreeKnown
  BY DEF Init, FreeKnown, AllOf
<1>3. WritesKnown
  BY DEF Init, WritesKnown, Active, Slot
<1>4. WriterKnows /\ DropsKnown /\ CallersEmpty /\ Covered
  BY DEF Init, WriterKnows, DropsKnown, CallersEmpty, Covered
<1> QED BY <1>1, <1>2, <1>3, <1>4 DEF HBInv

LEMMA HBInvStep ==
    ASSUME Cardinality(Slot) <= Ceiling, IInv, HBInv, [Next]_vars
    PROVE  HBInv'
<1>1. IInv' /\ HBTypes'
  BY IInvStep, HBStep DEF HBInv
<1>2. CASE UNCHANGED vars
  BY <1>2 DEF vars, refVars, hbVars, HBInv, HBTypes, OwnKnown, FreeKnown, AllOf, WritesKnown, Active, Agent,
         WriterKnows, DropsKnown, Frames, CallersEmpty, Covered, UpClosed, Source
<1>3. ASSUME NEW t \in Thread, Step(t) PROVE HBInv'
  <2>1. (\E done : Grow(t, done)) => HBInv'
    BY <1>1, GrowStep
  <2>2. (\E s, o, frame : Fall(t, s, o, frame)) => HBInv'
    BY <1>1, FallStep
  <2>3. ASSUME NEW h \in Handle, NEW o \in Object, NEW k \in Kind, Allocate(t, h, o, k) PROVE HBInv'
    BY <2>1, <2>3, AllocateGrows
  <2>4. ASSUME NEW h \in Handle, NEW g \in Handle, Clone(t, h, g) \/ MakeView(t, h, g) PROVE HBInv'
    BY <2>1, <2>4, ShareGrows DEF Clone, MakeView
  <2>5. ASSUME NEW h \in Handle, ShareOverflows(t, h) PROVE HBInv'
    BY <2>5, ShareNeverOverflows
  <2>6. ASSUME NEW h \in Handle, SpanRetain(t, h) PROVE HBInv'
    BY <2>1, <2>6, SpanRetainGrows
  <2>7. ASSUME NEW g \in Handle, NEW c \in Object, SpanMint(t, g, c) PROVE HBInv'
    BY <2>1, <2>7, SpanMintGrows
  <2>8. ASSUME NEW h \in Handle, Read(t, h) PROVE HBInv'
    BY <2>1, <2>8, ReadGrows
  <2>9. ASSUME NEW h \in Handle, TestUnique(t, h) PROVE HBInv'
    BY <1>1, <2>1, <2>9, TestUniqueGrows
  <2>10. ASSUME NEW h \in Handle, Drop(t, h) PROVE HBInv'
    BY <2>2, <2>10, DropFalls
  <2>11. ASSUME NEW h \in Handle, NEW u \in Thread, Send(t, h, u) PROVE HBInv'
    BY <2>1, <2>11, SendGrows
  <2>12. ASSUME NEW n \in Object, CopyOut(t, n) PROVE HBInv'
    BY <2>1, <2>12, CopyOutGrows
  <2>13. CASE Abort(t) \/ CopyFail(t) \/ \E h \in Handle : LeaveView(t, h)
    BY <2>1, <2>13, LocalGrows
  <2>14. CASE WriteInPlace(t)
    BY <2>1, <2>14, WriteGrows
  <2>15. CASE SpanFail(t) \/ Install(t) \/ DropHolder(t)
    BY <2>2, <2>15, SpanFailFalls, InstallFalls, DropHolderFalls
  <2>16. CASE Deallocate(t)
    BY <1>1, <2>16, DeallocateKeepsRaceFree
  <2> QED BY <1>3, <2>3, <2>4, <2>5, <2>6, <2>7, <2>8, <2>9, <2>10, <2>11, <2>12, <2>13, <2>14, <2>15, <2>16
          DEF Step
<1> QED BY <1>2, <1>3 DEF Next

LEMMA HBInvIsRaceFree ==
    ASSUME IInv, HBInv
    PROVE  RaceFree
<1>1. ASSUME NEW h \in Handle, owner[h] # None, NEW o \in {refers[h], base[refers[h]]}, NEW u \in Thread
      PROVE  <<o, u, "w">> \in known[owner[h]]
  <2>1. h \in Active /\ Agent(h) = owner[h] /\ refers[h] # None
    BY <1>1, ConstantFacts DEF Active, Agent, IInv, Threads, Ownership
  <2> QED BY <2>1 DEF HBInv, WritesKnown
<1>2. ASSUME NEW t \in Thread, top[t] # None PROVE AllOf(top[t]) \subseteq known[t]
  BY <1>2 DEF HBInv, DropsKnown, Frames
<1>3. \A t \in Thread : pc[t] = "write" => AllOf(refers[arg[t]]) \subseteq known[t]
  BY DEF HBInv, WriterKnows
<1> QED BY <1>1, <1>2, <1>3 DEF RaceFree, Empty

\* No data race: whoever can read a buffer's or an Adopted's memory, or the
\* bytes behind it, has every write to it behind him, and whoever writes in
\* place or frees has every access, for any number of threads, handles and
\* objects whose references together stay below the ceiling.
THEOREM NoDataRace ==
    ASSUME Cardinality(Slot) <= Ceiling
    PROVE  Spec => []RaceFree
<1>1. IInv /\ HBInv /\ [Next]_vars => HBInv'
  BY HBInvStep
<1>2. IInv /\ HBInv => RaceFree
  BY HBInvIsRaceFree
<1> QED BY <1>1, <1>2, HBInit, InvariantHolds, PTL DEF Spec

=============================================================================
