--------------------------- MODULE BarrierProofs ---------------------------
(***************************************************************************)
(* Proofs about Barrier: on any backend, with any number of bystanders and *)
(* whatever system calls are refused, owner and foreigner exclude one      *)
(* another though the owner's stores wait in a buffer.                     *)
(***************************************************************************)
EXTENDS Barrier, SequenceTheorems, WellFoundedInduction, TLAPS

-----------------------------------------------------------------------------
(* The inductive invariant.                                                *)

OwnStore == [var : {"inside"}, val : BOOLEAN] \cup [var : {"cell"}, val : Nat]
ForeignStore == [var : {"converting"}, val : BOOLEAN]

Paging == {"open", "dirty", "close"}
Inside == {"look", "write", "exit"}

\* Each thread stores to its own variables.
Stores ==
    /\ DOMAIN mem = Var /\ mem["inside"] \in BOOLEAN /\ mem["cell"] \in Nat
    /\ seen \in Nat
    /\ DOMAIN buffer = Party /\ buffer[Owner] \in Seq(OwnStore)
    /\ buffer[Foreigner] \in Seq(ForeignStore)
    /\ \A b \in Bystander : buffer[b] = <<>>

\* Each thread is at a label of its own code.
Labels ==
    /\ DOMAIN pc = Party
    /\ pc[Owner] \in {"idle", "wait"} \cup Inside
    /\ pc[Foreigner] \in {"idle", "heavy", "register", "retry", "await", "hold", "abandon"} \cup Paging
    /\ \A b \in Bystander : pc[b] \in {"idle", "heavy", "register", "retry", "done"} \cup Paging

\* Who works on the page has the lock, the page is mapped, and what DirtyPage
\* left is still there when ClosePage comes.
Pages ==
    /\ backend = "mprotect" => page # "unmapped"
    /\ \A c \in Caller :
        /\ pc[c] \in Paging => lock = {c} /\ backend = "mprotect"
        /\ pc[c] = "dirty" => page = "rw"
        /\ pc[c] = "close" => dirty

\* What the owner has last stored says whether it is inside.
Announced == Latest("inside") <=> pc[Owner] \in Inside

\* The foreigner's announcement is in memory from the start.
Converting == pc[Foreigner] # "idle" => buffer[Foreigner] = <<>> /\ mem["converting"]

StoresTo(v) == {i \in DOMAIN buffer[Owner] : buffer[Owner][i].var = v}

\* After the barrier an owner that is still inside is seen to be: it entered
\* before, so its announcement has reached memory, and takes it back after the
\* last of its stores to the cell.
Fenced ==
    pc[Foreigner] \in {"await", "hold"} =>
        /\ pc[Owner] \in {"write", "exit"} => mem["inside"] /\ StoresTo("inside") = {}
        /\ StoresTo("cell") # {} => mem["inside"]
        /\ \A i \in StoresTo("inside"), j \in StoresTo("cell") : j < i

\* The foreigner holds a cell to which no store is under way or to come.
Alone == pc[Foreigner] = "hold" => pc[Owner] \notin {"write", "exit"} /\ StoresTo("cell") = {}

Fences == Announced /\ Converting /\ Fenced /\ Alone

IInv == Stores /\ Labels /\ Pages /\ Fences

-----------------------------------------------------------------------------
(* The latest store.                                                       *)

\* A set of naturals has a least element.
LEMMA MinExists ==
    ASSUME NEW T \in SUBSET Nat, T # {}
    PROVE  \E x \in T : \A y \in T : x <= y
  <1>1. IsWellFoundedOn(OpToRel(<, Nat), Nat)
    BY NatLessThanWellFounded
  <1>2. PICK x \in T : \A y \in T : ~(<<y, x>> \in OpToRel(<, Nat))
    BY <1>1, WFMin
  <1>3. \A y \in T : ~(y < x)
    BY <1>2 DEF OpToRel
  <1>4. QED
    BY <1>3

\* The last of a set of positions.
LEMMA MaxExists ==
    ASSUME NEW n \in Nat, NEW T \in SUBSET (1 .. n), T # {}
    PROVE  Max(T) \in T /\ \A y \in T : y <= Max(T)
  <1> DEFINE D == {k \in Nat : \E y \in T : y + k = n}
  <1>1. D # {}
    <2>1. PICK y \in T : TRUE
      OBVIOUS
    <2>2. y \in 1 .. n /\ n - y \in Nat /\ y + (n - y) = n
      BY <2>1
    <2>3. QED
      BY <2>1, <2>2
  <1>2. PICK k \in D : \A j \in D : k <= j
    <2>1. D \in SUBSET Nat
      OBVIOUS
    <2> HIDE DEF D
    <2>2. QED
      BY <1>1, <2>1, MinExists
  <1>3. PICK x \in T : x + k = n
    BY <1>2
  <1>4. \A y \in T : x >= y
    <2>1. TAKE y \in T
    <2>2. y \in 1 .. n /\ x \in 1 .. n
      OBVIOUS
    <2>3. n - y \in D
      BY <2>2
    <2>4. QED
      BY <1>2, <1>3, <2>2, <2>3
  <1>5. \A y \in T : Max(T) >= y /\ Max(T) \in T
    BY <1>4, Zenon DEF Max
  <1>6. QED
    BY <1>4, <1>5

\* A thread that has nothing to drain has what memory has.
LEMMA DrainedNothing ==
    ASSUME NEW v, NEW old, NEW s, \A i \in DOMAIN s : s[i].var # v
    PROVE  Drained(s, v, old) = old
  BY DEF Drained

\* What has been stored last is what drains last.
LEMMA DrainedAppend ==
    ASSUME NEW S, NEW s \in Seq(S), NEW r \in S, NEW v, NEW old
    PROVE  Drained(Append(s, r), v, old) = IF r.var = v THEN r.val ELSE Drained(s, v, old)
  <1> DEFINE q == Append(s, r)
             at == {i \in DOMAIN s : s[i].var = v}
             after == {i \in DOMAIN q : q[i].var = v}
  <1>1. Len(s) \in Nat /\ DOMAIN s = 1 .. Len(s) /\ DOMAIN q = 1 .. Len(s) + 1
    OBVIOUS
  <1>2. q[Len(s) + 1] = r /\ \A i \in 1 .. Len(s) : q[i] = s[i]
    OBVIOUS
  <1>3. Drained(s, v, old) = IF at = {} THEN old ELSE s[Max(at)].val
    BY DEF Drained
  <1>4. Drained(q, v, old) = IF after = {} THEN old ELSE q[Max(after)].val
    BY DEF Drained
  <1>5. at \in SUBSET (1 .. Len(s)) /\ after \in SUBSET (1 .. Len(s) + 1)
    BY <1>1
  <1>6. r.var = v => Len(s) + 1 \in after
    BY <1>1, <1>2
  <1>7. r.var # v => after = at
    BY <1>1, <1>2
  <1> HIDE DEF q, at, after
  <1>8. CASE r.var = v
    <2>1. Len(s) + 1 \in Nat /\ Len(s) + 1 \in after
      BY <1>1, <1>6, <1>8
    <2>2. Max(after) \in after /\ \A i \in after : i <= Max(after)
      BY <1>5, <2>1, MaxExists
    <2>3. Max(after) \in 1 .. Len(s) + 1 /\ Len(s) + 1 <= Max(after)
      BY <1>5, <2>1, <2>2
    <2>4. Max(after) = Len(s) + 1
      BY <1>1, <2>3
    <2>5. QED
      BY <1>2, <1>4, <1>8, <2>1, <2>4 DEF q
  <1>9. CASE r.var # v
    <2>2. CASE at = {}
      BY <1>3, <1>4, <1>7, <1>9, <2>2 DEF q
    <2>3. CASE at # {}
      <3>1. Max(at) \in at
        BY <1>1, <1>5, <2>3, MaxExists
      <3>2. q[Max(at)] = s[Max(at)]
        BY <1>2, <1>5, <3>1
      <3>3. QED
        BY <1>3, <1>4, <1>7, <1>9, <2>3, <3>2 DEF q
    <2>4. QED
      BY <2>2, <2>3
  <1>10. QED
    BY <1>8, <1>9

\* A store that reaches memory leaves the latest value what it was.
LEMMA DrainedTail ==
    ASSUME NEW S, NEW s \in Seq(S), s # <<>>, NEW v, NEW old, NEW now,
           now = IF Head(s).var = v THEN Head(s).val ELSE old
    PROVE  Drained(Tail(s), v, now) = Drained(s, v, old)
  <1> DEFINE q == Tail(s)
             at == {i \in DOMAIN s : s[i].var = v}
             after == {i \in DOMAIN q : q[i].var = v}
  <1>1. Len(s) \in Nat /\ Len(s) > 0 /\ DOMAIN s = 1 .. Len(s) /\ DOMAIN q = 1 .. Len(s) - 1
    OBVIOUS
  <1>2. Head(s) = s[1] /\ \A i \in 1 .. Len(s) - 1 : q[i] = s[i + 1]
    OBVIOUS
  <1>3. Drained(s, v, old) = IF at = {} THEN old ELSE s[Max(at)].val
    BY DEF Drained
  <1>4. Drained(q, v, now) = IF after = {} THEN now ELSE q[Max(after)].val
    BY DEF Drained
  <1>5. \A i \in after : i + 1 \in at
    BY <1>1, <1>2
  <1>6. \A i \in at : i = 1 \/ i - 1 \in after
    BY <1>1, <1>2
  <1>a. at \in SUBSET (1 .. Len(s)) /\ after \in SUBSET (1 .. Len(s) - 1)
    BY <1>1
  <1>b. 1 \in at <=> Head(s).var = v
    BY <1>1, <1>2
  <1> HIDE DEF q, at, after
  <1>7. CASE after = {}
    <2>1. at \subseteq {1}
      BY <1>6, <1>7
    <2>2. CASE at = {}
      BY <1>3, <1>4, <1>7, <1>b, <2>2 DEF q
    <2>3. CASE at # {}
      <3>1. Max(at) \in at
        BY <1>1, <1>a, <2>3, MaxExists
      <3>2. Max(at) = 1 /\ 1 \in at
        BY <2>1, <3>1
      <3>3. QED
        BY <1>2, <1>3, <1>4, <1>7, <1>b, <2>3, <3>2 DEF q
    <2>4. QED
      BY <2>2, <2>3
  <1>8. CASE after # {}
    <2>1. Max(after) \in after /\ \A i \in after : i <= Max(after)
      <3>1. Len(s) - 1 \in Nat
        BY <1>1
      <3>2. QED
        BY <1>8, <1>a, <3>1, MaxExists
    <2>2. at # {}
      BY <1>5, <1>8
    <2>3. Max(at) \in at /\ \A i \in at : i <= Max(at)
      BY <1>1, <1>a, <2>2, MaxExists
    <2>4. Max(at) = Max(after) + 1
      <3>1. Max(after) + 1 \in at /\ Max(after) \in 1 .. Len(s) - 1
        BY <1>1, <1>5, <1>a, <2>1
      <3>2. Max(at) \in 1 .. Len(s) /\ Max(after) + 1 <= Max(at)
        BY <1>a, <2>3, <3>1
      <3>3. Max(at) - 1 \in after
        BY <1>1, <1>6, <2>3, <3>1, <3>2
      <3>4. QED
        BY <1>1, <1>a, <2>1, <2>3, <3>1, <3>2, <3>3
    <2>5. q[Max(after)] = s[Max(at)]
      BY <1>1, <1>2, <1>a, <2>1, <2>4
    <2>6. QED
      BY <1>3, <1>4, <1>8, <2>2, <2>5 DEF q
  <1>9. QED
    BY <1>7, <1>8

-----------------------------------------------------------------------------
(* Steps.                                                                  *)

\* Who is who, and who writes what.
LEMMA Who ==
    /\ Owner \notin Caller /\ Foreigner \in Caller /\ Owner # Foreigner
    /\ Owner \in Party /\ Caller \subseteq Party
    /\ Bystander = Caller \ {Foreigner} /\ Owner \notin Bystander
    /\ Writer("inside") = Owner /\ Writer("cell") = Owner /\ Writer("converting") = Foreigner
  BY BarrierAssumption DEF Caller, Party, Writer

\* The buffer of the owner holds stores to its own two variables.
LEMMA OwnBuffer ==
    ASSUME NEW s \in Seq(OwnStore), NEW i \in DOMAIN s
    PROVE  /\ s[i].var \in {"inside", "cell"}
           /\ s[i].var = "inside" => s[i].val \in BOOLEAN
           /\ s[i].var = "cell" => s[i].val \in Nat
  <1>1. s[i] \in OwnStore
    OBVIOUS
  <1>2. CASE s[i] \in [var : {"inside"}, val : BOOLEAN]
    BY <1>1, <1>2
  <1>3. CASE s[i] \in [var : {"cell"}, val : Nat]
    BY <1>1, <1>3
  <1> QED
    BY <1>1, <1>2, <1>3 DEF OwnStore

\* The latest values are of their types.
LEMMA LatestTypes ==
    ASSUME Stores
    PROVE  Latest("inside") \in BOOLEAN /\ Latest("cell") \in Nat
  <1> DEFINE s == buffer[Owner]
             at(v) == {i \in DOMAIN s : s[i].var = v}
  <1>1. s \in Seq(OwnStore) /\ Len(s) \in Nat /\ DOMAIN s = 1 .. Len(s)
    BY DEF Stores
  <1>2. ASSUME NEW v, at(v) # {} PROVE Max(at(v)) \in at(v)
    <2> DEFINE T == at(v)
    <2>1. T \in SUBSET (1 .. Len(s)) /\ T # {}
      BY <1>1, <1>2
    <2> HIDE DEF T, s
    <2>2. Max(T) \in T
      BY <1>1, <2>1, MaxExists
    <2>3. QED
      BY <2>2 DEF T
  <1>3. /\ Latest("inside") = IF at("inside") = {} THEN mem["inside"] ELSE s[Max(at("inside"))].val
        /\ Latest("cell") = IF at("cell") = {} THEN mem["cell"] ELSE s[Max(at("cell"))].val
    BY Who DEF Latest, Drained
  <1>4. ASSUME NEW i \in DOMAIN s
        PROVE  (s[i].var = "inside" => s[i].val \in BOOLEAN) /\ (s[i].var = "cell" => s[i].val \in Nat)
    BY <1>1, OwnBuffer
  <1>5. at("inside") # {} => s[Max(at("inside"))].val \in BOOLEAN
    BY <1>2, <1>4
  <1>6. at("cell") # {} => s[Max(at("cell"))].val \in Nat
    BY <1>2, <1>4
  <1>7. QED
    BY <1>3, <1>5, <1>6 DEF Stores

\* A full fence: buffers are empty and memory has what they held.
LEMMA Fence ==
    ASSUME Stores, Converting, FenceAll, seen' = seen
    PROVE  /\ Stores' /\ \A t \in Party : buffer'[t] = <<>>
           /\ mem'["inside"] = Latest("inside") /\ Latest("inside")' = Latest("inside")
           /\ pc[Foreigner] # "idle" => mem'["converting"] = mem["converting"]
  <1>1. /\ mem' = [v \in Var |-> Latest(v)] /\ buffer' = [t \in Party |-> <<>>]
    BY DEF FenceAll
  <1>2. \A t \in Party : buffer'[t] = <<>>
    BY <1>1
  <1>3. mem'["inside"] = Latest("inside") /\ mem'["cell"] = Latest("cell") /\ mem'["converting"] = Latest("converting")
    BY <1>1 DEF Var
  <1>4. Latest("inside") \in BOOLEAN /\ Latest("cell") \in Nat
    BY LatestTypes
  <1>5. Stores'
    <2>1. DOMAIN mem' = Var /\ mem'["inside"] \in BOOLEAN /\ mem'["cell"] \in Nat
      BY <1>1, <1>3, <1>4
    <2>2. DOMAIN buffer' = Party
      BY <1>1
    <2>3. buffer'[Owner] = <<>> /\ buffer'[Foreigner] = <<>> /\ \A b \in Bystander : buffer'[b] = <<>>
      BY <1>2, Who
    <2>4. <<>> \in Seq(OwnStore) /\ <<>> \in Seq(ForeignStore)
      OBVIOUS
    <2>5. QED
      BY <2>1, <2>2, <2>3, <2>4 DEF Stores
  <1>6. Latest("inside")' = mem'["inside"]
    <2>1. Drained(<<>>, "inside", mem'["inside"]) = mem'["inside"]
      BY DrainedNothing
    <2>2. QED
      BY <1>2, <2>1, Who DEF Latest
  <1>7. pc[Foreigner] # "idle" => Latest("converting") = mem["converting"]
    <2>1. Drained(<<>>, "converting", mem["converting"]) = mem["converting"]
      BY DrainedNothing
    <2>2. QED
      BY <2>1, Who DEF Latest, Converting
  <1>8. QED
    BY <1>2, <1>3, <1>5, <1>6, <1>7

\* Memory and buffers hold what they held.
Kept ==
    /\ DOMAIN mem' = Var /\ \A v \in Var : mem'[v] = mem[v]
    /\ DOMAIN buffer' = Party /\ \A t \in Party : buffer'[t] = buffer[t]

\* A step of `heavy` that leaves stores where they are, or fences.
LEMMA CallerStep ==
    ASSUME IInv, NEW c \in Caller, NEW l, Goto(c, l), seen' = seen,
           FenceAll \/ Kept \/ (mem' = mem /\ buffer' = buffer), FenceAll \/ l # "await" \/ c # Foreigner,
           c = Foreigner =>
               pc[c] # "idle" /\ l \in {"heavy", "register", "retry", "await", "abandon"} \cup Paging,
           c # Foreigner => l \in {"idle", "heavy", "register", "retry", "done"} \cup Paging
    PROVE  Stores' /\ Labels' /\ Fences'
  <1> USE DEF IInv, Fences
  <1>1. /\ DOMAIN pc' = Party /\ pc'[c] = l /\ \A t \in Party : t # c => pc'[t] = pc[t]
        /\ pc'[Owner] = pc[Owner]
    BY Who DEF Goto, Labels
  <1>2. Labels'
    BY <1>1, Who DEF Labels
  <1>3. pc'[Foreigner] # "idle" => pc[Foreigner] # "idle"
    BY <1>1, Who
  <1>4. pc'[Foreigner] = "hold" => pc[Foreigner] = "hold"
    BY <1>1, Who DEF Paging
  <1>5. CASE FenceAll
    <2>1. Stores' /\ Announced' /\ Converting'
      BY <1>1, <1>3, <1>5, Fence, Who DEF Announced, Converting
    <2>2. \A v : StoresTo(v)' = {}
      BY <1>5, Fence, Who DEF StoresTo
    <2>3. Fenced' /\ Alone'
      BY <1>1, <1>4, <1>5, <2>2, Fence DEF Fenced, Alone, Announced, Inside
    <2>4. QED
      BY <1>2, <2>1, <2>3
  <1>6. CASE ~FenceAll
    <2>1. Kept
      BY <1>6 DEF Kept, Stores
    <2>2. \A v \in Var : mem'[v] = mem[v] /\ Latest(v)' = Latest(v)
      BY <2>1, Who DEF Kept, Latest, Writer
    <2>3. \A v : StoresTo(v)' = StoresTo(v)
      BY <2>1, Who DEF Kept, StoresTo
    <2>4. Stores'
      BY <2>1, <2>2, Who DEF Kept, Stores, Var
    <2>5. pc'[Foreigner] \in {"await", "hold"} => pc[Foreigner] = pc'[Foreigner]
      BY <1>1, <1>6, Who DEF Paging
    <2>6. Announced' /\ Converting'
      BY <1>1, <1>3, <2>1, <2>2, Who DEF Announced, Converting, Kept, Var
    <2>7. Fenced' /\ Alone'
      BY <1>1, <2>2, <2>3, <2>5 DEF Fenced, Alone, Var
    <2>8. QED
      BY <1>2, <2>4, <2>6, <2>7
  <1>7. QED
    BY <1>5, <1>6

\* The owner stores x to v.
LEMMA OwnStoreStep ==
    ASSUME IInv, NEW v \in {"inside", "cell"}, NEW x, v = "inside" => x \in BOOLEAN, v = "cell" => x \in Nat,
           Store(Owner, v, x), seen' = seen
    PROVE  /\ Stores' /\ mem' = mem /\ buffer'[Foreigner] = buffer[Foreigner]
           /\ Latest("inside")' = IF v = "inside" THEN x ELSE Latest("inside")
           /\ Len(buffer[Owner]) \in Nat /\ StoresTo(v)' = StoresTo(v) \cup {Len(buffer[Owner]) + 1}
           /\ \A u \in {"inside", "cell"} : u # v => StoresTo(u)' = StoresTo(u)
           /\ \A u : StoresTo(u) \subseteq 1 .. Len(buffer[Owner])
  <1> DEFINE r == [var |-> v, val |-> x]
             s == buffer[Owner]
  <1>1. r \in OwnStore /\ r.var = v /\ r.val = x
    BY DEF OwnStore
  <1>2. s \in Seq(OwnStore) /\ Len(s) \in Nat /\ DOMAIN s = 1 .. Len(s)
    BY DEF IInv, Stores
  <1>3. /\ mem' = mem /\ buffer'[Owner] = Append(s, r) /\ DOMAIN buffer' = Party
        /\ \A t \in Party : t # Owner => buffer'[t] = buffer[t]
    BY Who DEF Store, IInv, Stores
  <1>4. Append(s, r) \in Seq(OwnStore)
    BY <1>1, <1>2
  <1>5. Stores'
    BY <1>3, <1>4, Who DEF IInv, Stores
  <1>6. Latest("inside")' = IF v = "inside" THEN x ELSE Latest("inside")
    <2>1. Drained(Append(s, r), "inside", mem["inside"])
          = IF r.var = "inside" THEN r.val ELSE Drained(s, "inside", mem["inside"])
      BY <1>1, <1>2, DrainedAppend
    <2>2. QED
      BY <1>1, <1>3, <2>1, Who DEF Latest
  <1>7. /\ DOMAIN buffer'[Owner] = 1 .. Len(s) + 1 /\ buffer'[Owner][Len(s) + 1] = r
        /\ \A i \in 1 .. Len(s) : buffer'[Owner][i] = s[i]
    BY <1>2, <1>3
  <1>8. \A u : StoresTo(u) = {i \in 1 .. Len(s) : s[i].var = u}
    BY <1>2 DEF StoresTo
  <1>9. \A u : StoresTo(u)' = {i \in 1 .. Len(s) + 1 : buffer'[Owner][i].var = u}
    BY <1>7 DEF StoresTo
  <1> HIDE DEF r, s
  <1>10. ASSUME NEW u
         PROVE  StoresTo(u)' = StoresTo(u) \cup IF u = v THEN {Len(s) + 1} ELSE {}
    <2>1. StoresTo(u)' = {i \in 1 .. Len(s) + 1 : buffer'[Owner][i].var = u}
      BY <1>9
    <2>2. StoresTo(u) = {i \in 1 .. Len(s) : s[i].var = u}
      BY <1>8
    <2>3. 1 .. Len(s) + 1 = (1 .. Len(s)) \cup {Len(s) + 1}
      BY <1>2
    <2>4. QED
      BY <1>1, <1>7, <2>1, <2>2, <2>3
  <1>11. QED
    BY <1>2, <1>3, <1>5, <1>6, <1>8, <1>10, Who DEF s

\* A store of the owner's reaches memory.
LEMMA OwnFlushStep ==
    ASSUME IInv, Flush(Owner)
    PROVE  Stores' /\ Fences'
  <1> DEFINE s == buffer[Owner]
             r == Head(s)
  <1>1. s \in Seq(OwnStore) /\ s # <<>> /\ Len(s) \in Nat \ {0} /\ DOMAIN s = 1 .. Len(s)
    BY DEF IInv, Stores, Flush
  <1>2. r = s[1] /\ 1 \in DOMAIN s /\ r.var \in {"inside", "cell"}
        /\ (r.var = "inside" => r.val \in BOOLEAN) /\ (r.var = "cell" => r.val \in Nat)
    BY <1>1, OwnBuffer
  <1>3. /\ mem' = [mem EXCEPT ![r.var] = r.val] /\ buffer'[Owner] = Tail(s) /\ DOMAIN buffer' = Party
        /\ \A t \in Party : t # Owner => buffer'[t] = buffer[t]
        /\ pc' = pc /\ seen' = seen
    BY Who DEF Flush, IInv, Stores
  <1>4. /\ Tail(s) \in Seq(OwnStore) /\ DOMAIN Tail(s) = 1 .. Len(s) - 1
        /\ \A i \in 1 .. Len(s) - 1 : Tail(s)[i] = s[i + 1]
    BY <1>1
  <1>5. DOMAIN mem' = Var /\ \A v \in Var : mem'[v] = IF r.var = v THEN r.val ELSE mem[v]
    BY <1>3 DEF IInv, Stores
  <1>6. Stores'
    BY <1>2, <1>3, <1>4, <1>5, Who DEF IInv, Stores, Var
  <1>7. Latest("inside")' = Latest("inside")
    <2>1. mem'["inside"] = IF Head(s).var = "inside" THEN Head(s).val ELSE mem["inside"]
      BY <1>5 DEF Var
    <2>2. Drained(Tail(s), "inside", mem'["inside"]) = Drained(s, "inside", mem["inside"])
      BY <1>1, <2>1, DrainedTail
    <2>3. QED
      BY <1>3, <2>2, Who DEF Latest
  <1>8. \A u : \A i \in StoresTo(u)' : i \in 1 .. Len(s) - 1 /\ i + 1 \in StoresTo(u)
    BY <1>1, <1>3, <1>4 DEF StoresTo
  <1>9. r.var \in {"inside", "cell"} /\ 1 \in StoresTo(r.var) /\ \A u : StoresTo(u) \subseteq 1 .. Len(s)
    BY <1>1, <1>2 DEF StoresTo
  <1> HIDE DEF r, s
  <1>10. Announced' /\ Converting'
    BY <1>2, <1>3, <1>5, <1>7, Who DEF IInv, Fences, Announced, Converting, Var
  <1>11. Fenced'
    <2>1. SUFFICES ASSUME pc'[Foreigner] \in {"await", "hold"}
                   PROVE  /\ pc'[Owner] \in {"write", "exit"} => mem'["inside"] /\ StoresTo("inside")' = {}
                          /\ StoresTo("cell")' # {} => mem'["inside"]
                          /\ \A i \in StoresTo("inside")', j \in StoresTo("cell")' : j < i
      BY DEF Fenced
    <2>2. /\ pc[Owner] \in {"write", "exit"} => mem["inside"] /\ StoresTo("inside") = {}
          /\ StoresTo("cell") # {} => mem["inside"]
          /\ \A i \in StoresTo("inside"), j \in StoresTo("cell") : j < i
      BY <1>3, <2>1 DEF IInv, Fences, Fenced
    <2>3. r.var = "inside" => StoresTo("cell") = {}
      <3>1. ASSUME NEW j \in StoresTo("cell"), r.var = "inside" PROVE FALSE
        <4>1. 1 \in StoresTo("inside") /\ j \in 1 .. Len(s)
          BY <1>9, <3>1
        <4>2. j < 1
          BY <2>2, <3>1, <4>1
        <4>3. QED
          BY <1>1, <4>1, <4>2
      <3>2. QED
        BY <3>1
    <2>4. r.var = "cell" => mem'["inside"] = mem["inside"]
      BY <1>5 DEF Var
    <2>5. pc'[Owner] \in {"write", "exit"} => mem'["inside"] /\ StoresTo("inside")' = {}
      BY <1>3, <1>8, <1>9, <2>2, <2>4
    <2>6. StoresTo("cell")' # {} => mem'["inside"]
      BY <1>8, <1>9, <2>2, <2>3, <2>4
    <2>7. ASSUME NEW i \in StoresTo("inside")', NEW j \in StoresTo("cell")' PROVE j < i
      <3>1. i + 1 \in StoresTo("inside") /\ j + 1 \in StoresTo("cell") /\ i \in 1 .. Len(s) - 1 /\ j \in 1 .. Len(s) - 1
        BY <1>8, <2>7
      <3>2. j + 1 < i + 1
        BY <2>2, <3>1
      <3>3. QED
        BY <1>1, <3>1, <3>2
    <2>8. QED
      BY <2>5, <2>6, <2>7
  <1>12. Alone'
    BY <1>3, <1>8 DEF IInv, Fences, Alone
  <1>13. QED
    BY <1>6, <1>10, <1>11, <1>12 DEF Fences

-----------------------------------------------------------------------------
(* Each action keeps the invariant.                                        *)

\* Nobody works on the page at the beginning.
LEMMA Begins == BarrierInit => IInv
  <1> SUFFICES ASSUME BarrierInit PROVE IInv
    OBVIOUS
  <1>1. /\ mem = [v \in Var |-> IF v = "cell" THEN 0 ELSE FALSE]
        /\ buffer = [t \in Party |-> <<>>] /\ pc = [t \in Party |-> "idle"] /\ seen = 0
        /\ backend = "unknown"
    BY DEF BarrierInit
  <1>2. \A t \in Party : buffer[t] = <<>> /\ pc[t] = "idle"
    BY <1>1
  <1>3. DOMAIN mem = Var /\ mem["inside"] = FALSE /\ mem["cell"] = 0
    BY <1>1 DEF Var
  <1>4. Stores
    <2>1. <<>> \in Seq(OwnStore) /\ <<>> \in Seq(ForeignStore)
      OBVIOUS
    <2>2. DOMAIN buffer = Party /\ 0 \in Nat
      BY <1>1
    <2>3. QED
      BY <1>1, <1>2, <1>3, <2>1, <2>2, Who DEF Stores
  <1>5. Labels
    BY <1>1, <1>2, Who DEF Labels
  <1>6. Pages
    BY <1>1, <1>2, Who DEF Pages, Paging
  <1>7. Announced
    <2>1. Drained(<<>>, "inside", mem["inside"]) = mem["inside"]
      BY DrainedNothing
    <2>2. QED
      BY <1>2, <1>3, <2>1, Who DEF Announced, Latest, Inside
  <1>8. Converting /\ Fenced /\ Alone
    BY <1>2, Who DEF Converting, Fenced, Alone
  <1>9. QED
    BY <1>4, <1>5, <1>6, <1>7, <1>8 DEF IInv, Fences

\* A backend is found before anybody uses one.
LEMMA DetectStep == ASSUME IInv, Detect PROVE IInv'
  <1> USE DEF IInv
  <1>1. mem' = mem /\ buffer' = buffer /\ pc' = pc /\ seen' = seen /\ dirty' = dirty /\ lock' = lock
        /\ backend = "unknown"
    BY DEF Detect
  <1>2. Stores' /\ Labels'
    BY <1>1 DEF Stores, Labels
  <1>3. Fences'
    BY <1>1 DEF Fences, Announced, Converting, Fenced, Alone, Latest, StoresTo
  <1>4. \A c \in Caller : pc[c] \notin Paging
    BY <1>1 DEF Pages
  <1>5. backend' = "mprotect" => page' # "unmapped"
    BY <1>1 DEF Detect, MapPage
  <1>6. Pages'
    BY <1>1, <1>4, <1>5 DEF Pages, Paging
  <1>7. QED
    BY <1>2, <1>3, <1>6

\* The owner's steps, one by one.
LEMMA OwnStep == ASSUME IInv, Own PROVE IInv'
  <1> USE DEF IInv, Fences
  <1>1. ASSUME NEW l \in {"idle", "wait"} \cup Inside, Goto(Owner, l), kernel' = kernel
        PROVE  Labels' /\ Pages' /\ pc'[Owner] = l /\ pc'[Foreigner] = pc[Foreigner]
    <2>1. pc'[Owner] = l /\ DOMAIN pc' = Party /\ \A c \in Caller : pc'[c] = pc[c]
      BY <1>1, Who DEF Goto, Labels
    <2>2. backend' = backend /\ page' = page /\ dirty' = dirty /\ lock' = lock
      BY <1>1 DEF kernel, page_vars
    <2>3. QED
      BY <2>1, <2>2, Who DEF Labels, Pages
  <1>2. CASE Announce
    <2>1. Store(Owner, "inside", TRUE) /\ Goto(Owner, "look") /\ kernel' = kernel /\ seen' = seen /\ pc[Owner] = "idle"
      BY <1>2 DEF Announce, OwnerAt
    <2>2. /\ Stores' /\ mem' = mem /\ buffer'[Foreigner] = buffer[Foreigner]
          /\ Latest("inside")' = TRUE
          /\ Len(buffer[Owner]) \in Nat /\ StoresTo("inside")' = StoresTo("inside") \cup {Len(buffer[Owner]) + 1}
          /\ StoresTo("cell")' = StoresTo("cell")
          /\ StoresTo("cell") \subseteq 1 .. Len(buffer[Owner])
      BY <2>1, OwnStoreStep
    <2>3. Labels' /\ Pages' /\ pc'[Owner] = "look" /\ pc'[Foreigner] = pc[Foreigner]
      BY <1>1, <2>1 DEF Inside
    <2>4. Announced' /\ Converting' /\ Alone'
      BY <2>2, <2>3 DEF Announced, Converting, Alone, Inside
    <2>5. Fenced'
      BY <2>2, <2>3 DEF Fenced
    <2>6. QED
      BY <2>2, <2>3, <2>4, <2>5
  <1>3. CASE Withdraw
    <2>1. Store(Owner, "inside", FALSE) /\ Goto(Owner, "wait") /\ kernel' = kernel /\ seen' = seen
      BY <1>3 DEF Withdraw
    <2>2. /\ Stores' /\ mem' = mem /\ buffer'[Foreigner] = buffer[Foreigner]
          /\ Latest("inside")' = FALSE
          /\ Len(buffer[Owner]) \in Nat /\ StoresTo("inside")' = StoresTo("inside") \cup {Len(buffer[Owner]) + 1}
          /\ StoresTo("cell")' = StoresTo("cell")
          /\ StoresTo("cell") \subseteq 1 .. Len(buffer[Owner])
      BY <2>1, OwnStoreStep
    <2>3. Labels' /\ Pages' /\ pc'[Owner] = "wait" /\ pc'[Foreigner] = pc[Foreigner]
      BY <1>1, <2>1
    <2>4. Announced' /\ Converting' /\ Alone'
      BY <2>2, <2>3 DEF Announced, Converting, Alone, Inside
    <2>5. Fenced'
      BY <2>2, <2>3 DEF Fenced
    <2>6. QED
      BY <2>2, <2>3, <2>4, <2>5
  <1>4. CASE Resume
    <2>1. Goto(Owner, "idle") /\ kernel' = kernel /\ seen' = seen /\ mem' = mem /\ buffer' = buffer /\ pc[Owner] = "wait"
      BY <1>4 DEF Resume, OwnerAt
    <2>2. Labels' /\ Pages' /\ pc'[Owner] = "idle" /\ pc'[Foreigner] = pc[Foreigner]
      BY <1>1, <2>1
    <2>3. Stores' /\ Latest("inside")' = Latest("inside") /\ \A v : StoresTo(v)' = StoresTo(v)
      BY <2>1 DEF Stores, Latest, StoresTo
    <2>4. QED
      BY <2>1, <2>2, <2>3 DEF Announced, Converting, Fenced, Alone, Inside
  <1>5. CASE Enter
    <2>1. Goto(Owner, "write") /\ kernel' = kernel /\ mem' = mem /\ buffer' = buffer /\ pc[Owner] = "look"
          /\ seen' = Latest("cell") /\ ~mem["converting"]
      BY <1>5, Who DEF Enter, OwnerAt, Load
    <2>2. Labels' /\ Pages' /\ pc'[Owner] = "write" /\ pc'[Foreigner] = pc[Foreigner]
      BY <1>1, <2>1 DEF Inside
    <2>3. Stores' /\ Latest("inside")' = Latest("inside") /\ \A v : StoresTo(v)' = StoresTo(v)
      BY <2>1, LatestTypes DEF Stores, Latest, StoresTo
    <2>4. pc[Foreigner] = "idle"
      BY <2>1 DEF Converting
    <2>5. QED
      BY <2>1, <2>2, <2>3, <2>4 DEF Announced, Converting, Fenced, Alone, Inside
  <1>6. CASE Write
    <2>1. Store(Owner, "cell", seen + 1) /\ Goto(Owner, "exit") /\ kernel' = kernel /\ seen' = seen /\ pc[Owner] = "write"
          /\ seen + 1 \in Nat
      BY <1>6 DEF Write, OwnerAt, Stores
    <2>2. /\ Stores' /\ mem' = mem /\ buffer'[Foreigner] = buffer[Foreigner]
          /\ Latest("inside")' = Latest("inside")
          /\ Len(buffer[Owner]) \in Nat /\ StoresTo("cell")' = StoresTo("cell") \cup {Len(buffer[Owner]) + 1}
          /\ StoresTo("inside")' = StoresTo("inside")
      BY <2>1, OwnStoreStep
    <2>3. Labels' /\ Pages' /\ pc'[Owner] = "exit" /\ pc'[Foreigner] = pc[Foreigner]
      BY <1>1, <2>1 DEF Inside
    <2>4. Announced' /\ Converting' /\ Alone'
      BY <2>1, <2>2, <2>3 DEF Announced, Converting, Alone, Inside
    <2>5. Fenced'
      BY <2>1, <2>2, <2>3 DEF Fenced
    <2>6. QED
      BY <2>2, <2>3, <2>4, <2>5
  <1>7. CASE Exit
    <2>1. Store(Owner, "inside", FALSE) /\ Goto(Owner, "idle") /\ kernel' = kernel /\ seen' = seen
      BY <1>7 DEF Exit
    <2>2. /\ Stores' /\ mem' = mem /\ buffer'[Foreigner] = buffer[Foreigner]
          /\ Latest("inside")' = FALSE
          /\ Len(buffer[Owner]) \in Nat /\ StoresTo("inside")' = StoresTo("inside") \cup {Len(buffer[Owner]) + 1}
          /\ StoresTo("cell")' = StoresTo("cell")
          /\ StoresTo("cell") \subseteq 1 .. Len(buffer[Owner])
      BY <2>1, OwnStoreStep
    <2>3. Labels' /\ Pages' /\ pc'[Owner] = "idle" /\ pc'[Foreigner] = pc[Foreigner]
      BY <1>1, <2>1
    <2>4. Announced' /\ Converting' /\ Alone'
      BY <2>2, <2>3 DEF Announced, Converting, Alone, Inside
    <2>5. Fenced'
      BY <2>2, <2>3 DEF Fenced
    <2>6. QED
      BY <2>2, <2>3, <2>4, <2>5
  <1>8. QED
    BY <1>2, <1>3, <1>4, <1>5, <1>6, <1>7 DEF Own

\* A caller's steps, one by one: what each changes of the page, and then what
\* CallerStep says of the stores.
LEMMA HeavyStep == ASSUME IInv, NEW c \in Caller, Heavy(c) PROVE IInv'
  <1> USE DEF IInv
  <1>1. /\ c = Foreigner \/ c \in Bystander
        /\ Returned(c, FALSE) = (IF c \in Bystander THEN "done" ELSE "abandon")
        /\ Returned(c, TRUE) = (IF c \in Bystander THEN "done" ELSE "await")
        /\ c = Foreigner <=> c \notin Bystander
    BY Who DEF Returned
  <1>2. DOMAIN pc = Party /\ c \in Party
    BY Who DEF Labels
  <1>3. ASSUME NEW l, Goto(c, l), l \notin Paging, backend' = backend, page' = page, dirty' = dirty, lock' = lock
        PROVE  Pages'
    <2>1. \A d \in Caller : pc'[d] \in Paging => d # c /\ pc'[d] = pc[d]
      BY <1>2, <1>3, Who DEF Goto
    <2>2. QED
      BY <1>3, <2>1 DEF Pages, Paging
  <1>4. CASE Unavailable(c)
    <2>1. /\ Goto(c, Returned(c, FALSE)) /\ seen' = seen /\ mem' = mem /\ buffer' = buffer /\ pc[c] = "heavy"
          /\ backend' = backend /\ page' = page /\ dirty' = dirty /\ lock' = lock
      BY <1>4 DEF Unavailable, Call, kernel, page_vars
    <2>2. Pages'
      BY <1>1, <1>3, <2>1 DEF Paging
    <2>3. QED
      BY <1>1, <2>1, <2>2, CallerStep
  <1>5. CASE Refused(c)
    <2>1. /\ Goto(c, Returned(c, FALSE)) /\ seen' = seen /\ mem' = mem /\ buffer' = buffer /\ pc[c] # "idle"
          /\ backend' = backend /\ page' = page /\ dirty' = dirty /\ lock' = IF lock = {c} THEN {} ELSE lock
      BY <1>5 DEF Refused, Call, Nobody
    <2>2. Pages'
      <3>1. \A d \in Caller : pc'[d] \in Paging => d # c /\ pc'[d] = pc[d]
        BY <1>1, <1>2, <2>1, Who DEF Goto, Paging
      <3>2. \A d \in Caller : pc'[d] \in Paging => lock = {d} /\ lock # {c}
        BY <3>1 DEF Pages
      <3>3. QED
        BY <2>1, <3>1, <3>2 DEF Pages, Paging
    <2>3. QED
      BY <1>1, <2>1, <2>2, CallerStep
  <1>6. CASE Expedited(c)
    <2>1. /\ Goto(c, Returned(c, TRUE)) /\ seen' = seen /\ FenceAll /\ pc[c] # "idle"
          /\ backend' = backend /\ page' = page /\ dirty' = dirty /\ lock' = lock
      BY <1>6 DEF Expedited, Call, kernel, page_vars
    <2>2. Pages'
      BY <1>1, <1>3, <2>1 DEF Paging
    <2>3. QED
      BY <1>1, <2>1, <2>2, CallerStep
  <1>7. CASE NotRegistered(c)
    <2>1. /\ Goto(c, "register") /\ seen' = seen /\ mem' = mem /\ buffer' = buffer /\ pc[c] = "heavy"
          /\ backend' = backend /\ page' = page /\ dirty' = dirty /\ lock' = lock
      BY <1>7 DEF NotRegistered, Call, kernel, page_vars
    <2>2. Pages'
      BY <1>3, <2>1 DEF Paging
    <2>3. QED
      BY <2>1, <2>2, CallerStep
  <1>8. CASE Register(c)
    <2>1. /\ Goto(c, "retry") /\ seen' = seen /\ mem' = mem /\ buffer' = buffer /\ pc[c] = "register"
          /\ backend' = backend /\ page' = page /\ dirty' = dirty /\ lock' = lock
      BY <1>8 DEF Register, page_vars
    <2>2. Pages'
      BY <1>3, <2>1 DEF Paging
    <2>3. QED
      BY <2>1, <2>2, CallerStep
  <1>9. CASE LockPage(c)
    <2>1. /\ Goto(c, "open") /\ seen' = seen /\ mem' = mem /\ buffer' = buffer /\ pc[c] = "heavy"
          /\ backend = "mprotect" /\ backend' = backend /\ page' = page /\ dirty' = dirty /\ lock = {} /\ lock' = {c}
      BY <1>9 DEF LockPage, Call, Nobody
    <2>2. Pages'
      <3>1. \A d \in Caller : pc[d] \notin Paging
        BY <2>1 DEF Pages
      <3>2. pc'[c] = "open" /\ \A d \in Caller : d # c => pc'[d] = pc[d]
        BY <1>2, <2>1, Who DEF Goto
      <3>3. QED
        BY <2>1, <3>1, <3>2 DEF Pages, Paging
    <2>3. QED
      BY <2>1, <2>2, CallerStep DEF Paging
  <1>10. ASSUME pc[c] \in Paging
         PROVE  lock = {c} /\ \A d \in Caller : d # c => pc[d] \notin Paging
    BY <1>10 DEF Pages
  <1>11. CASE OpenPage(c)
    <2>1. /\ Goto(c, "dirty") /\ seen' = seen /\ mem' = mem /\ buffer' = buffer /\ pc[c] = "open"
          /\ backend' = backend /\ page' = "rw" /\ dirty' = dirty /\ lock' = lock
      BY <1>11 DEF OpenPage
    <2>2. Pages'
      <3>1. pc'[c] = "dirty" /\ \A d \in Caller : d # c => pc'[d] \notin Paging
        BY <1>2, <1>10, <2>1, Who DEF Goto, Paging
      <3>2. QED
        BY <2>1, <3>1 DEF Pages, Paging
    <2>3. QED
      BY <2>1, <2>2, CallerStep DEF Paging
  <1>12. CASE DirtyPage(c)
    <2>1. /\ Goto(c, "close") /\ seen' = seen /\ pc[c] = "dirty"
          /\ mem' = [v \in Var |-> IF Writer(v) = c THEN Latest(v) ELSE mem[v]]
          /\ buffer' = [buffer EXCEPT ![c] = <<>>]
          /\ backend' = backend /\ page' = page /\ dirty' = TRUE /\ lock' = lock
      BY <1>12 DEF DirtyPage
    <2>2. Pages'
      <3>1. pc'[c] = "close" /\ \A d \in Caller : d # c => pc'[d] \notin Paging
        BY <1>2, <1>10, <2>1, Who DEF Goto, Paging
      <3>2. QED
        BY <2>1, <3>1 DEF Pages, Paging
    <2>3. buffer[c] = <<>>
      BY <1>1, <2>1 DEF Stores, Fences, Converting
    <2>4. \A v \in Var : Writer(v) = c => Latest(v) = mem[v]
      BY <2>3, DrainedNothing DEF Latest
    <2>5. Kept
      BY <1>2, <2>1, <2>3, <2>4 DEF Kept, Stores
    <2>6. QED
      BY <2>1, <2>2, <2>5, CallerStep DEF Paging
  <1>13. CASE ClosePage(c)
    <2>1. /\ Goto(c, Returned(c, TRUE)) /\ seen' = seen /\ pc[c] = "close"
          /\ IF dirty THEN FenceAll ELSE UNCHANGED <<mem, buffer>>
          /\ backend' = backend /\ page' = "none" /\ dirty' = FALSE /\ lock' = Nobody
      BY <1>13 DEF ClosePage
    <2>2. dirty /\ FenceAll
      BY <2>1 DEF Pages
    <2>3. Pages'
      <3>1. \A d \in Caller : pc'[d] \notin Paging
        BY <1>1, <1>2, <1>10, <2>1, Who DEF Goto, Paging
      <3>2. QED
        BY <2>1, <3>1 DEF Pages, Paging
    <2>4. QED
      BY <1>1, <2>1, <2>2, <2>3, CallerStep
  <1>14. QED
    BY <1>4, <1>5, <1>6, <1>7, <1>8, <1>9, <1>11, <1>12, <1>13 DEF Heavy

\* The foreigner's steps, one by one.
LEMMA HandshakeStep == ASSUME IInv, Handshake PROVE IInv'
  <1> USE DEF IInv, Fences
  <1>1. ASSUME NEW l \in {"idle", "heavy", "hold"}, Goto(Foreigner, l), kernel' = kernel
        PROVE  Labels' /\ Pages' /\ pc'[Owner] = pc[Owner] /\ pc'[Foreigner] = l
    <2>1. pc'[Foreigner] = l /\ DOMAIN pc' = Party /\ \A t \in Party : t # Foreigner => pc'[t] = pc[t]
      BY <1>1, Who DEF Goto, Labels
    <2>2. backend' = backend /\ page' = page /\ dirty' = dirty /\ lock' = lock
      BY <1>1 DEF kernel, page_vars
    <2>3. QED
      BY <2>1, <2>2, Who DEF Labels, Pages, Paging
  <1>2. CASE Convert
    <2>1. /\ Goto(Foreigner, "heavy") /\ kernel' = kernel /\ seen' = seen
          /\ mem' = [mem EXCEPT !["converting"] = TRUE] /\ buffer' = [buffer EXCEPT ![Foreigner] = <<>>]
      BY <1>2 DEF Convert
    <2>2. Labels' /\ Pages' /\ pc'[Owner] = pc[Owner] /\ pc'[Foreigner] = "heavy"
      BY <1>1, <2>1
    <2>3. /\ DOMAIN mem' = Var /\ mem'["converting"] /\ mem'["inside"] = mem["inside"] /\ mem'["cell"] = mem["cell"]
          /\ DOMAIN buffer' = Party /\ buffer'[Foreigner] = <<>>
          /\ \A t \in Party : t # Foreigner => buffer'[t] = buffer[t]
      BY <2>1, Who DEF Stores, Var
    <2>4. Stores'
      <3>1. <<>> \in Seq(ForeignStore)
        OBVIOUS
      <3>2. QED
        BY <2>1, <2>3, <3>1, Who DEF Stores
    <2>5. Announced'
      BY <2>2, <2>3, Who DEF Announced, Latest
    <2>6. QED
      BY <2>2, <2>3, <2>4, <2>5 DEF Converting, Fenced, Alone
  <1>3. CASE Hold
    <2>1. /\ Goto(Foreigner, "hold") /\ kernel' = kernel /\ seen' = seen /\ mem' = mem /\ buffer' = buffer
          /\ pc[Foreigner] = "await" /\ ~mem["inside"]
      BY <1>3, Who DEF Hold, ForeignerAt, Load
    <2>2. Labels' /\ Pages' /\ pc'[Owner] = pc[Owner] /\ pc'[Foreigner] = "hold"
      BY <1>1, <2>1
    <2>3. Stores' /\ Latest("inside")' = Latest("inside") /\ \A v : StoresTo(v)' = StoresTo(v)
      BY <2>1 DEF Stores, Latest, StoresTo
    <2>4. QED
      BY <2>1, <2>2, <2>3 DEF Announced, Converting, Fenced, Alone
  <1>4. CASE GiveBack
    <2>1. /\ Goto(Foreigner, "idle") /\ kernel' = kernel /\ seen' = seen /\ Store(Foreigner, "converting", FALSE)
      BY <1>4 DEF GiveBack
    <2>2. Labels' /\ Pages' /\ pc'[Owner] = pc[Owner] /\ pc'[Foreigner] = "idle"
      BY <1>1, <2>1
    <2>3. /\ mem' = mem /\ DOMAIN buffer' = Party
          /\ buffer'[Foreigner] = Append(buffer[Foreigner], [var |-> "converting", val |-> FALSE])
          /\ \A t \in Party : t # Foreigner => buffer'[t] = buffer[t]
      BY <2>1, Who DEF Store, Stores
    <2>4. Stores'
      <3>1. [var |-> "converting", val |-> FALSE] \in ForeignStore
        BY DEF ForeignStore
      <3>2. buffer'[Foreigner] \in Seq(ForeignStore)
        BY <2>3, <3>1 DEF Stores
      <3>3. QED
        BY <2>1, <2>3, <3>2, Who DEF Stores
    <2>5. Announced'
      BY <2>2, <2>3, Who DEF Announced, Latest
    <2>6. QED
      BY <2>2, <2>4, <2>5 DEF Converting, Fenced, Alone
  <1>5. QED
    BY <1>2, <1>3, <1>4 DEF Handshake

\* A bystander begins.
LEMMA BeginStep == ASSUME IInv, NEW c \in Caller, Begin(c) PROVE IInv'
  <1> USE DEF IInv
  <1>1. /\ c \in Bystander /\ c # Foreigner /\ Goto(c, "heavy") /\ seen' = seen /\ mem' = mem /\ buffer' = buffer
        /\ backend' = backend /\ page' = page /\ dirty' = dirty /\ lock' = lock
    BY Who DEF Begin, kernel, page_vars
  <1>2. \A d \in Caller : pc'[d] \in Paging => pc'[d] = pc[d]
    BY <1>1, Who DEF Goto, Labels, Paging
  <1>3. Pages'
    BY <1>1, <1>2 DEF Pages, Paging
  <1>4. QED
    BY <1>1, <1>3, CallerStep

\* A store reaches memory.
LEMMA FlushStep == ASSUME IInv, NEW t \in Party, Flush(t) PROVE IInv'
  <1> USE DEF IInv
  <1>1. /\ pc' = pc /\ seen' = seen /\ backend' = backend /\ page' = page /\ dirty' = dirty /\ lock' = lock
        /\ buffer[t] # <<>>
    BY DEF Flush, kernel, page_vars
  <1>2. Labels' /\ Pages'
    BY <1>1 DEF Labels, Pages
  <1>3. CASE t = Owner
    BY <1>2, <1>3, OwnFlushStep
  <1>4. CASE t = Foreigner
    <2>1. /\ mem' = [mem EXCEPT ![Head(buffer[t]).var] = Head(buffer[t]).val]
          /\ buffer' = [buffer EXCEPT ![t] = Tail(@)]
      BY DEF Flush
    <2>2. Head(buffer[t]).var = "converting" /\ Tail(buffer[t]) \in Seq(ForeignStore)
      <3>1. Head(buffer[t]) \in ForeignStore /\ Tail(buffer[t]) \in Seq(ForeignStore)
        BY <1>1, <1>4 DEF Stores
      <3>2. QED
        BY <3>1 DEF ForeignStore
    <2>3. /\ DOMAIN mem' = Var /\ mem'["inside"] = mem["inside"] /\ mem'["cell"] = mem["cell"]
      BY <2>1, <2>2 DEF Stores, Var
    <2>4. /\ DOMAIN buffer' = Party /\ buffer'[Foreigner] = Tail(buffer[Foreigner])
          /\ \A u \in Party : u # Foreigner => buffer'[u] = buffer[u]
      BY <1>4, <2>1, Who DEF Stores
    <2>5. Stores'
      BY <1>1, <1>4, <2>2, <2>3, <2>4, Who DEF Stores
    <2>6. pc[Foreigner] = "idle"
      BY <1>1, <1>4 DEF Fences, Converting
    <2>7. Announced'
      BY <1>1, <2>3, <2>4, Who DEF Fences, Announced, Latest
    <2>8. QED
      BY <1>1, <1>2, <2>5, <2>6, <2>7 DEF Fences, Converting, Fenced, Alone
  <1>5. CASE t \in Bystander
    BY <1>1, <1>5 DEF Stores
  <1>6. QED
    BY <1>3, <1>4, <1>5 DEF Party, Caller

-----------------------------------------------------------------------------
(* The theorems.                                                           *)

\* Whatever backend is found, however many bystanders use it and whatever the
\* kernel refuses, threads are where the protocol has them and memory is behind
\* the owner in a way that does not matter.  (barrier.rs light, heavy)
THEOREM FencesHold == BarrierSpec => []IInv
  <1>1. BarrierInit => IInv
    BY Begins
  <1>2. IInv /\ [BarrierNext]_barrier_vars => IInv'
    <2> SUFFICES ASSUME IInv, [BarrierNext]_barrier_vars PROVE IInv'
      OBVIOUS
    <2>1. CASE UNCHANGED barrier_vars
      <3>1. /\ mem' = mem /\ buffer' = buffer /\ pc' = pc /\ seen' = seen
            /\ backend' = backend /\ page' = page /\ dirty' = dirty /\ lock' = lock
        BY <2>1 DEF barrier_vars, kernel, page_vars
      <3>2. QED
        BY <3>1 DEF IInv, Stores, Labels, Pages, Fences, Announced, Converting, Fenced, Alone, Latest, StoresTo
    <2>2. CASE BarrierNext
      BY <2>2, DetectStep, OwnStep, HandshakeStep, HeavyStep, BeginStep, FlushStep DEF BarrierNext
    <2>3. QED
      BY <2>1, <2>2
  <1>3. QED
    BY <1>1, <1>2, PTL DEF BarrierSpec

\* Owner and foreigner exclude one another on every backend: after `heavy` has
\* returned and the owner was seen outside, the owner neither is inside nor has
\* a store to the cell under way; and a page barrier writes a page no other has
\* revoked.  (barrier.rs heavy, mprotect::barrier)
THEOREM OwnerAndForeignerExclude == BarrierSpec => []Exclusion
  <1>1. IInv => Exclusion
    <2> SUFFICES ASSUME IInv PROVE Exclusion
      OBVIOUS
    <2>1. PageWritable
      BY DEF IInv, Pages, PageWritable, Paging
    <2>2. ASSUME pc[Foreigner] = "hold" PROVE mem["cell"] = Latest("cell")
      <3>1. \A i \in DOMAIN buffer[Owner] : buffer[Owner][i].var # "cell"
        BY <2>2 DEF IInv, Fences, Alone, StoresTo
      <3>2. Drained(buffer[Owner], "cell", mem["cell"]) = mem["cell"]
        BY <3>1, DrainedNothing
      <3>3. QED
        BY <3>2, Who DEF Latest
    <2>3. OwnerIsOut
      BY <2>2 DEF IInv, Fences, Alone, OwnerIsOut, ForeignerAt
    <2>4. QED
      BY <2>1, <2>3 DEF Exclusion
  <1>2. QED
    BY <1>1, FencesHold, PTL

=============================================================================
