--------------------------- MODULE PerlArrayProofs ---------------------------
(***************************************************************************)
(* PerlArray implements PerlList, keeps its spare slots vacant and its     *)
(* values in its window, for buffers, indices and value sets of any size,  *)
(* provided ensure_element's growth does not fail: where it does, the      *)
(* geometry of a slide is lost.                                            *)
(***************************************************************************)
EXTENDS PerlArray, SequenceTheorems, NaturalsInduction, WellFoundedInduction, TLAPS

\* A geometry as its fields.
Fields(s, a, n, c, d) == [slots |-> s, start |-> a, len |-> n, cap |-> c, dropped |-> d]

Cell == Value \cup {Undef, Hole}

\* A geometry the buffer can have while an operation is under way.
Geometry(p) ==
    /\ p = Fields(p.slots, p.start, p.len, p.cap, p.dropped)
    /\ p.start \in Nat /\ p.cap \in Nat /\ p.len \in 0 .. p.cap
    /\ p.slots \in [0 .. Total(p) - 1 -> Cell]
    /\ Total(p) <= MaxSlots
    /\ p.dropped \subseteq Value

\* Slots outside the window are holes.
Vacant(p) == \A i \in 0 .. Total(p) - 1 : i \notin Window(p) => p.slots[i] = Hole

\* The elements of the window.
At(p, k) == p.slots[p.start + k]
SameElements(p, q) == q.len = p.len /\ \A k \in 0 .. p.len - 1 : At(q, k) = At(p, k)

Sound(p) == Geometry(p) /\ Vacant(p)

\* The inductive invariant: a sound geometry, with nothing dropped between
\* operations, whose window has every value the array owes a drop.
IInv ==
    /\ Sound(array) /\ array.dropped = {}
    /\ live \subseteq Value /\ NothingLost
    /\ large \in BOOLEAN /\ readonly \in BOOLEAN
    /\ ~large => array.start <= Narrow /\ array.len <= Narrow /\ array.cap <= Narrow
    /\ result \in Value \cup {Undef, "ok", "ReadOnly", "AllocError"}

-----------------------------------------------------------------------------
(* The geometry.                                                           *)

\* The indices of the buffer and of its window.
LEMMA Indices ==
    ASSUME NEW p, Geometry(p)
    PROVE  /\ Total(p) \in Nat /\ Total(p) = p.start + p.cap
           /\ DOMAIN p.slots = 0 .. Total(p) - 1
           /\ p.start + p.len <= Total(p)
           /\ \A i : i \in Window(p) <=> i \in Int /\ p.start <= i /\ i < p.start + p.len
           /\ \A i : i \in Window(p) => i \in 0 .. Total(p) - 1
           /\ \A k \in 0 .. p.len - 1 : p.start + k \in Window(p) /\ At(p, k) \in Cell
           /\ \A i \in Window(p) : i - p.start \in 0 .. p.len - 1 /\ p.slots[i] = At(p, i - p.start)
<1>1. /\ p.start \in Int /\ p.len \in Int /\ p.cap \in Int /\ 0 <= p.start /\ 0 <= p.len /\ p.len <= p.cap
      /\ p.slots \in [0 .. Total(p) - 1 -> Cell] /\ Total(p) = p.start + p.cap
  BY DEF Geometry, Total
<1>2. \A i : i \in Window(p) <=> (i \in Int /\ p.start <= i /\ i < p.start + p.len)
  BY <1>1 DEF Window
<1>3. \A i : i \in Window(p) => i \in 0 .. Total(p) - 1
  BY <1>1, <1>2
<1>4. \A k \in 0 .. p.len - 1 : p.start + k \in Window(p) /\ At(p, k) \in Cell
  <2> TAKE k \in 0 .. p.len - 1
  <2>1. p.start + k \in Window(p)
    BY <1>1, <1>2
  <2>2. p.start + k \in 0 .. Total(p) - 1
    BY <1>3, <2>1
  <2> QED BY <1>1, <2>1, <2>2 DEF At
<1>5. \A i \in Window(p) : i - p.start \in 0 .. p.len - 1 /\ p.slots[i] = At(p, i - p.start)
  <2> TAKE i \in Window(p)
  <2>1. i \in Int /\ p.start + (i - p.start) = i /\ i - p.start \in 0 .. p.len - 1
    BY <1>1, <1>2
  <2> QED BY <2>1 DEF At
<1> QED BY <1>1, <1>2, <1>3, <1>4, <1>5

\* The values of the window are its elements that are values.
LEMMA WindowValues ==
    ASSUME NEW p, Geometry(p)
    PROVE  ValuesIn(p.slots, Window(p)) = {v \in Value : \E k \in 0 .. p.len - 1 : At(p, k) = v}
<1>1. ASSUME NEW v \in ValuesIn(p.slots, Window(p))
      PROVE  v \in Value /\ \E k \in 0 .. p.len - 1 : At(p, k) = v
  <2>1. PICK i \in Window(p) : v = p.slots[i] /\ v \in Value
    BY <1>1 DEF ValuesIn
  <2>2. i - p.start \in 0 .. p.len - 1 /\ At(p, i - p.start) = v
    BY <2>1, Indices
  <2> QED BY <2>1, <2>2
<1>2. ASSUME NEW v \in Value, NEW k \in 0 .. p.len - 1, At(p, k) = v
      PROVE  v \in ValuesIn(p.slots, Window(p))
  <2>1. p.start + k \in Window(p) /\ p.slots[p.start + k] = v
    BY <1>2, Indices DEF At
  <2> QED BY <2>1 DEF ValuesIn
<1> QED BY <1>1, <1>2

\* A window with the same elements has the same values.
LEMMA SameValues ==
    ASSUME NEW p, NEW q, Geometry(p), Geometry(q), SameElements(p, q)
    PROVE  ValuesIn(q.slots, Window(q)) = ValuesIn(p.slots, Window(p))
BY WindowValues DEF SameElements

\* What an update of fields leaves.
Reslotted(p, x) == [p EXCEPT !.slots = x]
Resized(p, x) == [p EXCEPT !.len = x]
Recelled(p, x, y) == [p EXCEPT !.slots = x, !.dropped = y]
Regapped(p, x, y) == [p EXCEPT !.start = x, !.cap = y]
Rebuffered(p, x, y, z) == [p EXCEPT !.slots = x, !.start = y, !.cap = z]
Rewindowed(p, x, y, z) == [p EXCEPT !.start = x, !.cap = y, !.len = z]

LEMMA FieldsAre ==
    ASSUME NEW s, NEW a, NEW n, NEW c, NEW d
    PROVE  LET p == Fields(s, a, n, c, d)
           IN  p.slots = s /\ p.start = a /\ p.len = n /\ p.cap = c /\ p.dropped = d
BY DEF Fields

LEMMA OneFieldChanged ==
    ASSUME NEW s, NEW a, NEW n, NEW c, NEW d, NEW x
    PROVE  /\ Reslotted(Fields(s, a, n, c, d), x) = Fields(x, a, n, c, d)
           /\ Resized(Fields(s, a, n, c, d), x) = Fields(s, a, x, c, d)
BY DEF Fields, Reslotted, Resized

LEMMA RecelledFields ==
    ASSUME NEW s, NEW a, NEW n, NEW c, NEW d, NEW x, NEW y
    PROVE  Recelled(Fields(s, a, n, c, d), x, y) = Fields(x, a, n, c, y)
<1> DEFINE p == Fields(s, a, n, c, d)
<1>1. Recelled(p, x, y)
          = [f \in DOMAIN p |-> IF f = "dropped" THEN y ELSE IF f = "slots" THEN x ELSE p[f]]
  BY DEF Recelled
<1>2. DOMAIN p = {"slots", "start", "len", "cap", "dropped"}
  BY DEF Fields
<1> QED BY <1>1, <1>2 DEF Fields

LEMMA RegappedFields ==
    ASSUME NEW s, NEW a, NEW n, NEW c, NEW d, NEW x, NEW y
    PROVE  Regapped(Fields(s, a, n, c, d), x, y) = Fields(s, x, n, y, d)
<1> DEFINE p == Fields(s, a, n, c, d)
<1>1. Regapped(p, x, y)
          = [f \in DOMAIN p |-> IF f = "cap" THEN y ELSE IF f = "start" THEN x ELSE p[f]]
  BY DEF Regapped
<1>2. DOMAIN p = {"slots", "start", "len", "cap", "dropped"}
  BY DEF Fields
<1> QED BY <1>1, <1>2 DEF Fields

LEMMA RebufferedFields ==
    ASSUME NEW s, NEW a, NEW n, NEW c, NEW d, NEW x, NEW y, NEW z
    PROVE  Rebuffered(Fields(s, a, n, c, d), x, y, z) = Fields(x, y, n, z, d)
<1> DEFINE p == Fields(s, a, n, c, d)
<1>1. Rebuffered(p, x, y, z)
          = [f \in DOMAIN p |-> IF f = "cap" THEN z ELSE IF f = "start" THEN y ELSE IF f = "slots" THEN x ELSE p[f]]
  BY DEF Rebuffered
<1>2. DOMAIN p = {"slots", "start", "len", "cap", "dropped"}
  BY DEF Fields
<1> QED BY <1>1, <1>2 DEF Fields

LEMMA RewindowedFields ==
    ASSUME NEW s, NEW a, NEW n, NEW c, NEW d, NEW x, NEW y, NEW z
    PROVE  Rewindowed(Fields(s, a, n, c, d), x, y, z) = Fields(s, x, z, y, d)
<1> DEFINE p == Fields(s, a, n, c, d)
<1>1. Rewindowed(p, x, y, z)
          = [f \in DOMAIN p |-> IF f = "len" THEN z ELSE IF f = "cap" THEN y ELSE IF f = "start" THEN x ELSE p[f]]
  BY DEF Rewindowed
<1>2. DOMAIN p = {"slots", "start", "len", "cap", "dropped"}
  BY DEF Fields
<1> QED BY <1>1, <1>2 DEF Fields

\* The slots s with x in those of I.
Patched(s, I, x) == [i \in DOMAIN s |-> IF i \in I THEN x ELSE s[i]]

\* An assignment of x to the slots I.
LEMMA AssignedFields ==
    ASSUME NEW p, NEW s, NEW a, NEW n, NEW c, NEW d, p = Fields(s, a, n, c, d), NEW I, NEW x
    PROVE  Assigned(p, I, x) = Fields(Patched(s, I, x), a, n, c, d \cup ValuesIn(s, I))
<1> DEFINE x1 == Patched(s, I, x)
           y1 == d \cup ValuesIn(s, I)
<1>1. p.slots = s /\ p.dropped = d
  BY FieldsAre
<1>2. Assigned(p, I, x) = Recelled(p, x1, y1)
  BY <1>1 DEF Assigned, Recelled, Patched
<1> HIDE DEF x1, y1
<1>3. Recelled(p, x1, y1) = Fields(x1, a, n, c, y1)
  BY RecelledFields
<1> QED BY <1>2, <1>3 DEF x1, y1

\* The slide back over the gap keeps the elements and leaves holes behind.
LEMMA SlideToBaseSound ==
    ASSUME NEW p, Sound(p)
    PROVE  /\ Sound(SlideToBase(p)) /\ SameElements(p, SlideToBase(p))
           /\ SlideToBase(p).start = 0 /\ SlideToBase(p).cap = Total(p)
<1> DEFINE T == 0 .. Total(p) - 1
           I == p.len .. p.start + p.len - 1
           c == [i \in T |-> IF i \in 0 .. 0 + p.len - 1 THEN p.slots[i - 0 + p.start] ELSE p.slots[i]]
           s == [i \in T |-> IF i \in I THEN Hole ELSE c[i]]
           q == SlideToBase(p)
<1>1. /\ p.start \in Nat /\ p.cap \in Nat /\ p.len \in 0 .. p.cap /\ p.slots \in [T -> Cell]
      /\ Total(p) = p.start + p.cap /\ Total(p) <= MaxSlots /\ p.dropped \subseteq Value
      /\ p = Fields(p.slots, p.start, p.len, p.cap, p.dropped)
      /\ DOMAIN p.slots = T
  BY Indices DEF Sound, Geometry, Total
<1>2. Copied(p.slots, p.start, 0, p.len) = c
  BY <1>1 DEF Copied
<1>3. q = Fields(s, 0, p.len, Total(p), p.dropped \cup ValuesIn(c, I))
  <2> DEFINE m == Fields(c, p.start, p.len, p.cap, p.dropped)
             w == Fields(s, p.start, p.len, p.cap, p.dropped \cup ValuesIn(c, I))
  <2>1. Reslotted(p, c) = m
    <3> HIDE DEF c
    <3> QED BY <1>1, OneFieldChanged
  <2>2. Assigned(m, I, Hole) = w
    <3>1. DOMAIN c = T
      OBVIOUS
    <3>2. s = Patched(c, I, Hole)
      BY <3>1 DEF Patched
    <3> HIDE DEF c, s, I
    <3> QED BY <3>2, AssignedFields
  <2>3. Regapped(w, 0, Total(p)) = Fields(s, 0, p.len, Total(p), p.dropped \cup ValuesIn(c, I))
    <3> HIDE DEF c, s, I
    <3> QED BY RegappedFields
  <2>4. q = Regapped(Assigned(Reslotted(p, Copied(p.slots, p.start, 0, p.len)), I, Hole), 0, Total(p))
    BY DEF SlideToBase, Regapped, Reslotted
  <2> HIDE DEF c, s, m, w, I, q
  <2> QED BY <1>2, <2>1, <2>2, <2>3, <2>4
<1>4. /\ q.slots = s /\ q.start = 0 /\ q.len = p.len /\ q.cap = Total(p)
      /\ q.dropped = p.dropped \cup ValuesIn(c, I)
      /\ q = Fields(q.slots, q.start, q.len, q.cap, q.dropped)
  <2> HIDE DEF q, s, c, I
  <2> QED BY <1>3, FieldsAre
<1> HIDE DEF q
<1>5. ASSUME NEW i \in T PROVE c[i] \in Cell
  <2>1. p.slots[i] \in Cell
    BY <1>1
  <2>2. CASE i \in 0 .. 0 + p.len - 1
    <3>1. i - 0 + p.start \in T
      BY <1>1, <2>2
    <3>2. p.slots[i - 0 + p.start] \in Cell
      <4> HIDE DEF T
      <4> QED BY <1>1, <3>1
    <3> QED BY <2>2, <3>2
  <2>3. CASE i \notin 0 .. 0 + p.len - 1
    BY <2>1, <2>3
  <2> QED BY <2>2, <2>3
<1>6. s \in [T -> Cell]
  <2> HIDE DEF T, c, I
  <2>1. \A i \in T : (IF i \in I THEN Hole ELSE c[i]) \in Cell
    BY <1>5 DEF Cell
  <2> QED BY <2>1
<1>7. Total(q) = Total(p) /\ Window(q) = 0 .. p.len - 1
  <2> HIDE DEF T, c, s, I
  <2>1. Total(p) \in Nat /\ p.len \in Nat
    BY <1>1
  <2>2. Total(q) = 0 + Total(p) /\ Window(q) = 0 .. 0 + p.len - 1
    BY <1>4 DEF Total, Window
  <2> QED BY <2>1, <2>2
<1>8. ValuesIn(c, I) \subseteq Value
  BY DEF ValuesIn
<1>9. Geometry(q)
  <2> HIDE DEF c, s, I
  <2>1. q.start \in Nat /\ q.cap \in Nat /\ q.len \in 0 .. q.cap /\ Total(q) <= MaxSlots
    <3> HIDE DEF T
    <3>1. Total(p) \in Nat /\ p.len \in 0 .. Total(p)
      BY <1>1
    <3> QED BY <1>1, <1>4, <1>7, <3>1
  <2>2. q.slots \in [0 .. Total(q) - 1 -> Cell] /\ q.dropped \subseteq Value
    <3>1. q.slots \in [T -> Cell] /\ T = 0 .. Total(q) - 1
      BY <1>4, <1>6, <1>7
    <3>2. q.dropped \subseteq Value
      BY <1>1, <1>4, <1>8
    <3> HIDE DEF T
    <3> QED BY <3>1, <3>2
  <2> QED BY <1>4, <2>1, <2>2 DEF Geometry
<1>10. \A k \in 0 .. p.len - 1 : s[k] = p.slots[p.start + k]
  <2> TAKE k \in 0 .. p.len - 1
  <2>1. k \in T /\ k \notin I /\ k \in 0 .. 0 + p.len - 1 /\ k - 0 + p.start = p.start + k
    BY <1>1
  <2> QED BY <2>1
<1>11. SameElements(p, q)
  <2> HIDE DEF T, c, s, I
  <2>1. ASSUME NEW k \in 0 .. p.len - 1 PROVE At(q, k) = s[k]
    <3>1. 0 + k = k
      BY <1>1
    <3> QED BY <1>4, <3>1 DEF At
  <2>2. \A k \in 0 .. p.len - 1 : At(q, k) = At(p, k)
    BY <1>10, <2>1 DEF At
  <2> QED BY <1>4, <2>2 DEF SameElements
<1>12. Vacant(q)
  <2> SUFFICES ASSUME NEW i \in T, i \notin 0 .. p.len - 1 PROVE s[i] = Hole
    BY <1>4, <1>7 DEF Vacant
  <2>1. CASE i \in I
    BY <2>1
  <2>2. CASE i \notin I
    <3>1. i >= p.start + p.len /\ i \notin Window(p) /\ i \notin 0 .. 0 + p.len - 1
      BY <1>1, <2>2 DEF Window
    <3>2. p.slots[i] = Hole
      BY <3>1 DEF Sound, Vacant
    <3> QED BY <2>2, <3>1, <3>2
  <2> QED BY <2>1, <2>2
<1> QED BY <1>4, <1>9, <1>11, <1>12 DEF Sound, q

\* What makes fields a sound geometry.
LEMMA FieldsSound ==
    ASSUME NEW a \in Nat, NEW c \in Nat, NEW n \in 0 .. c, a + c <= MaxSlots,
           NEW s \in [0 .. a + c - 1 -> Cell], NEW d \in SUBSET Value,
           \A i \in 0 .. a + c - 1 : i < a \/ i >= a + n => s[i] = Hole
    PROVE  Sound(Fields(s, a, n, c, d))
<1> DEFINE q == Fields(s, a, n, c, d)
<1>1. q.slots = s /\ q.start = a /\ q.len = n /\ q.cap = c /\ q.dropped = d
  BY FieldsAre
<1>2. q = Fields(q.slots, q.start, q.len, q.cap, q.dropped)
  BY <1>1
<1> HIDE DEF q
<1>3. Total(q) = a + c /\ Window(q) = a .. a + n - 1
  BY <1>1 DEF Total, Window
<1>4. Geometry(q)
  BY <1>1, <1>2, <1>3 DEF Geometry
<1>5. Vacant(q)
  <2>1. ASSUME NEW i \in 0 .. a + c - 1, i \notin a .. a + n - 1 PROVE s[i] = Hole
    <3>1. i < a \/ i >= a + n
      BY <2>1
    <3> QED BY <3>1
  <2> QED BY <1>1, <1>3, <2>1 DEF Vacant
<1>6. Sound(q)
  BY <1>4, <1>5 DEF Sound
<1> QED BY <1>6 DEF q

\* What a sound geometry is made of.
LEMMA SoundFields ==
    ASSUME NEW p, Sound(p)
    PROVE  /\ p.start \in Nat /\ p.cap \in Nat /\ p.len \in 0 .. p.cap /\ p.start + p.cap <= MaxSlots
           /\ p.slots \in [0 .. p.start + p.cap - 1 -> Cell] /\ p.dropped \in SUBSET Value
           /\ p = Fields(p.slots, p.start, p.len, p.cap, p.dropped)
           /\ \A i \in 0 .. p.start + p.cap - 1 : i < p.start \/ i >= p.start + p.len => p.slots[i] = Hole
           /\ \A k \in 0 .. p.len - 1 : p.start + k \in 0 .. p.start + p.cap - 1 /\ At(p, k) \in Cell
<1>1. /\ p.start \in Nat /\ p.cap \in Nat /\ p.len \in 0 .. p.cap /\ p.start + p.cap <= MaxSlots
      /\ p.slots \in [0 .. p.start + p.cap - 1 -> Cell] /\ p.dropped \in SUBSET Value
  BY DEF Sound, Geometry, Total
<1>2. p = Fields(p.slots, p.start, p.len, p.cap, p.dropped)
  BY DEF Sound, Geometry
<1>3. ASSUME NEW i \in 0 .. p.start + p.cap - 1, i < p.start \/ i >= p.start + p.len
      PROVE  p.slots[i] = Hole
  <2>1. i \notin Window(p)
    BY <1>1, <1>3 DEF Window
  <2>2. Vacant(p) /\ Total(p) = p.start + p.cap
    BY DEF Sound, Total
  <2>3. i \in 0 .. Total(p) - 1
    BY <1>1, <1>3, <2>2
  <2> QED BY <2>1, <2>2, <2>3 DEF Vacant
<1>4. ASSUME NEW k \in 0 .. p.len - 1 PROVE p.start + k \in 0 .. p.start + p.cap - 1
  BY <1>1
<1>5. ASSUME NEW k \in 0 .. p.len - 1 PROVE At(p, k) \in Cell
  BY <1>1, <1>4 DEF At
<1> QED BY <1>1, <1>2, <1>3, <1>4, <1>5

\* The same buffer seen through another window outside which it is vacant.
LEMMA Rewindow ==
    ASSUME NEW p, Sound(p), NEW a \in Nat, NEW n \in Nat, a + n <= p.start + p.cap,
           \A i \in 0 .. p.start + p.cap - 1 : i < a \/ i >= a + n => p.slots[i] = Hole
    PROVE  Sound(Fields(p.slots, a, n, p.start + p.cap - a, p.dropped))
<1> DEFINE c == p.start + p.cap - a
<1>1. /\ p.start \in Nat /\ p.cap \in Nat /\ p.start + p.cap <= MaxSlots
      /\ p.slots \in [0 .. p.start + p.cap - 1 -> Cell] /\ p.dropped \in SUBSET Value
  BY SoundFields
<1>2. c \in Nat /\ n \in 0 .. c /\ a + c = p.start + p.cap
  BY <1>1
<1> HIDE DEF c
<1>3. 0 .. a + c - 1 = 0 .. p.start + p.cap - 1 /\ a + c <= MaxSlots
  <2>1. a \in Int /\ c \in Int /\ p.start \in Int /\ p.cap \in Int
    BY <1>1, <1>2
  <2>2. a + c - 1 = p.start + p.cap - 1
    BY <1>2, <2>1
  <2> QED BY <1>1, <1>2, <2>2
<1>5. /\ p.slots \in [0 .. a + c - 1 -> Cell]
      /\ \A i \in 0 .. a + c - 1 : i < a \/ i >= a + n => p.slots[i] = Hole
  BY <1>1, <1>3
<1>4. Sound(Fields(p.slots, a, n, c, p.dropped))
  BY <1>1, <1>2, <1>3, <1>5, FieldsSound
<1> QED BY <1>4 DEF c

\* q is p with x as its element k, and with d dropped.
Replaced(p, q, k, x, d) ==
    /\ Sound(q) /\ q.start = p.start /\ q.cap = p.cap /\ q.len = p.len /\ q.dropped = d
    /\ At(q, k) = x /\ \A j \in 0 .. p.len - 1 : j # k => At(q, j) = At(p, j)

\* One slot of the window overwritten.
LEMMA OneElement ==
    ASSUME NEW p, Sound(p), NEW k \in 0 .. p.len - 1, NEW x \in Cell, NEW d \in SUBSET Value
    PROVE  Replaced(p, Fields([p.slots EXCEPT ![p.start + k] = x], p.start, p.len, p.cap, d), k, x, d)
<1> DEFINE s == [p.slots EXCEPT ![p.start + k] = x]
           T == 0 .. p.start + p.cap - 1
           q == Fields(s, p.start, p.len, p.cap, d)
<1>1. /\ p.start \in Nat /\ p.cap \in Nat /\ p.len \in 0 .. p.cap /\ p.start + p.cap <= MaxSlots
      /\ p.slots \in [T -> Cell] /\ p.start + k \in T
      /\ \A i \in T : i < p.start \/ i >= p.start + p.len => p.slots[i] = Hole
  BY SoundFields
<1>2. s \in [T -> Cell] /\ s[p.start + k] = x /\ \A i \in T : i # p.start + k => s[i] = p.slots[i]
  BY <1>1
<1>3. q.slots = s /\ q.start = p.start /\ q.cap = p.cap /\ q.len = p.len /\ q.dropped = d
  <2> HIDE DEF s
  <2> QED BY FieldsAre
<1> HIDE DEF s
<1>4. \A i \in T : i < p.start \/ i >= p.start + p.len => s[i] = Hole
  <2> SUFFICES ASSUME NEW i \in T, i < p.start \/ i >= p.start + p.len PROVE s[i] = Hole
    OBVIOUS
  <2>1. i # p.start + k
    BY <1>1
  <2> QED BY <1>1, <1>2, <2>1
<1>5. Sound(q)
  BY <1>1, <1>2, <1>4, FieldsSound
<1> HIDE DEF q
<1>6. At(q, k) = x
  BY <1>2, <1>3 DEF At
<1>7. ASSUME NEW j \in 0 .. p.len - 1, j # k PROVE At(q, j) = At(p, j)
  <2>1. p.start \in Int /\ j \in Int /\ k \in Int
    BY <1>1
  <2>2. p.start + j # p.start + k
    BY <1>7, <2>1
  <2>3. p.start + j \in T
    BY SoundFields
  <2> QED BY <1>2, <1>3, <2>2, <2>3 DEF At
<1>8. Replaced(p, q, k, x, d)
  BY <1>3, <1>5, <1>6, <1>7 DEF Replaced
<1> QED BY <1>8 DEF q, s

\* A slot assigned: what it held is dropped.
LEMMA AssignedElement ==
    ASSUME NEW p, Sound(p), NEW k \in 0 .. p.len - 1, NEW x \in Cell
    PROVE  Replaced(p, Assigned(p, {p.start + k}, x), k, x, p.dropped \cup ({At(p, k)} \cap Value))
<1> DEFINE q == Assigned(p, {p.start + k}, x)
           d == p.dropped \cup ({At(p, k)} \cap Value)
           s == Patched(p.slots, {p.start + k}, x)
<1>1. /\ p = Fields(p.slots, p.start, p.len, p.cap, p.dropped) /\ p.dropped \in SUBSET Value
      /\ p.slots \in [0 .. p.start + p.cap - 1 -> Cell]
  BY SoundFields
<1>2. q = Fields(s, p.start, p.len, p.cap, p.dropped \cup ValuesIn(p.slots, {p.start + k}))
  <2> DEFINE I == {p.start + k}
  <2> HIDE DEF I
  <2>1. Assigned(p, I, x) = Fields(Patched(p.slots, I, x), p.start, p.len, p.cap, p.dropped \cup ValuesIn(p.slots, I))
    BY <1>1, AssignedFields
  <2> QED BY <2>1 DEF I
<1>3. s = [p.slots EXCEPT ![p.start + k] = x]
  BY <1>1 DEF Patched
<1>4. ValuesIn(p.slots, {p.start + k}) = {At(p, k)} \cap Value
  BY DEF ValuesIn, At
<1>5. d \in SUBSET Value
  BY <1>1
<1> HIDE DEF q, d, s
<1>6. q = Fields([p.slots EXCEPT ![p.start + k] = x], p.start, p.len, p.cap, d)
  BY <1>2, <1>3, <1>4 DEF d
<1>7. Replaced(p, q, k, x, d)
  BY <1>5, <1>6, OneElement
<1> QED BY <1>7 DEF q, d

\* A slot overwritten bit by bit: a vivified hole, or a value moved out.
Overwritten(p, k, x) == [p EXCEPT !.slots[p.start + k] = x]

LEMMA OverwrittenElement ==
    ASSUME NEW p, Sound(p), NEW k \in 0 .. p.len - 1, NEW x \in Cell
    PROVE  Replaced(p, Overwritten(p, k, x), k, x, p.dropped)
<1> DEFINE q == Overwritten(p, k, x)
           s == [p.slots EXCEPT ![p.start + k] = x]
<1>1. /\ p = Fields(p.slots, p.start, p.len, p.cap, p.dropped) /\ p.dropped \in SUBSET Value
  BY SoundFields
<1>2. q = Reslotted(p, s)
  BY DEF Reslotted, Overwritten
<1> HIDE DEF s, q
<1>3. q = Fields(s, p.start, p.len, p.cap, p.dropped)
  BY <1>1, <1>2, OneFieldChanged
<1>4. Replaced(p, q, k, x, p.dropped)
  BY <1>1, <1>3, OneElement DEF s
<1> QED BY <1>4 DEF q

\* The window copied to a new buffer.
LEMMA ReallocatedSound ==
    ASSUME NEW p, Sound(p), NEW n \in Nat, p.len <= n, n <= MaxSlots
    PROVE  /\ Sound(Reallocated(p, n)) /\ SameElements(p, Reallocated(p, n))
           /\ Reallocated(p, n).start = 0 /\ Reallocated(p, n).cap = n
<1> DEFINE s == [i \in 0 .. n - 1 |-> IF i < p.len THEN p.slots[p.start + i] ELSE Hole]
           q == Reallocated(p, n)
<1>1. /\ p.start \in Nat /\ p.cap \in Nat /\ p.len \in 0 .. p.cap
      /\ p = Fields(p.slots, p.start, p.len, p.cap, p.dropped) /\ p.dropped \in SUBSET Value
      /\ \A k \in 0 .. p.len - 1 : At(p, k) \in Cell
  BY SoundFields
<1>2. q = Fields(s, 0, p.len, n, p.dropped)
  <2>1. q = Rebuffered(p, s, 0, n)
    BY DEF Reallocated, Rebuffered
  <2> HIDE DEF q, s
  <2> QED BY <1>1, <2>1, RebufferedFields
<1>3. \A i \in 0 .. n - 1 : (i < p.len => s[i] = At(p, i)) /\ (i >= p.len => s[i] = Hole)
  BY <1>1 DEF At
<1>4. s \in [0 .. n - 1 -> Cell]
  <2> SUFFICES ASSUME NEW i \in 0 .. n - 1 PROVE (IF i < p.len THEN p.slots[p.start + i] ELSE Hole) \in Cell
    OBVIOUS
  <2>1. CASE i < p.len
    <3>1. At(p, i) \in Cell
      BY <1>1, <2>1
    <3> QED BY <2>1, <3>1 DEF At
  <2>2. CASE ~(i < p.len)
    BY <2>2 DEF Cell
  <2> QED BY <2>1, <2>2
<1> HIDE DEF s, q
<1>5. /\ q.slots = s /\ q.start = 0 /\ q.len = p.len /\ q.cap = n
  BY <1>2, FieldsAre
<1>6. Sound(q)
  <2>1. 0 + n = n /\ 0 + p.len = p.len /\ 0 \in Nat /\ 0 + n - 1 = n - 1 /\ p.len \in 0 .. n
    BY <1>1
  <2>2. s \in [0 .. 0 + n - 1 -> Cell] /\ \A i \in 0 .. 0 + n - 1 : i < 0 \/ i >= 0 + p.len => s[i] = Hole
    BY <1>3, <1>4, <2>1
  <2> QED BY <1>1, <1>2, <2>1, <2>2, FieldsSound
<1>7. SameElements(p, q)
  <2>1. ASSUME NEW k \in 0 .. p.len - 1 PROVE At(q, k) = At(p, k)
    <3>1. k \in 0 .. n - 1 /\ k < p.len /\ 0 + k = k
      BY <1>1
    <3> QED BY <1>3, <1>5, <3>1 DEF At
  <2> QED BY <1>5, <2>1 DEF SameElements
<1> QED BY <1>5, <1>6, <1>7 DEF q

\* What grow may leave: the elements where room was made for min, or failed to be.
Grown(p, g, min, op) ==
    /\ Sound(g[1]) /\ SameElements(p, g[1])
    /\ g[2] \in BOOLEAN
    /\ g[2] => min <= g[1].cap
    /\ ~g[2] => op \in Operation
    /\ p.start = 0 => g[1].start = 0

LEMMA GrowSound ==
    ASSUME NEW p, Sound(p), NEW min \in Nat, NEW op, NEW g \in Grow(p, min, op)
    PROVE  Grown(p, g, min, op)
<1> DEFINE slid == IF p.start > 0 THEN SlideToBase(p) ELSE p
           requested == min + slid.cap \div 5
           granted == {n \in requested .. requested + Slack : n <= MaxSlots}
<1>1. /\ p.start \in Nat /\ p.cap \in Nat /\ p.len \in 0 .. p.cap
  BY SoundFields
<1>2. SameElements(p, p)
  BY DEF SameElements
<1>3. Sound(slid) /\ SameElements(p, slid) /\ slid.start = 0 /\ p.cap <= slid.cap
  <2>1. CASE p.start > 0
    BY <1>1, <2>1, SlideToBaseSound DEF Total
  <2>2. CASE ~(p.start > 0)
    BY <1>1, <1>2, <2>2
  <2> QED BY <2>1, <2>2
<1>4. \/ p.cap >= min /\ g = <<p, TRUE>>
      \/ p.cap < min /\ slid.cap >= min /\ g = <<slid, TRUE>>
      \/ p.cap < min /\ slid.cap < min /\ \E n \in granted : g = <<Reallocated(slid, n), TRUE>>
      \/ p.cap < min /\ slid.cap < min /\ op \in Operation /\ g = <<slid, FALSE>>
  <2> HIDE DEF slid, granted
  <2>1. g \in (CASE p.cap >= min -> {<<p, TRUE>>}
                 [] p.cap < min /\ slid.cap >= min -> {<<slid, TRUE>>}
                 [] p.cap < min /\ slid.cap < min ->
                       {<<Reallocated(slid, n), TRUE>> : n \in granted}
                       \cup {<<slid, FALSE>> : o \in Operation \cap {op}})
    BY DEF Grow, slid, granted
  <2>2. p.cap \in Int /\ slid.cap \in Int
    BY <1>1, <1>3, SoundFields
  <2>3. CASE p.cap >= min
    BY <2>1, <2>2, <2>3
  <2>4. CASE p.cap < min /\ slid.cap >= min
    BY <2>1, <2>2, <2>4
  <2>5. CASE p.cap < min /\ slid.cap < min
    BY <2>1, <2>2, <2>5
  <2>6. \/ p.cap >= min
        \/ p.cap < min /\ slid.cap >= min
        \/ p.cap < min /\ slid.cap < min
    BY <2>2
  <2> QED BY <2>3, <2>4, <2>5, <2>6
<1> HIDE DEF slid
<1>5. CASE p.cap >= min /\ g = <<p, TRUE>>
  BY <1>1, <1>2, <1>5 DEF Grown
<1>6. CASE p.cap < min /\ slid.cap >= min /\ g = <<slid, TRUE>>
  BY <1>1, <1>3, <1>6 DEF Grown
<1>7. CASE p.cap < min /\ slid.cap < min /\ \E n \in granted : g = <<Reallocated(slid, n), TRUE>>
  <2>1. slid.cap \in Nat /\ slid.len \in 0 .. slid.cap
    BY <1>3, SoundFields
  <2>2. requested \in Nat /\ min <= requested
    BY <2>1
  <2> HIDE DEF requested
  <2>3. PICK n \in granted : g = <<Reallocated(slid, n), TRUE>>
    BY <1>7
  <2>4. n \in Nat /\ min <= n /\ n <= MaxSlots /\ slid.len <= n
    BY <1>7, <2>1, <2>2, <2>3, PerlArrayAssumption
  <2> DEFINE r == Reallocated(slid, n)
  <2>5. Sound(r) /\ SameElements(slid, r) /\ r.start = 0 /\ r.cap = n
    BY <1>3, <2>4, ReallocatedSound
  <2> HIDE DEF r
  <2>6. SameElements(p, r)
    BY <1>3, <2>5 DEF SameElements
  <2>7. g = <<r, TRUE>>
    BY <2>3 DEF r
  <2> QED BY <2>4, <2>5, <2>6, <2>7 DEF Grown
<1>8. CASE p.cap < min /\ slid.cap < min /\ op \in Operation /\ g = <<slid, FALSE>>
  BY <1>3, <1>8 DEF Grown
<1> QED BY <1>4, <1>5, <1>6, <1>7, <1>8

\* p with a window of i + 1 elements, if it had fewer: the new ones are holes.
Stretches(p, q, i) ==
    /\ Sound(q) /\ i < q.len
    /\ q.len = (IF i >= p.len THEN i + 1 ELSE p.len)
    /\ \A k \in 0 .. q.len - 1 : At(q, k) = (IF k < p.len THEN At(p, k) ELSE Hole)

LEMMA ExtendToSound ==
    ASSUME NEW p, Sound(p), NEW i \in Nat, NEW op, NEW h \in ExtendTo(p, i, op)
    PROVE  /\ h[2] \in BOOLEAN
           /\ h[2] => Stretches(p, h[1], i)
           /\ ~h[2] => op \in Operation /\ Sound(h[1]) /\ SameElements(p, h[1])
<1>1. PICK g \in Grow(p, i + 1, op) :
          h = <<IF g[2] /\ i >= p.len THEN [g[1] EXCEPT !.len = i + 1] ELSE g[1], g[2]>>
  BY DEF ExtendTo
<1>2. Grown(p, g, i + 1, op)
  BY GrowSound
<1>3. p.len \in Nat /\ g[1].len = p.len /\ \A k \in 0 .. p.len - 1 : At(g[1], k) = At(p, k)
  BY <1>2, SoundFields DEF Grown, SameElements
<1>4. CASE ~g[2]
  BY <1>1, <1>2, <1>4 DEF Grown
<1>5. CASE g[2] /\ ~(i >= p.len)
  BY <1>1, <1>2, <1>3, <1>5 DEF Grown, Stretches
<1>6. CASE g[2] /\ i >= p.len
  <2> DEFINE b == g[1]
             q == Resized(b, i + 1)
  <2>1. h = <<q, TRUE>>
    BY <1>1, <1>2, <1>6 DEF Resized, Grown
  <2> HIDE DEF b
  <2>2. Sound(b) /\ i + 1 <= b.cap /\ b.len = p.len
    BY <1>2, <1>3, <1>6 DEF Grown, b
  <2>3. /\ b.start \in Nat /\ b.cap \in Nat /\ b.start + b.cap <= MaxSlots
        /\ b.slots \in [0 .. b.start + b.cap - 1 -> Cell] /\ b.dropped \in SUBSET Value
        /\ b = Fields(b.slots, b.start, b.len, b.cap, b.dropped)
        /\ \A j \in 0 .. b.start + b.cap - 1 : j < b.start \/ j >= b.start + b.len => b.slots[j] = Hole
    BY <2>2, SoundFields
  <2>4. q = Fields(b.slots, b.start, i + 1, b.cap, b.dropped)
    BY <2>3, OneFieldChanged
  <2> HIDE DEF q
  <2>5. q.slots = b.slots /\ q.start = b.start /\ q.len = i + 1
    BY <2>4, FieldsAre
  <2>6. Sound(q)
    <3>1. i + 1 \in 0 .. b.cap
      BY <2>2, <2>3
    <3>2. \A j \in 0 .. b.start + b.cap - 1 : j < b.start \/ j >= b.start + (i + 1) => b.slots[j] = Hole
      BY <1>3, <1>6, <2>2, <2>3
    <3> QED BY <2>3, <2>4, <3>1, <3>2, FieldsSound
  <2>7. ASSUME NEW k \in 0 .. q.len - 1 PROVE At(q, k) = (IF k < p.len THEN At(p, k) ELSE Hole)
    <3>1. k \in 0 .. i /\ At(q, k) = b.slots[b.start + k] /\ At(b, k) = b.slots[b.start + k]
      BY <2>5, <2>7 DEF At
    <3>2. CASE k < p.len
      <4>1. At(b, k) = At(p, k)
        BY <1>3, <3>1, <3>2 DEF b
      <4> QED BY <3>1, <3>2, <4>1
    <3>3. CASE ~(k < p.len)
      <4>1. b.start + k \in 0 .. b.start + b.cap - 1 /\ b.start + k >= b.start + b.len
        BY <1>3, <2>2, <2>3, <3>1, <3>3
      <4> QED BY <2>3, <3>1, <3>3, <4>1
    <3> QED BY <3>2, <3>3
  <2>8. Stretches(p, q, i)
    BY <1>3, <1>6, <2>5, <2>6, <2>7 DEF Stretches
  <2> QED BY <2>1, <2>8
<1> QED BY <1>2, <1>4, <1>5, <1>6 DEF Grown

\* The window slides right by one and the fill: its elements follow a hole.
LEMMA SlideForwardSound ==
    ASSUME NEW p, Sound(p), p.start = 0, Shortfall(p) <= p.cap
    PROVE  /\ Sound(SlideForward(p)) /\ SlideForward(p).len = p.len + 1
           /\ At(SlideForward(p), 0) = Hole
           /\ \A k \in 0 .. p.len - 1 : At(SlideForward(p), k + 1) = At(p, k)
<1> DEFINE slide == IF p.len >= 2 THEN p.len - 1 ELSE 0
           moved == 1 + slide
           T == 0 .. p.cap - 1
           opened == p.start .. p.start + (IF moved < p.len THEN moved ELSE p.len) - 1
           c == [i \in T |-> IF i \in p.start + moved .. p.start + moved + p.len - 1
                             THEN p.slots[i - (p.start + moved) + p.start] ELSE p.slots[i]]
           s == Patched(c, opened, Hole)
           d == p.dropped \cup ValuesIn(c, opened)
           q == SlideForward(p)
<1>1. /\ p.start \in Nat /\ p.cap \in Nat /\ p.len \in 0 .. p.cap /\ p.cap <= MaxSlots
      /\ p.slots \in [T -> Cell] /\ p.dropped \in SUBSET Value
      /\ p = Fields(p.slots, p.start, p.len, p.cap, p.dropped)
      /\ \A i \in T : i >= p.len => p.slots[i] = Hole
  <2>1. 0 + p.cap = p.cap /\ 0 + p.cap - 1 = p.cap - 1 /\ 0 + p.len = p.len
    BY SoundFields
  <2> QED BY <2>1, SoundFields
<1>2. slide \in Nat /\ moved = slide + 1 /\ moved + p.len <= p.cap /\ p.len <= moved /\ slide + (p.len + 1) = moved + p.len
  <2>1. p.len + 1 + slide <= p.cap
    BY DEF Shortfall
  <2>2. p.len \in Nat /\ p.cap \in Nat
    BY <1>1
  <2>3. slide \in Nat /\ p.len <= 1 + slide
    BY <2>2
  <2> HIDE DEF slide
  <2> QED BY <2>1, <2>2, <2>3
<1>3. q = Fields(s, p.start + slide, p.len + 1, p.cap - slide, d)
  <2> DEFINE m == Fields(c, p.start, p.len, p.cap, p.dropped)
             w == Fields(s, p.start, p.len, p.cap, d)
  <2>1. DOMAIN p.slots = T
    BY <1>1
  <2>2. Copied(p.slots, p.start, p.start + moved, p.len) = c
    BY <2>1 DEF Copied
  <2>3. Reslotted(p, c) = m
    <3> HIDE DEF c
    <3> QED BY <1>1, OneFieldChanged
  <2>4. Assigned(m, opened, Hole) = w
    <3> HIDE DEF c, opened
    <3> QED BY AssignedFields
  <2>5. Rewindowed(w, p.start + slide, p.cap - slide, p.len + 1)
            = Fields(s, p.start + slide, p.len + 1, p.cap - slide, d)
    <3> HIDE DEF s, d, slide
    <3> QED BY RewindowedFields
  <2>6. q = [Assigned(Reslotted(p, Copied(p.slots, p.start, p.start + moved, p.len)), opened, Hole)
                EXCEPT !.start = @ + slide, !.cap = @ - slide, !.len = @ + 1]
    BY DEF SlideForward, Reslotted
  <2> HIDE DEF c, s, d, m, opened, q, slide, moved
  <2>7. q = [w EXCEPT !.start = @ + slide, !.cap = @ - slide, !.len = @ + 1]
    BY <2>2, <2>3, <2>4, <2>6
  <2>8. w.start = p.start /\ w.cap = p.cap /\ w.len = p.len
    BY FieldsAre DEF w
  <2>9. q = Rewindowed(w, p.start + slide, p.cap - slide, p.len + 1)
    BY <2>7, <2>8 DEF Rewindowed
  <2> QED BY <2>5, <2>9
<1>4. opened = 0 .. p.len - 1
  BY <1>1, <1>2
<1>5. \A i \in T : c[i] = IF i \in moved .. moved + p.len - 1 THEN p.slots[i - moved] ELSE p.slots[i]
  <2> SUFFICES ASSUME NEW i \in T
               PROVE  c[i] = IF i \in moved .. moved + p.len - 1 THEN p.slots[i - moved] ELSE p.slots[i]
    OBVIOUS
  <2>1. p.start + moved = moved /\ p.start + moved + p.len - 1 = moved + p.len - 1
        /\ i - (p.start + moved) + p.start = i - moved
    BY <1>1, <1>2
  <2> HIDE DEF moved
  <2> QED BY <2>1
<1> HIDE DEF c, slide, moved, opened
<1>6. /\ \A i \in T : i < p.len => s[i] = Hole
      /\ \A i \in T : i >= p.len /\ i < moved => s[i] = Hole
      /\ \A i \in T : i >= moved + p.len => s[i] = Hole
      /\ \A k \in 0 .. p.len - 1 : moved + k \in T /\ s[moved + k] = p.slots[k]
      /\ s \in [T -> Cell]
  <2>1. DOMAIN c = T
    BY DEF c
  <2>2. \A i \in T : s[i] = IF i < p.len THEN Hole ELSE c[i]
    BY <1>1, <1>4, <2>1 DEF Patched
  <2>3. DOMAIN s = T /\ s = [i \in T |-> s[i]]
    BY <2>1 DEF Patched
  <2> HIDE DEF s
  <2>4. ASSUME NEW i \in T, i < p.len PROVE s[i] = Hole
    BY <2>2, <2>4
  <2>5. ASSUME NEW i \in T, i >= p.len, i < moved PROVE s[i] = Hole
    <3>1. i \notin moved .. moved + p.len - 1 /\ ~(i < p.len)
      BY <1>1, <1>2, <2>5
    <3>2. c[i] = p.slots[i]
      BY <1>5, <3>1
    <3> QED BY <1>1, <2>2, <2>5, <3>1, <3>2
  <2>6. ASSUME NEW i \in T, i >= moved + p.len PROVE s[i] = Hole
    <3>1. i \notin moved .. moved + p.len - 1 /\ ~(i < p.len) /\ i >= p.len
      BY <1>1, <1>2, <2>6
    <3>2. c[i] = p.slots[i]
      BY <1>5, <3>1
    <3> QED BY <1>1, <2>2, <3>1, <3>2
  <2>7. ASSUME NEW k \in 0 .. p.len - 1 PROVE moved + k \in T /\ s[moved + k] = p.slots[k]
    <3>1. moved + k \in T /\ moved + k \in moved .. moved + p.len - 1 /\ ~(moved + k < p.len) /\ (moved + k) - moved = k
      BY <1>1, <1>2
    <3>2. c[moved + k] = p.slots[k]
      BY <1>5, <3>1
    <3> QED BY <2>2, <3>1, <3>2
  <2>8. ASSUME NEW i \in T PROVE s[i] \in Cell
    <3>1. CASE i < p.len \/ (i >= p.len /\ i < moved) \/ i >= moved + p.len
      <4>1. s[i] = Hole
        BY <2>4, <2>5, <2>6, <3>1
      <4> QED BY <4>1 DEF Cell
    <3>2. CASE i >= moved /\ i < moved + p.len
      <4>1. i - moved \in 0 .. p.len - 1 /\ moved + (i - moved) = i /\ i - moved \in T
        BY <1>1, <1>2, <3>2
      <4>2. s[i] = p.slots[i - moved]
        BY <2>7, <4>1
      <4> QED BY <1>1, <4>1, <4>2
    <3> QED BY <1>1, <1>2, <3>1, <3>2
  <2> QED BY <2>3, <2>4, <2>5, <2>6, <2>7, <2>8
<1>7. d \in SUBSET Value
  BY <1>1 DEF ValuesIn
<1> HIDE DEF s, d, q
<1>8. q = Fields(s, slide, p.len + 1, p.cap - slide, d)
  BY <1>1, <1>2, <1>3
<1>9. q.slots = s /\ q.start = slide /\ q.len = p.len + 1
  BY <1>8, FieldsAre
<1>10. Sound(q)
  <2>1. /\ p.cap - slide \in Nat /\ p.len + 1 \in 0 .. p.cap - slide
        /\ slide + (p.cap - slide) = p.cap /\ slide + (p.cap - slide) - 1 = p.cap - 1
    BY <1>1, <1>2
  <2>2. ASSUME NEW i \in T, i < slide \/ i >= slide + (p.len + 1) PROVE s[i] = Hole
    <3>1. i < p.len \/ (i >= p.len /\ i < moved) \/ i >= moved + p.len
      BY <1>1, <1>2, <2>2
    <3> QED BY <1>6, <3>1
  <2> DEFINE e == p.cap - slide
  <2>3. slide + e - 1 = p.cap - 1
    BY <2>1
  <2>4. e \in Nat /\ slide + e <= MaxSlots /\ p.len + 1 \in 0 .. e
    BY <1>1, <2>1
  <2> HIDE DEF e
  <2>5. s \in [0 .. slide + e - 1 -> Cell]
    BY <1>6, <2>3
  <2>6. \A i \in 0 .. slide + e - 1 : i < slide \/ i >= slide + (p.len + 1) => s[i] = Hole
    BY <2>2, <2>3
  <2>7. Sound(Fields(s, slide, p.len + 1, e, d))
    BY <1>2, <1>7, <2>4, <2>5, <2>6, FieldsSound
  <2> QED BY <1>8, <2>7 DEF e
<1>11. At(q, 0) = Hole
  <2>1. slide \in T /\ slide < moved /\ slide + 0 = slide /\ (slide < p.len \/ slide >= p.len)
    BY <1>1, <1>2
  <2> QED BY <1>6, <1>9, <2>1 DEF At
<1>12. ASSUME NEW k \in 0 .. p.len - 1 PROVE At(q, k + 1) = At(p, k)
  <2>1. k \in Int /\ slide \in Int /\ moved = slide + 1
    BY <1>2
  <2>2. slide + (k + 1) = moved + k
    BY <2>1
  <2>3. p.start + k = k
    BY <2>1
  <2> QED BY <1>6, <1>9, <2>2, <2>3 DEF At
<1> QED BY <1>9, <1>10, <1>11, <1>12 DEF q

\* Holes at the end of the window left outside it.
LEMMA ShrunkSound ==
    ASSUME NEW p, Sound(p), NEW n \in 0 .. p.len, \A k \in n .. p.len - 1 : At(p, k) = Hole
    PROVE  /\ Sound(Resized(p, n)) /\ Resized(p, n).len = n /\ Resized(p, n).dropped = p.dropped
           /\ \A k \in 0 .. n - 1 : At(Resized(p, n), k) = At(p, k)
<1> DEFINE q == Resized(p, n)
<1>1. /\ p.start \in Nat /\ p.cap \in Nat /\ p.len \in 0 .. p.cap
      /\ p.start + p.cap <= MaxSlots
      /\ p.slots \in [0 .. p.start + p.cap - 1 -> Cell] /\ p.dropped \in SUBSET Value
      /\ p = Fields(p.slots, p.start, p.len, p.cap, p.dropped)
      /\ \A i \in 0 .. p.start + p.cap - 1 : i < p.start \/ i >= p.start + p.len => p.slots[i] = Hole
  BY SoundFields
<1>2. q = Fields(p.slots, p.start, n, p.cap, p.dropped)
  BY <1>1, OneFieldChanged
<1> HIDE DEF q
<1>3. q.slots = p.slots /\ q.start = p.start /\ q.len = n /\ q.dropped = p.dropped
  BY <1>2, FieldsAre
<1>4. ASSUME NEW i \in 0 .. p.start + p.cap - 1, i < p.start \/ i >= p.start + n
      PROVE  p.slots[i] = Hole
  <2>1. CASE i < p.start \/ i >= p.start + p.len
    BY <1>1, <2>1
  <2>2. CASE i >= p.start /\ i < p.start + p.len
    <3>1. i - p.start \in n .. p.len - 1 /\ p.start + (i - p.start) = i
      BY <1>1, <1>4, <2>2
    <3>2. At(p, i - p.start) = Hole
      BY <3>1
    <3> QED BY <3>1, <3>2 DEF At
  <2> QED BY <1>1, <2>1, <2>2
<1>5. n \in 0 .. p.cap
  BY <1>1
<1>6. Sound(q)
  BY <1>1, <1>2, <1>4, <1>5, FieldsSound
<1> QED BY <1>3, <1>6 DEF q, At

\* The first slot of the window, a hole, left to the gap.
LEMMA NarrowedSound ==
    ASSUME NEW p, Sound(p), p.len > 0, At(p, 0) = Hole
    PROVE  LET q == Rewindowed(p, p.start + 1, p.cap - 1, p.len - 1)
           IN  /\ Sound(q) /\ q.len = p.len - 1 /\ q.dropped = p.dropped
               /\ \A k \in 0 .. p.len - 2 : At(q, k) = At(p, k + 1)
<1> DEFINE q == Rewindowed(p, p.start + 1, p.cap - 1, p.len - 1)
           a == p.start + 1
           c == p.cap - 1
           n == p.len - 1
<1>1. /\ p.start \in Nat /\ p.cap \in Nat /\ p.len \in 0 .. p.cap
      /\ p.start + p.cap <= MaxSlots
      /\ p.slots \in [0 .. p.start + p.cap - 1 -> Cell] /\ p.dropped \in SUBSET Value
      /\ p = Fields(p.slots, p.start, p.len, p.cap, p.dropped)
      /\ \A i \in 0 .. p.start + p.cap - 1 : i < p.start \/ i >= p.start + p.len => p.slots[i] = Hole
  BY SoundFields
<1>2. q = Fields(p.slots, a, n, c, p.dropped)
  <2> HIDE DEF a, c, n
  <2> QED BY <1>1, RewindowedFields DEF a, c, n
<1> HIDE DEF q
<1>3. q.slots = p.slots /\ q.start = a /\ q.len = n /\ q.dropped = p.dropped
  BY <1>2, FieldsAre
<1>4. a \in Nat /\ c \in Nat /\ n \in 0 .. c /\ a + c = p.start + p.cap /\ a + c - 1 = p.start + p.cap - 1
  <2>1. p.start \in Nat /\ p.cap \in Nat /\ p.len \in Nat /\ p.len <= p.cap /\ p.len > 0
    BY <1>1
  <2>2. a \in Nat /\ c \in Nat /\ n \in 0 .. c
    BY <2>1
  <2>3. a + c = p.start + p.cap
    BY <2>1
  <2>4. a + c - 1 = p.start + p.cap - 1
    BY <2>1
  <2> QED BY <2>2, <2>3, <2>4
<1>5. ASSUME NEW i \in 0 .. p.start + p.cap - 1, i < a \/ i >= a + n
      PROVE  p.slots[i] = Hole
  <2>1. CASE i = p.start
    <3>1. p.start + 0 = i
      BY <1>1, <2>1
    <3> QED BY <3>1 DEF At
  <2>2. CASE i # p.start
    <3>1. i < p.start \/ i >= p.start + p.len
      BY <1>1, <1>5, <2>2
    <3> QED BY <1>1, <3>1
  <2> QED BY <2>1, <2>2
<1> HIDE DEF a, c, n
<1>6. /\ a + c <= MaxSlots /\ p.slots \in [0 .. a + c - 1 -> Cell]
      /\ \A i \in 0 .. a + c - 1 : i < a \/ i >= a + n => p.slots[i] = Hole
  BY <1>1, <1>4, <1>5
<1>7. Sound(q)
  BY <1>1, <1>2, <1>4, <1>6, FieldsSound
<1>8. ASSUME NEW k \in 0 .. p.len - 2 PROVE At(q, k) = At(p, k + 1)
  <2>1. p.start \in Int /\ k \in Int
    BY <1>1
  <2>2. a + k = p.start + (k + 1)
    BY <2>1 DEF a
  <2> QED BY <1>3, <2>2 DEF At
<1> QED BY <1>3, <1>7, <1>8 DEF q, n

\* The last slot of the gap, a hole, taken into the window.
LEMMA WidenedSound ==
    ASSUME NEW p, Sound(p), p.start > 0
    PROVE  LET q == Rewindowed(p, p.start - 1, p.cap + 1, p.len + 1)
           IN  /\ Sound(q) /\ q.start = p.start - 1 /\ q.len = p.len + 1
               /\ At(q, 0) = Hole /\ \A k \in 0 .. p.len - 1 : At(q, k + 1) = At(p, k)
<1> DEFINE q == Rewindowed(p, p.start - 1, p.cap + 1, p.len + 1)
           a == p.start - 1
           c == p.cap + 1
           n == p.len + 1
<1>1. /\ p.start \in Nat /\ p.cap \in Nat /\ p.len \in 0 .. p.cap
      /\ p.start + p.cap <= MaxSlots
      /\ p.slots \in [0 .. p.start + p.cap - 1 -> Cell] /\ p.dropped \in SUBSET Value
      /\ p = Fields(p.slots, p.start, p.len, p.cap, p.dropped)
      /\ \A i \in 0 .. p.start + p.cap - 1 : i < p.start \/ i >= p.start + p.len => p.slots[i] = Hole
  BY SoundFields
<1>2. q = Fields(p.slots, a, n, c, p.dropped)
  <2> HIDE DEF a, c, n
  <2> QED BY <1>1, RewindowedFields DEF a, c, n
<1> HIDE DEF q
<1>3. q.slots = p.slots /\ q.start = a /\ q.len = n
  BY <1>2, FieldsAre
<1>4. a \in Nat /\ c \in Nat /\ n \in 0 .. c /\ a + c = p.start + p.cap /\ a + c - 1 = p.start + p.cap - 1
  <2>1. p.start \in Nat /\ p.cap \in Nat /\ p.len \in 0 .. p.cap
    BY <1>1
  <2>2. a \in Nat /\ c \in Nat /\ n \in 0 .. c
    BY <2>1
  <2>3. a + c = p.start + p.cap /\ a + c - 1 = p.start + p.cap - 1
    BY <2>1
  <2> QED BY <2>2, <2>3
<1>5. ASSUME NEW i \in 0 .. p.start + p.cap - 1, i < a \/ i >= a + n
      PROVE  p.slots[i] = Hole
  <2>1. i < p.start \/ i >= p.start + p.len
    BY <1>1, <1>5
  <2> QED BY <1>1, <2>1
<1>6. a \in 0 .. p.start + p.cap - 1 /\ a < p.start /\ a + 0 = a
  BY <1>1
<1> HIDE DEF a, c, n
<1>7. /\ a + c <= MaxSlots /\ p.slots \in [0 .. a + c - 1 -> Cell]
      /\ \A i \in 0 .. a + c - 1 : i < a \/ i >= a + n => p.slots[i] = Hole
  BY <1>1, <1>4, <1>5
<1>8. Sound(q)
  BY <1>1, <1>2, <1>4, <1>7, FieldsSound
<1>9. At(q, 0) = Hole
  BY <1>1, <1>3, <1>6 DEF At
<1>10. ASSUME NEW k \in 0 .. p.len - 1 PROVE At(q, k + 1) = At(p, k)
  <2>1. p.start \in Int /\ k \in Int
    BY <1>1
  <2>2. a + (k + 1) = p.start + k
    BY <2>1 DEF a
  <2> QED BY <1>3, <2>2 DEF At
<1> QED BY <1>3, <1>8, <1>9, <1>10 DEF q, a, n

\* The window cleared: every slot is a hole, and what it held is dropped.
LEMMA ClearedSound ==
    ASSUME NEW p, Sound(p)
    PROVE  LET q == Assigned(p, Window(p), Hole)
           IN  /\ Sound(q) /\ q.len = p.len /\ ValuesIn(p.slots, Window(p)) \subseteq q.dropped
               /\ \A k \in 0 .. p.len - 1 : At(q, k) = Hole
<1> DEFINE q == Assigned(p, Window(p), Hole)
           s == Patched(p.slots, Window(p), Hole)
           d == p.dropped \cup ValuesIn(p.slots, Window(p))
           T == 0 .. p.start + p.cap - 1
<1>1. /\ p.start \in Nat /\ p.cap \in Nat /\ p.len \in 0 .. p.cap
      /\ p.start + p.cap <= MaxSlots
      /\ p.slots \in [T -> Cell] /\ p.dropped \in SUBSET Value
      /\ p = Fields(p.slots, p.start, p.len, p.cap, p.dropped)
      /\ \A i \in T : i < p.start \/ i >= p.start + p.len => p.slots[i] = Hole
      /\ \A k \in 0 .. p.len - 1 : p.start + k \in T
  BY SoundFields
<1>2. q = Fields(s, p.start, p.len, p.cap, d)
  BY <1>1, AssignedFields
<1>3. \A i \in T : s[i] = Hole
  <2> SUFFICES ASSUME NEW i \in T PROVE s[i] = Hole
    OBVIOUS
  <2>1. CASE i \in Window(p)
    BY <1>1, <2>1 DEF Patched
  <2>2. CASE i \notin Window(p)
    <3>1. i < p.start \/ i >= p.start + p.len
      BY <1>1, <2>2 DEF Window
    <3> QED BY <1>1, <2>2, <3>1 DEF Patched
  <2> QED BY <2>1, <2>2
<1>4. s \in [T -> Cell]
  <2>1. Hole \in Cell /\ DOMAIN p.slots = T
    BY <1>1 DEF Cell
  <2>2. \A i \in T : (IF i \in Window(p) THEN Hole ELSE p.slots[i]) \in Cell
    BY <1>1, <2>1
  <2> QED BY <2>1, <2>2 DEF Patched
<1>5. d \in SUBSET Value
  BY <1>1 DEF ValuesIn
<1> HIDE DEF q, s
<1>6. q.slots = s /\ q.start = p.start /\ q.len = p.len /\ q.dropped = d
  BY <1>2, FieldsAre
<1> HIDE DEF d
<1>7. Sound(q)
  BY <1>1, <1>2, <1>3, <1>4, <1>5, FieldsSound
<1>8. \A k \in 0 .. p.len - 1 : At(q, k) = Hole
  BY <1>1, <1>3, <1>6 DEF At
<1> QED BY <1>6, <1>7, <1>8 DEF q, d

-----------------------------------------------------------------------------
(* The list a geometry stands for.                                         *)

Elements(p) == [k \in 1 .. p.len |-> p.slots[p.start + k - 1]]

LEMMA ElementsAre ==
    ASSUME NEW p, Sound(p)
    PROVE  /\ Elements(p) \in Seq(Cell) /\ Len(Elements(p)) = p.len /\ p.len \in Nat
           /\ \A k \in 1 .. p.len : Elements(p)[k] = At(p, k - 1)
           /\ \A k \in 0 .. p.len - 1 : Elements(p)[k + 1] = At(p, k)
<1> DEFINE e == Elements(p)
<1>1. p.start \in Nat /\ p.len \in Nat /\ \A k \in 0 .. p.len - 1 : At(p, k) \in Cell
  BY SoundFields
<1>2. \A k \in 1 .. p.len : k - 1 \in 0 .. p.len - 1 /\ e[k] = At(p, k - 1)
  BY <1>1 DEF Elements, At
<1>3. e \in [1 .. p.len -> Cell]
  <2>1. e = [k \in 1 .. p.len |-> e[k]]
    BY DEF Elements
  <2>2. \A k \in 1 .. p.len : e[k] \in Cell
    BY <1>1, <1>2
  <2> HIDE DEF e
  <2> QED BY <2>1, <2>2
<1> HIDE DEF e
<1>4. e \in Seq(Cell) /\ Len(e) = p.len
  <2>1. e \in Seq(Cell)
    BY <1>1, <1>3, SeqDef
  <2>2. DOMAIN e = 1 .. p.len /\ DOMAIN e = 1 .. Len(e) /\ Len(e) \in Nat
    BY <1>3, <2>1, LenProperties
  <2> QED BY <1>1, <2>1, <2>2
<1>5. \A k \in 0 .. p.len - 1 : e[k + 1] = At(p, k)
  <2> SUFFICES ASSUME NEW k \in 0 .. p.len - 1 PROVE e[k + 1] = At(p, k)
    OBVIOUS
  <2>1. k + 1 \in 1 .. p.len /\ (k + 1) - 1 = k
    BY <1>1
  <2> QED BY <1>2, <2>1
<1> QED BY <1>1, <1>2, <1>4, <1>5 DEF e

\* A sequence with a geometry's elements is its list.
LEMMA ListOfElements ==
    ASSUME NEW p, Sound(p), NEW s \in Seq(Cell), Len(s) = p.len,
           \A k \in 1 .. p.len : s[k] = At(p, k - 1)
    PROVE  Elements(p) = s
<1>1. /\ Elements(p) \in Seq(Cell) /\ Len(Elements(p)) = Len(s)
      /\ \A k \in 1 .. Len(Elements(p)) : Elements(p)[k] = s[k]
  BY ElementsAre
<1> DEFINE e == Elements(p)
<1> HIDE DEF e
<1>2. e \in Seq(Cell) /\ Len(e) = Len(s) /\ \A k \in 1 .. Len(e) : e[k] = s[k]
  BY <1>1 DEF e
<1>3. e = s
  BY <1>2, SeqEqual
<1> QED BY <1>3 DEF e

LEMMA SameList ==
    ASSUME NEW p, NEW q, Sound(p), Sound(q), SameElements(p, q)
    PROVE  Elements(q) = Elements(p)
<1> DEFINE s == Elements(p)
<1>1. s \in Seq(Cell) /\ Len(s) = p.len /\ p.len \in Nat /\ \A k \in 1 .. p.len : s[k] = At(p, k - 1)
  BY ElementsAre
<1> HIDE DEF s
<1>2. q.len = p.len /\ \A k \in 1 .. q.len : s[k] = At(q, k - 1)
  <2> SUFFICES ASSUME NEW k \in 1 .. p.len PROVE q.len = p.len /\ s[k] = At(q, k - 1)
    BY DEF SameElements
  <2>1. k - 1 \in 0 .. p.len - 1
    BY <1>1
  <2> QED BY <1>1, <2>1 DEF SameElements
<1>3. Elements(q) = s
  BY <1>1, <1>2, ListOfElements
<1> QED BY <1>3 DEF s

\* e with holes up to n, as PerlList has it.
HolesTo(e, n) == [k \in 1 .. (IF n > Len(e) THEN n ELSE Len(e)) |-> IF k <= Len(e) THEN e[k] ELSE Hole]

LEMMA ReplacedList ==
    ASSUME NEW p, Sound(p), NEW q, NEW i \in 0 .. p.len - 1, NEW x \in Cell, NEW d, Replaced(p, q, i, x, d)
    PROVE  Elements(q) = [Elements(p) EXCEPT ![i + 1] = x]
<1> DEFINE e == Elements(p)
           s == [e EXCEPT ![i + 1] = x]
<1>1. e \in Seq(Cell) /\ Len(e) = p.len /\ p.len \in Nat /\ \A k \in 1 .. p.len : e[k] = At(p, k - 1)
  BY ElementsAre
<1> HIDE DEF e
<1>2. i + 1 \in 1 .. Len(e)
  BY <1>1
<1>3. s \in Seq(Cell) /\ Len(s) = Len(e) /\ \A k \in 1 .. Len(e) : s[k] = IF k = i + 1 THEN x ELSE e[k]
  <2> DEFINE m == i + 1
  <2> HIDE DEF m
  <2>1. m \in 1 .. Len(e)
    BY <1>2 DEF m
  <2>2. /\ [e EXCEPT ![m] = x] \in Seq(Cell) /\ Len([e EXCEPT ![m] = x]) = Len(e)
        /\ \A k \in 1 .. Len(e) : [e EXCEPT ![m] = x][k] = IF k = m THEN x ELSE e[k]
    BY <1>1, <2>1, ExceptSeq
  <2> QED BY <2>2 DEF m
<1> HIDE DEF s
<1>4. Sound(q) /\ q.len = p.len
  BY DEF Replaced
<1>5. ASSUME NEW k \in 1 .. p.len PROVE s[k] = At(q, k - 1)
  <2>1. k - 1 \in 0 .. p.len - 1 /\ k \in 1 .. Len(e)
    BY <1>1
  <2>2. CASE k = i + 1
    <3>1. k - 1 = i
      BY <2>2
    <3> QED BY <1>3, <2>1, <2>2, <3>1 DEF Replaced
  <2>3. CASE k # i + 1
    <3>1. k - 1 # i
      BY <2>3
    <3>2. At(q, k - 1) = At(p, k - 1)
      BY <2>1, <3>1 DEF Replaced
    <3> QED BY <1>1, <1>3, <2>1, <2>3, <3>2
  <2> QED BY <2>2, <2>3
<1>6. Elements(q) = s
  BY <1>1, <1>3, <1>4, <1>5, ListOfElements
<1> QED BY <1>6 DEF s, e

LEMMA StretchedList ==
    ASSUME NEW p, Sound(p), NEW q, NEW i \in Nat, Stretches(p, q, i)
    PROVE  Elements(q) = HolesTo(Elements(p), i + 1)
<1> DEFINE e == Elements(p)
           n == IF i + 1 > Len(e) THEN i + 1 ELSE Len(e)
           s == HolesTo(e, i + 1)
<1>1. e \in Seq(Cell) /\ Len(e) = p.len /\ p.len \in Nat /\ \A k \in 1 .. p.len : e[k] = At(p, k - 1)
  BY ElementsAre
<1> HIDE DEF e
<1>2. Sound(q) /\ q.len = n /\ n \in Nat
  BY <1>1 DEF Stretches
<1>3. \A k \in 1 .. n : s[k] = IF k <= p.len THEN e[k] ELSE Hole
  BY <1>1 DEF HolesTo
<1>4. \A k \in 1 .. n : s[k] = At(q, k - 1)
  <2> SUFFICES ASSUME NEW k \in 1 .. n PROVE s[k] = At(q, k - 1)
    OBVIOUS
  <2> HIDE DEF s, n
  <2>1. k \in Int /\ k - 1 \in 0 .. q.len - 1 /\ (k <= p.len <=> k - 1 < p.len)
    BY <1>1, <1>2
  <2>2. At(q, k - 1) = IF k - 1 < p.len THEN At(p, k - 1) ELSE Hole
    BY <2>1 DEF Stretches
  <2>3. CASE k <= p.len
    <3>1. k \in 1 .. p.len
      BY <1>1, <2>1, <2>3
    <3> QED BY <1>1, <1>3, <2>1, <2>2, <2>3, <3>1
  <2>4. CASE ~(k <= p.len)
    BY <1>3, <2>1, <2>2, <2>4
  <2> QED BY <2>3, <2>4
<1>5. s \in Seq(Cell) /\ Len(s) = n
  <2>1. s = [k \in 1 .. n |-> s[k]]
    BY DEF HolesTo
  <2> HIDE DEF s, n
  <2>2. \A k \in 1 .. n : s[k] \in Cell
    <3> SUFFICES ASSUME NEW k \in 1 .. n PROVE s[k] \in Cell
      OBVIOUS
    <3>1. k - 1 \in 0 .. q.len - 1
      BY <1>2
    <3> QED BY <1>2, <1>4, <3>1, SoundFields
  <2>3. s \in [1 .. n -> Cell]
    BY <2>1, <2>2
  <2>4. s \in Seq(Cell)
    BY <1>2, <2>3, SeqDef
  <2>5. DOMAIN s = 1 .. n /\ DOMAIN s = 1 .. Len(s) /\ Len(s) \in Nat
    BY <2>3, <2>4, LenProperties
  <2> QED BY <1>2, <2>4, <2>5
<1> HIDE DEF s, n
<1>6. Elements(q) = s
  BY <1>2, <1>4, <1>5, ListOfElements
<1> QED BY <1>6 DEF s, e

\* A push stretches the list by one and assigns the new element.
LEMMA AppendedList ==
    ASSUME NEW e \in Seq(Cell), NEW x \in Cell
    PROVE  [HolesTo(e, Len(e) + 1) EXCEPT ![Len(e) + 1] = x] = Append(e, x)
<1> DEFINE n == Len(e)
           h == HolesTo(e, n + 1)
           s == [h EXCEPT ![n + 1] = x]
           a == Append(e, x)
<1>1. n \in Nat /\ \A k \in 1 .. n : e[k] \in Cell
  BY LenProperties, ElementOfSeq
<1>2. /\ a \in Seq(Cell) /\ Len(a) = n + 1 /\ a[n + 1] = x
      /\ \A k \in 1 .. n : a[k] = e[k]
  BY AppendProperties
<1>3. h = [k \in 1 .. n + 1 |-> IF k <= n THEN e[k] ELSE Hole]
  <2>1. (IF n + 1 > n THEN n + 1 ELSE n) = n + 1
    BY <1>1
  <2> QED BY <2>1 DEF HolesTo
<1>4. \A k \in 1 .. n + 1 : h[k] \in Cell
  BY <1>1, <1>3 DEF Cell
<1> HIDE DEF n, h, a
<1>5. DOMAIN h = 1 .. n + 1
  BY <1>3
<1>6. s = [k \in 1 .. n + 1 |-> IF k = n + 1 THEN x ELSE h[k]]
  BY <1>3
<1>7. \A k \in 1 .. n + 1 : s[k] = a[k]
  <2> SUFFICES ASSUME NEW k \in 1 .. n + 1 PROVE s[k] = a[k]
    OBVIOUS
  <2>1. CASE k = n + 1
    BY <1>2, <1>6, <2>1
  <2>2. CASE k # n + 1
    <3>1. k \in 1 .. n /\ k <= n
      BY <1>1, <2>2
    <3> QED BY <1>2, <1>3, <1>6, <2>2, <3>1
  <2> QED BY <2>1, <2>2
<1>8. a = [k \in 1 .. n + 1 |-> a[k]]
  <2>1. a \in [1 .. n + 1 -> Cell]
    BY <1>2, LenProperties
  <2> QED BY <2>1
<1>9. s = a
  <2>1. s = [k \in 1 .. n + 1 |-> s[k]]
    BY <1>6
  <2> HIDE DEF s
  <2> QED BY <1>7, <1>8, <2>1
<1> QED BY <1>9 DEF s, h, n, a

\* A window of the same elements after another.
LEMMA PrependedList ==
    ASSUME NEW p, NEW q, Sound(p), Sound(q), NEW x \in Cell, q.len = p.len + 1, At(q, 0) = x,
           \A k \in 0 .. p.len - 1 : At(q, k + 1) = At(p, k)
    PROVE  Elements(q) = <<x>> \o Elements(p)
<1> DEFINE e == Elements(p)
           s == <<x>> \o e
           o == <<x>>
<1>1. e \in Seq(Cell) /\ Len(e) = p.len /\ p.len \in Nat /\ \A k \in 1 .. p.len : e[k] = At(p, k - 1)
  BY ElementsAre
<1>2. o \in Seq(Cell) /\ Len(o) = 1 /\ o[1] = x
  OBVIOUS
<1> HIDE DEF e, o
<1>3. /\ o \o e \in Seq(Cell) /\ Len(o \o e) = Len(o) + Len(e)
      /\ \A i \in 1 .. Len(o) + Len(e) : (o \o e)[i] = IF i <= Len(o) THEN o[i] ELSE e[i - Len(o)]
  BY <1>1, <1>2, ConcatProperties
<1>4. s = o \o e
  BY DEF o
<1> HIDE DEF s
<1>5. s \in Seq(Cell) /\ Len(s) = q.len
  BY <1>1, <1>2, <1>3, <1>4
<1>6. ASSUME NEW k \in 1 .. q.len PROVE s[k] = At(q, k - 1)
  <2>1. s[k] = IF k <= 1 THEN o[k] ELSE e[k - 1]
    BY <1>1, <1>2, <1>3, <1>4, <1>6
  <2>2. CASE k = 1
    <3>1. k - 1 = 0 /\ k <= 1
      BY <2>2
    <3> QED BY <1>2, <2>1, <2>2, <3>1
  <2>3. CASE k # 1
    <3>1. ~(k <= 1) /\ k - 1 \in 1 .. p.len
      BY <1>1, <1>6, <2>3
    <3>2. (k - 1) - 1 \in 0 .. p.len - 1 /\ ((k - 1) - 1) + 1 = k - 1
      BY <1>1, <3>1
    <3>3. At(q, ((k - 1) - 1) + 1) = At(p, (k - 1) - 1)
      BY <3>2
    <3>4. e[k - 1] = At(p, (k - 1) - 1)
      BY <1>1, <3>1
    <3> QED BY <2>1, <3>1, <3>2, <3>3, <3>4
  <2> QED BY <2>2, <2>3
<1>7. Elements(q) = s
  BY <1>5, <1>6, ListOfElements
<1> QED BY <1>7 DEF s, e

\* A window of fewer elements from the same first.
LEMMA PrefixList ==
    ASSUME NEW p, NEW q, Sound(p), Sound(q), q.len \in 0 .. p.len,
           \A k \in 0 .. q.len - 1 : At(q, k) = At(p, k)
    PROVE  Elements(q) = SubSeq(Elements(p), 1, q.len)
<1> DEFINE e == Elements(p)
           n == q.len
           s == SubSeq(e, 1, n)
<1>1. e \in Seq(Cell) /\ Len(e) = p.len /\ p.len \in Nat /\ \A k \in 1 .. p.len : e[k] = At(p, k - 1)
  BY ElementsAre
<1>2. \A k \in 1 .. p.len : e[k] \in Cell
  BY <1>1, ElementOfSeq
<1> HIDE DEF e, n
<1>3. n \in Int /\ n \in 0 .. p.len /\ \A k \in 1 .. n : e[k] \in Cell
  BY <1>1, <1>2 DEF n
<1>4. /\ s \in Seq(Cell) /\ Len(s) = (IF 1 <= n THEN n - 1 + 1 ELSE 0)
      /\ \A k \in 1 .. n - 1 + 1 : s[k] = e[1 + k - 1]
  BY <1>3, SubSeqProperties
<1> HIDE DEF s
<1>5. Len(s) = n /\ \A k \in 1 .. n : s[k] = e[k]
  <2>1. n - 1 + 1 = n /\ \A k \in 1 .. n : 1 + k - 1 = k
    BY <1>3
  <2>2. Len(s) = n
    BY <1>3, <1>4, <2>1
  <2> QED BY <1>4, <2>1, <2>2
<1>6. ASSUME NEW k \in 1 .. n PROVE s[k] = At(q, k - 1)
  <2>1. k \in 1 .. p.len /\ k - 1 \in 0 .. n - 1
    BY <1>1, <1>3, <1>6
  <2> QED BY <1>1, <1>5, <2>1 DEF n
<1>7. Elements(q) = s
  BY <1>4, <1>5, <1>6, ListOfElements DEF n
<1> QED BY <1>7 DEF s, e, n

\* A window without its first element.
LEMMA TailList ==
    ASSUME NEW p, NEW q, Sound(p), Sound(q), p.len > 0, q.len = p.len - 1,
           \A k \in 0 .. p.len - 2 : At(q, k) = At(p, k + 1)
    PROVE  Elements(q) = Tail(Elements(p))
<1> DEFINE e == Elements(p)
           s == Tail(e)
<1>1. e \in Seq(Cell) /\ Len(e) = p.len /\ p.len \in Nat /\ \A k \in 1 .. p.len : e[k] = At(p, k - 1)
  BY ElementsAre
<1> HIDE DEF e
<1>2. e # <<>>
  BY <1>1, EmptySeq
<1>3. s \in Seq(Cell) /\ Len(s) = q.len /\ \A k \in 1 .. q.len : s[k] = e[k + 1]
  BY <1>1, <1>2, HeadTailProperties
<1> HIDE DEF s
<1>4. ASSUME NEW k \in 1 .. q.len PROVE s[k] = At(q, k - 1)
  <2>1. k - 1 \in 0 .. p.len - 2 /\ (k - 1) + 1 = k /\ k + 1 \in 1 .. p.len /\ (k + 1) - 1 = k
    BY <1>1, <1>4
  <2>2. At(q, k - 1) = At(p, k)
    BY <2>1
  <2>3. e[k + 1] = At(p, k)
    BY <1>1, <2>1
  <2> QED BY <1>3, <2>2, <2>3
<1>5. Elements(q) = s
  BY <1>3, <1>4, ListOfElements
<1> QED BY <1>5 DEF s, e

LEMMA NoElements ==
    ASSUME NEW p, Sound(p)
    PROVE  /\ (p.len = 0) <=> (Elements(p) = <<>>)
<1> DEFINE e == Elements(p)
<1>1. e \in Seq(Cell) /\ Len(e) = p.len
  BY ElementsAre
<1> HIDE DEF e
<1>2. (p.len = 0) <=> (e = <<>>)
  BY <1>1, EmptySeq
<1> QED BY <1>2 DEF e

\* What is left of the window when the holes at its end go.
Kept(p) == {n \in 0 .. p.len : \A k \in n .. p.len - 1 : At(p, k) = Hole}
Least(p) == CHOOSE n \in Kept(p) : \A m \in Kept(p) : n <= m

LEMMA LeastIs ==
    ASSUME NEW p, Sound(p)
    PROVE  Least(p) \in Kept(p) /\ \A m \in Kept(p) : Least(p) <= m
<1>1. p.len \in Nat
  BY SoundFields
<1>2. p.len \in Kept(p) /\ Kept(p) \subseteq Nat
  BY <1>1 DEF Kept
<1>3. PICK n \in Kept(p) : \A m \in Kept(p) : <<m, n>> \notin OpToRel(<, Nat)
  BY <1>2, NatLessThanWellFounded, WFMin
<1>4. \A m \in Kept(p) : n <= m
  <2> HIDE DEF Kept
  <2>1. \A m \in Kept(p) : ~(m < n)
    BY <1>2, <1>3 DEF OpToRel
  <2> QED BY <1>2, <2>1
<1> QED BY <1>3, <1>4 DEF Least

\* The list without the holes at its end, as PerlList has it.
LEMMA TrimmedList ==
    ASSUME NEW p, Sound(p)
    PROVE  L!Trimmed(Elements(p)) = SubSeq(Elements(p), 1, Least(p))
<1> DEFINE e == Elements(p)
           n == Least(p)
           occupied == {k \in 1 .. Len(e) : e[k] # Hole}
           last == IF occupied = {} THEN 0 ELSE CHOOSE k \in occupied : \A j \in occupied : j <= k
<1>1. Len(e) = p.len /\ p.len \in Nat /\ \A k \in 1 .. p.len : e[k] = At(p, k - 1)
  BY ElementsAre
<1>2. n \in 0 .. p.len /\ (\A k \in n .. p.len - 1 : At(p, k) = Hole) /\ \A m \in Kept(p) : n <= m
  BY LeastIs DEF Kept
<1> HIDE DEF e, n
<1>3. \A k \in occupied : k \in 1 .. p.len /\ k <= n
  <2> SUFFICES ASSUME NEW k \in 1 .. p.len, e[k] # Hole, ~(k <= n) PROVE FALSE
    BY <1>1
  <2>1. k - 1 \in n .. p.len - 1
    BY <1>1, <1>2
  <2> QED BY <1>1, <1>2, <2>1
<1>4. n > 0 => n \in occupied
  <2> SUFFICES ASSUME n > 0, e[n] = Hole PROVE FALSE
    BY <1>1, <1>2
  <2>1. n \in 1 .. p.len /\ n - 1 \in 0 .. p.len
    BY <1>1, <1>2
  <2>2. \A k \in n - 1 .. p.len - 1 : At(p, k) = Hole
    <3> SUFFICES ASSUME NEW k \in n - 1 .. p.len - 1 PROVE At(p, k) = Hole
      OBVIOUS
    <3>1. CASE k = n - 1
      BY <1>1, <2>1, <3>1
    <3>2. CASE k # n - 1
      <4>1. k \in n .. p.len - 1
        BY <1>1, <2>1, <3>2
      <4> QED BY <1>2, <4>1
    <3> QED BY <3>1, <3>2
  <2>3. n - 1 \in Kept(p)
    BY <2>1, <2>2 DEF Kept
  <2> QED BY <1>2, <2>1, <2>3
<1>5. last = n
  <2> HIDE DEF occupied
  <2>1. CASE occupied = {}
    BY <1>2, <1>4, <2>1
  <2>2. CASE occupied # {}
    <3>1. n > 0
      BY <1>2, <1>3, <2>2
    <3>2. n \in occupied /\ \A j \in occupied : j <= n
      BY <1>3, <1>4, <3>1
    <3>3. \A k \in occupied : (\A j \in occupied : j <= k) => k = n
      BY <1>2, <1>3, <3>2
    <3>4. (CHOOSE k \in occupied : \A j \in occupied : j <= k) = n
      BY <3>2, <3>3
    <3> QED BY <2>2, <3>4
  <2> QED BY <2>1, <2>2
<1>6. L!Trimmed(e) = SubSeq(e, 1, last)
  BY DEF L!Trimmed
<1>7. L!Trimmed(e) = SubSeq(e, 1, n)
  <2> HIDE DEF last
  <2> QED BY <1>5, <1>6
<1> QED BY <1>7 DEF e, n

-----------------------------------------------------------------------------
(* The steps.                                                              *)

\* What a geometry stored back is.
Emptied(p) == [p EXCEPT !.dropped = {}]

LEMMA EmptiedSound ==
    ASSUME NEW p, Sound(p)
    PROVE  /\ Sound(Emptied(p)) /\ SameElements(p, Emptied(p)) /\ Emptied(p).dropped = {}
           /\ Emptied(p).start = p.start /\ Emptied(p).len = p.len /\ Emptied(p).cap = p.cap
<1> DEFINE q == Emptied(p)
<1>1. /\ p.start \in Nat /\ p.cap \in Nat /\ p.len \in 0 .. p.cap
      /\ p.start + p.cap <= MaxSlots
      /\ p.slots \in [0 .. p.start + p.cap - 1 -> Cell]
      /\ p = Fields(p.slots, p.start, p.len, p.cap, p.dropped)
      /\ \A i \in 0 .. p.start + p.cap - 1 : i < p.start \/ i >= p.start + p.len => p.slots[i] = Hole
  BY SoundFields
<1>2. q = Fields(p.slots, p.start, p.len, p.cap, {})
  <2>1. Emptied(Fields(p.slots, p.start, p.len, p.cap, p.dropped)) = Fields(p.slots, p.start, p.len, p.cap, {})
    BY DEF Emptied, Fields
  <2> QED BY <1>1, <2>1
<1> HIDE DEF q
<1>3. q.slots = p.slots /\ q.start = p.start /\ q.len = p.len /\ q.cap = p.cap /\ q.dropped = {}
  BY <1>2, FieldsAre
<1>4. Sound(q)
  <2>1. {} \in SUBSET Value
    OBVIOUS
  <2> QED BY <1>1, <1>2, <2>1, FieldsSound
<1>5. SameElements(p, q)
  BY <1>3 DEF SameElements, At
<1> QED BY <1>3, <1>4, <1>5 DEF q

\* Every value of p's window is in q's, was dropped, or goes out.
Keeps(p, q, out) ==
    \A k \in 0 .. p.len - 1 :
        \/ At(p, k) \notin Value \/ At(p, k) \in q.dropped \cup out
        \/ \E j \in 0 .. q.len - 1 : At(q, j) = At(p, k)

Holds(q, in) == \A v \in in : v \in Value /\ \E j \in 0 .. q.len - 1 : At(q, j) = v

Reports == Value \cup {Undef, "ok", "ReadOnly", "AllocError"}

\* An operation that stores a sound geometry back.
LEMMA Stored ==
    ASSUME IInv, NEW q, NEW in, NEW out, NEW r, WithParts(q, in, out, r),
           Sound(q), Keeps(array, q, out), Holds(q, in), r \in Reports
    PROVE  IInv' /\ Elements(array') = Elements(q) /\ result' = r /\ readonly' = readonly
<1>1. /\ array' = Emptied(q) /\ large' = (large \/ ~Fits(q))
      /\ live' = ((live \ q.dropped) \ out) \cup in
      /\ result' = r /\ readonly' = readonly
  BY DEF WithParts, Store, Emptied
<1>2. /\ Sound(array') /\ SameElements(q, array') /\ array'.dropped = {}
      /\ array'.start = q.start /\ array'.len = q.len /\ array'.cap = q.cap
  BY <1>1, EmptiedSound
<1>3. Elements(array') = Elements(q)
  BY <1>2, SameList
<1>4. ValuesIn(array'.slots, Window(array')) = {v \in Value : \E k \in 0 .. q.len - 1 : At(q, k) = v}
  <2>1. Geometry(q) /\ Geometry(array')
    BY <1>2 DEF Sound
  <2> QED BY <1>2, <2>1, SameValues, WindowValues
<1>5. ValuesIn(array.slots, Window(array)) = {v \in Value : \E k \in 0 .. array.len - 1 : At(array, k) = v}
  BY WindowValues DEF IInv, Sound
<1>6. \A v \in live' : v \in Value /\ \E k \in 0 .. q.len - 1 : At(q, k) = v
  <2> SUFFICES ASSUME NEW v \in live' PROVE v \in Value /\ \E k \in 0 .. q.len - 1 : At(q, k) = v
    OBVIOUS
  <2>1. CASE v \in in
    BY <2>1 DEF Holds
  <2>2. CASE v \notin in
    <3>1. v \in live /\ v \notin q.dropped \cup out
      BY <1>1, <2>2
    <3>2. PICK k \in 0 .. array.len - 1 : At(array, k) = v
      BY <1>5, <3>1 DEF IInv, NothingLost
    <3>3. v \in Value
      BY <3>1 DEF IInv
    <3> QED BY <3>1, <3>2, <3>3 DEF Keeps
  <2> QED BY <2>1, <2>2
<1>7. (live \subseteq Value)' /\ NothingLost'
  BY <1>4, <1>6 DEF NothingLost
<1>8. large' \in BOOLEAN /\ (~large' => array'.start <= Narrow /\ array'.len <= Narrow /\ array'.cap <= Narrow)
  BY <1>1, <1>2 DEF IInv, Fits
<1>9. readonly' \in BOOLEAN /\ result' \in Reports
  BY <1>1 DEF IInv
<1> QED BY <1>1, <1>2, <1>3, <1>7, <1>8, <1>9 DEF IInv, Reports

\* The list PerlArray's window is, seen by PerlList's operations.
LEMMA ListBecomes ==
    ASSUME NEW s, NEW r, ~readonly, Elements(array') = s, result' = r, readonly' = readonly
    PROVE  L!Becomes(s, r)
BY DEF L!Becomes, Elements

LEMMA KeptWhereSame ==
    ASSUME NEW p, NEW q, SameElements(p, q)
    PROVE  Keeps(p, q, {})
BY DEF Keeps, SameElements

\* An allocation that fails leaves the list as it was.
LEMMA Refused ==
    ASSUME IInv, NEW q, Sound(q), SameElements(array, q), ~readonly,
           WithParts(q, {}, {}, "AllocError")
    PROVE  IInv' /\ L!OutOfMemory
<1>1. Keeps(array, q, {}) /\ Holds(q, {})
  BY KeptWhereSame DEF Holds
<1>2. "AllocError" \in Reports
  BY DEF Reports
<1>3. IInv' /\ Elements(array') = Elements(q) /\ result' = "AllocError" /\ readonly' = readonly
  BY <1>1, <1>2, Stored
<1>4. Elements(q) = Elements(array)
  BY SameList DEF IInv
<1>5. L!OutOfMemory
  BY <1>3, <1>4 DEF L!OutOfMemory, Elements
<1> QED BY <1>3, <1>5

\* An element written where the window reaches.
LEMMA Written ==
    ASSUME NEW p, Sound(p), NEW i \in Nat, NEW h, Stretches(p, h, i),
           NEW q, NEW x \in Cell, NEW d, Replaced(h, q, i, x, d),
           At(h, i) \in Value => At(h, i) \in d \cup {x}
    PROVE  /\ Sound(q) /\ Keeps(p, q, {}) /\ At(q, i) = x /\ i \in 0 .. q.len - 1
           /\ Elements(q) = [HolesTo(Elements(p), i + 1) EXCEPT ![i + 1] = x]
<1>1. /\ Sound(h) /\ i \in 0 .. h.len - 1 /\ p.len \in Nat /\ p.len <= h.len /\ h.len \in Nat
      /\ \A k \in 0 .. h.len - 1 : At(h, k) = (IF k < p.len THEN At(p, k) ELSE Hole)
  <2>1. Sound(h) /\ i < h.len /\ h.len = (IF i >= p.len THEN i + 1 ELSE p.len)
    BY DEF Stretches
  <2>2. p.len \in Nat
    BY SoundFields
  <2> QED BY <2>1, <2>2 DEF Stretches
<1>2. /\ Sound(q) /\ q.len = h.len /\ q.dropped = d /\ At(q, i) = x
      /\ \A j \in 0 .. h.len - 1 : j # i => At(q, j) = At(h, j)
  BY DEF Replaced
<1>3. Elements(q) = [Elements(h) EXCEPT ![i + 1] = x]
  BY <1>1, ReplacedList
<1>4. Elements(h) = HolesTo(Elements(p), i + 1)
  BY StretchedList
<1>5. Keeps(p, q, {})
  <2> SUFFICES ASSUME NEW k \in 0 .. p.len - 1, At(p, k) \in Value, At(p, k) \notin d
               PROVE  \E j \in 0 .. q.len - 1 : At(q, j) = At(p, k)
    BY <1>2 DEF Keeps
  <2>1. k \in 0 .. h.len - 1 /\ At(h, k) = At(p, k)
    BY <1>1
  <2>2. CASE k = i
    BY <1>2, <2>1, <2>2
  <2>3. CASE k # i
    BY <1>2, <2>1, <2>3
  <2> QED BY <2>2, <2>3
<1> QED BY <1>1, <1>2, <1>3, <1>4, <1>5

\* PerlList's operations, over the elements.
LEMMA ListOperations ==
    /\ \A n : L!Stretched(n) = HolesTo(Elements(array), n)
    /\ \A x : L!OrUndef(x) = OrUndef(x)
    /\ L!Index = Index
BY DEF L!Stretched, HolesTo, Elements, L!OrUndef, OrUndef, L!Index, Index

LEMMA SetStep ==
    ASSUME IInv, NEW i \in Index, NEW v \in Value, Set(i, v)
    PROVE  IInv' /\ L!Next
<1>1. i \in Nat /\ v \in Cell
  BY PerlArrayAssumption DEF Index, Cell
<1>2. Sound(array) /\ ~readonly
  BY DEF IInv, Set
<1>3. PICK g \in ExtendTo(array, i, "set") :
          IF g[2] THEN WithParts(Assigned(g[1], {g[1].start + i}, v), {v}, {}, "ok")
          ELSE WithParts(g[1], {}, {}, "AllocError")
  BY DEF Set
<1>4. /\ g[2] \in BOOLEAN
      /\ g[2] => Stretches(array, g[1], i)
      /\ ~g[2] => Sound(g[1]) /\ SameElements(array, g[1])
  BY <1>1, <1>2, ExtendToSound
<1>5. CASE ~g[2]
  <2>1. IInv' /\ L!OutOfMemory
    BY <1>2, <1>3, <1>4, <1>5, Refused
  <2> QED BY <2>1 DEF L!Next
<1>6. CASE g[2]
  <2> DEFINE h == g[1]
             q == Assigned(h, {h.start + i}, v)
             d == h.dropped \cup ({At(h, i)} \cap Value)
  <2>1. Stretches(array, h, i) /\ WithParts(q, {v}, {}, "ok")
    BY <1>3, <1>4, <1>6
  <2> HIDE DEF h
  <2>2. Sound(h) /\ i \in 0 .. h.len - 1
    <3>1. Sound(h) /\ i < h.len
      BY <2>1 DEF Stretches
    <3>2. h.len \in Nat
      BY <3>1, SoundFields
    <3> QED BY <1>1, <3>1, <3>2
  <2>3. Replaced(h, q, i, v, d)
    BY <1>1, <2>2, AssignedElement
  <2>4. At(h, i) \in Value => At(h, i) \in d \cup {v}
    OBVIOUS
  <2> HIDE DEF q, d
  <2>5. /\ Sound(q) /\ Keeps(array, q, {}) /\ At(q, i) = v /\ i \in 0 .. q.len - 1
        /\ Elements(q) = [HolesTo(Elements(array), i + 1) EXCEPT ![i + 1] = v]
    BY <1>1, <1>2, <2>1, <2>3, <2>4, Written
  <2>6. Holds(q, {v}) /\ "ok" \in Reports
    BY <2>5 DEF Holds, Reports
  <2>7. IInv' /\ Elements(array') = Elements(q) /\ result' = "ok" /\ readonly' = readonly
    BY <2>1, <2>5, <2>6, Stored
  <2>8. L!Becomes([L!Stretched(i + 1) EXCEPT ![i + 1] = v], "ok")
    <3>1. Elements(array') = [L!Stretched(i + 1) EXCEPT ![i + 1] = v]
      BY <2>5, <2>7, ListOperations
    <3> QED BY <1>2, <2>7, <3>1, ListBecomes
  <2>9. i \in L!Index /\ L!Set(i, v)
    BY <2>8, ListOperations DEF L!Set
  <2> QED BY <2>7, <2>9 DEF L!Next
<1> QED BY <1>4, <1>5, <1>6

LEMMA EnsureStep ==
    ASSUME IInv, "ensure" \notin Operation, NEW i \in Index, EnsureElement(i)
    PROVE  IInv' /\ L!Next
<1>1. i \in Nat
  BY PerlArrayAssumption DEF Index
<1>2. Sound(array) /\ ~readonly
  BY DEF IInv, EnsureElement
<1>3. PICK g \in ExtendTo(array, i, "ensure") :
          g[2] => LET at == g[1].start + i
                  IN  WithParts([g[1] EXCEPT !.slots[at] = OrUndef(@)], {}, {}, "ok")
  BY DEF EnsureElement
<1>4. g[2] /\ Stretches(array, g[1], i)
  BY <1>1, <1>2, ExtendToSound
<1> DEFINE h == g[1]
           x == OrUndef(At(h, i))
           q == Overwritten(h, i, x)
<1>5. Stretches(array, h, i) /\ WithParts(q, {}, {}, "ok")
  BY <1>3, <1>4 DEF Overwritten, At
<1> HIDE DEF h
<1>6. Sound(h) /\ i \in 0 .. h.len - 1
  <2>1. Sound(h) /\ i < h.len
    BY <1>5 DEF Stretches
  <2>2. h.len \in Nat
    BY <2>1, SoundFields
  <2> QED BY <1>1, <2>1, <2>2
<1>7. x \in Cell /\ (At(h, i) \in Value => At(h, i) \in h.dropped \cup {x})
  <2>1. At(h, i) \in Cell
    BY <1>6, SoundFields
  <2> QED BY <2>1, PerlArrayAssumption DEF OrUndef, Cell
<1> HIDE DEF x
<1>8. Replaced(h, q, i, x, h.dropped)
  BY <1>6, <1>7, OverwrittenElement
<1> HIDE DEF q
<1>9. /\ Sound(q) /\ Keeps(array, q, {})
      /\ Elements(q) = [HolesTo(Elements(array), i + 1) EXCEPT ![i + 1] = x]
  <2> DEFINE d == h.dropped
  <2> HIDE DEF d
  <2>1. Replaced(h, q, i, x, d) /\ (At(h, i) \in Value => At(h, i) \in d \cup {x})
    BY <1>7, <1>8 DEF d
  <2> QED BY <1>1, <1>2, <1>5, <1>7, <2>1, Written
<1>10. Holds(q, {}) /\ "ok" \in Reports
  BY DEF Holds, Reports
<1>11. IInv' /\ Elements(array') = Elements(q) /\ result' = "ok" /\ readonly' = readonly
  BY <1>5, <1>9, <1>10, Stored
<1>12. HolesTo(Elements(array), i + 1)[i + 1] = At(h, i)
  <2>1. Elements(h) = HolesTo(Elements(array), i + 1)
    BY <1>1, <1>2, <1>5, StretchedList
  <2>2. Elements(h)[i + 1] = At(h, i)
    BY <1>6, ElementsAre
  <2> QED BY <2>1, <2>2
<1>13. L!Becomes([L!Stretched(i + 1) EXCEPT ![i + 1] = L!OrUndef(@)], "ok")
  <2> DEFINE s == HolesTo(Elements(array), i + 1)
  <2>1. L!Stretched(i + 1) = s /\ L!OrUndef(s[i + 1]) = x
    BY <1>12, ListOperations DEF x
  <2> HIDE DEF s
  <2>2. [L!Stretched(i + 1) EXCEPT ![i + 1] = L!OrUndef(@)] = [s EXCEPT ![i + 1] = x]
    BY <2>1
  <2>3. Elements(array') = [s EXCEPT ![i + 1] = x]
    BY <1>9, <1>11 DEF s
  <2> QED BY <1>2, <1>11, <2>2, <2>3, ListBecomes
<1>14. i \in L!Index /\ L!Ensure(i)
  BY <1>13, ListOperations DEF L!Ensure
<1> QED BY <1>11, <1>14 DEF L!Next

LEMMA PushStep ==
    ASSUME IInv, NEW v \in Value, PushValue(v)
    PROVE  IInv' /\ L!Next
<1> DEFINE i == array.len
<1>1. i \in Nat /\ v \in Cell /\ Sound(array) /\ ~readonly
  BY SoundFields DEF Cell, IInv, PushValue
<1>2. PICK g \in ExtendTo(array, i, "push") :
          IF g[2] THEN WithParts(Assigned(g[1], {g[1].start + i}, v), {v}, {}, "ok")
          ELSE WithParts(g[1], {}, {}, "AllocError")
  BY DEF PushValue
<1> HIDE DEF i
<1>3. /\ g[2] \in BOOLEAN
      /\ g[2] => Stretches(array, g[1], i)
      /\ ~g[2] => Sound(g[1]) /\ SameElements(array, g[1])
  BY <1>1, ExtendToSound
<1>4. CASE ~g[2]
  <2>1. IInv' /\ L!OutOfMemory
    BY <1>1, <1>2, <1>3, <1>4, Refused
  <2> QED BY <2>1 DEF L!Next
<1>5. CASE g[2]
  <2> DEFINE h == g[1]
             q == Assigned(h, {h.start + i}, v)
             d == h.dropped \cup ({At(h, i)} \cap Value)
  <2>1. Stretches(array, h, i) /\ WithParts(q, {v}, {}, "ok")
    BY <1>2, <1>3, <1>5
  <2> HIDE DEF h
  <2>2. Sound(h) /\ i \in 0 .. h.len - 1
    <3>1. Sound(h) /\ i < h.len
      BY <2>1 DEF Stretches
    <3>2. h.len \in Nat
      BY <3>1, SoundFields
    <3> QED BY <1>1, <3>1, <3>2
  <2>3. Replaced(h, q, i, v, d)
    BY <1>1, <2>2, AssignedElement
  <2>4. At(h, i) \in Value => At(h, i) \in d \cup {v}
    OBVIOUS
  <2> HIDE DEF q, d
  <2>5. /\ Sound(q) /\ Keeps(array, q, {}) /\ At(q, i) = v /\ i \in 0 .. q.len - 1
        /\ Elements(q) = [HolesTo(Elements(array), i + 1) EXCEPT ![i + 1] = v]
    BY <1>1, <2>1, <2>3, <2>4, Written
  <2>6. Holds(q, {v}) /\ "ok" \in Reports
    BY <2>5 DEF Holds, Reports
  <2>7. IInv' /\ Elements(array') = Elements(q) /\ result' = "ok" /\ readonly' = readonly
    BY <2>1, <2>5, <2>6, Stored
  <2> DEFINE e == Elements(array)
  <2>8. e \in Seq(Cell) /\ Len(e) = i
    BY <1>1, ElementsAre DEF i
  <2>9. Elements(array') = Append(e, v)
    <3> HIDE DEF e
    <3>1. [HolesTo(e, Len(e) + 1) EXCEPT ![Len(e) + 1] = v] = Append(e, v)
      BY <1>1, <2>8, AppendedList
    <3>2. Elements(q) = [HolesTo(e, i + 1) EXCEPT ![i + 1] = v]
      BY <2>5 DEF e
    <3> QED BY <2>7, <2>8, <3>1, <3>2
  <2>10. L!Becomes(Append(e, v), "ok")
    <3> HIDE DEF e
    <3> QED BY <1>1, <2>7, <2>9, ListBecomes
  <2>11. L!Push(v)
    BY <2>10 DEF L!Push, Elements
  <2> QED BY <2>7, <2>11 DEF L!Next
<1> QED BY <1>3, <1>4, <1>5

\* An element written into the slot opened before the window's.
LEMMA Prepended ==
    ASSUME NEW p, Sound(p), NEW m, Sound(m), m.len = p.len + 1, At(m, 0) = Hole,
           \A k \in 0 .. p.len - 1 : At(m, k + 1) = At(p, k), NEW v \in Value
    PROVE  LET q == Assigned(m, {m.start}, v)
           IN  Sound(q) /\ Keeps(p, q, {}) /\ Holds(q, {v}) /\ Elements(q) = <<v>> \o Elements(p)
<1> DEFINE q == Assigned(m, {m.start}, v)
           d == m.dropped \cup ({At(m, 0)} \cap Value)
<1>1. p.len \in Nat /\ m.start + 0 = m.start /\ 0 \in 0 .. m.len - 1 /\ v \in Cell
  <2>1. p.len \in Nat /\ m.start \in Nat
    BY SoundFields
  <2> QED BY <2>1 DEF Cell
<1>2. Replaced(m, q, 0, v, d)
  <2>1. Replaced(m, Assigned(m, {m.start + 0}, v), 0, v, d)
    <3> HIDE DEF q
    <3> QED BY <1>1, AssignedElement
  <2> QED BY <1>1, <2>1
<1> HIDE DEF q, d
<1>3. Sound(q) /\ q.len = m.len /\ At(q, 0) = v /\ \A j \in 0 .. m.len - 1 : j # 0 => At(q, j) = At(m, j)
  BY <1>2 DEF Replaced
<1>4. \A k \in 0 .. p.len - 1 : k + 1 \in 0 .. q.len - 1 /\ At(q, k + 1) = At(p, k)
  <2> SUFFICES ASSUME NEW k \in 0 .. p.len - 1
               PROVE  k + 1 \in 0 .. q.len - 1 /\ At(q, k + 1) = At(p, k)
    OBVIOUS
  <2>1. k + 1 \in 0 .. m.len - 1 /\ k + 1 # 0
    BY <1>1
  <2> QED BY <1>3, <2>1
<1>5. Keeps(p, q, {})
  BY <1>4 DEF Keeps
<1>6. Holds(q, {v})
  BY <1>1, <1>3 DEF Holds
<1>7. Elements(q) = <<v>> \o Elements(p)
  BY <1>1, <1>3, <1>4, PrependedList
<1> QED BY <1>3, <1>5, <1>6, <1>7 DEF q

LEMMA UnshiftStep ==
    ASSUME IInv, NEW v \in Value, UnshiftValue(v)
    PROVE  IInv' /\ L!Next
<1>1. Sound(array) /\ ~readonly /\ array.start \in Nat
  BY SoundFields DEF IInv, UnshiftValue
<1>2. ASSUME NEW m, Sound(m), m.len = array.len + 1, At(m, 0) = Hole,
             \A k \in 0 .. array.len - 1 : At(m, k + 1) = At(array, k),
             WithParts(Assigned(m, {m.start}, v), {v}, {}, "ok")
      PROVE  IInv' /\ L!Next
  <2> DEFINE q == Assigned(m, {m.start}, v)
             e == Elements(array)
  <2>1. Sound(q) /\ Keeps(array, q, {}) /\ Holds(q, {v}) /\ Elements(q) = <<v>> \o e
    BY <1>1, <1>2, Prepended
  <2>2. WithParts(q, {v}, {}, "ok") /\ "ok" \in Reports
    BY <1>2 DEF Reports
  <2> HIDE DEF q
  <2>3. IInv' /\ Elements(array') = Elements(q) /\ result' = "ok" /\ readonly' = readonly
    BY <2>1, <2>2, Stored
  <2>4. L!Becomes(<<v>> \o e, "ok")
    <3> HIDE DEF e
    <3> QED BY <1>1, <2>1, <2>3, ListBecomes
  <2>5. L!Unshift(v)
    BY <2>4 DEF L!Unshift, Elements
  <2> QED BY <2>3, <2>5 DEF L!Next
<1>3. CASE array.start > 0 /\ LET p == [array EXCEPT !.start = @ - 1, !.cap = @ + 1, !.len = @ + 1]
                              IN  WithParts(Assigned(p, {p.start}, v), {v}, {}, "ok")
  <2> DEFINE m == Rewindowed(array, array.start - 1, array.cap + 1, array.len + 1)
  <2>1. WithParts(Assigned(m, {m.start}, v), {v}, {}, "ok")
    BY <1>3 DEF Rewindowed
  <2>2. Sound(m) /\ m.len = array.len + 1 /\ At(m, 0) = Hole /\ \A k \in 0 .. array.len - 1 : At(m, k + 1) = At(array, k)
    BY <1>1, <1>3, WidenedSound
  <2> HIDE DEF m
  <2> QED BY <1>2, <2>1, <2>2
<1>4. CASE array.start = 0 /\ \E g \in Grow(array, Shortfall(array), "unshift") :
                IF g[2]
                THEN LET p == SlideForward(g[1])
                     IN  WithParts(Assigned(p, {p.start}, v), {v}, {}, "ok")
                ELSE WithParts(g[1], {}, {}, "AllocError")
  <2>1. PICK g \in Grow(array, Shortfall(array), "unshift") :
                IF g[2]
                THEN LET p == SlideForward(g[1])
                     IN  WithParts(Assigned(p, {p.start}, v), {v}, {}, "ok")
                ELSE WithParts(g[1], {}, {}, "AllocError")
    BY <1>4
  <2>2. Grown(array, g, Shortfall(array), "unshift")
    <3>1. Shortfall(array) \in Nat
      <4>1. array.len \in Nat
        BY <1>1, SoundFields
      <4> QED BY <4>1 DEF Shortfall
    <3> QED BY <1>1, <3>1, GrowSound
  <2> DEFINE h == g[1]
  <2>3. /\ Sound(h) /\ SameElements(array, h) /\ h.start = 0 /\ g[2] \in BOOLEAN
        /\ g[2] => Shortfall(array) <= h.cap
    BY <1>4, <2>2 DEF Grown
  <2>4. CASE ~g[2]
    <3>1. WithParts(h, {}, {}, "AllocError")
      BY <2>1, <2>4
    <3> HIDE DEF h
    <3>2. IInv' /\ L!OutOfMemory
      BY <1>1, <2>3, <3>1, Refused
    <3> QED BY <3>2 DEF L!Next
  <2>5. CASE g[2]
    <3> DEFINE m == SlideForward(h)
    <3>1. WithParts(Assigned(m, {m.start}, v), {v}, {}, "ok")
      BY <2>1, <2>5
    <3> HIDE DEF h
    <3>2. h.len = array.len /\ \A k \in 0 .. array.len - 1 : At(h, k) = At(array, k)
      BY <2>3 DEF SameElements
    <3>3. Shortfall(h) <= h.cap
      BY <2>3, <2>5, <3>2 DEF Shortfall
    <3>4. /\ Sound(m) /\ m.len = h.len + 1 /\ At(m, 0) = Hole
          /\ \A k \in 0 .. h.len - 1 : At(m, k + 1) = At(h, k)
      BY <2>3, <3>3, SlideForwardSound
    <3> HIDE DEF m
    <3>5. m.len = array.len + 1 /\ \A k \in 0 .. array.len - 1 : At(m, k + 1) = At(array, k)
      BY <3>2, <3>4
    <3> QED BY <1>2, <3>1, <3>4, <3>5
  <2> QED BY <2>3, <2>4, <2>5
<1> QED BY <1>3, <1>4 DEF UnshiftValue

\* An operation on an array without the element it asks for.
LEMMA Absent ==
    ASSUME IInv, ~readonly, WithParts(array, {}, {}, Undef)
    PROVE  IInv' /\ L!Becomes(Elements(array), Undef)
<1>1. Sound(array) /\ Keeps(array, array, {}) /\ Holds(array, {}) /\ Undef \in Reports
  <2>1. SameElements(array, array)
    BY DEF SameElements
  <2> QED BY <2>1, KeptWhereSame DEF Holds, IInv, Reports
<1>2. IInv' /\ Elements(array') = Elements(array) /\ result' = Undef /\ readonly' = readonly
  BY <1>1, Stored
<1> DEFINE e == Elements(array)
<1>3. Elements(array') = e
  BY <1>2
<1> HIDE DEF e
<1>4. L!Becomes(e, Undef)
  BY <1>2, <1>3, ListBecomes
<1> QED BY <1>2, <1>4 DEF e

\* A value moved out of the window.
LEMMA TakenElement ==
    ASSUME NEW p, Sound(p), NEW k \in 0 .. p.len - 1
    PROVE  /\ Replaced(p, Taken(p, p.start + k), k, Hole, p.dropped)
           /\ OrUndef(At(p, k)) \in Reports
<1>1. Hole \in Cell /\ At(p, k) \in Cell
  BY SoundFields DEF Cell
<1>2. Replaced(p, Overwritten(p, k, Hole), k, Hole, p.dropped)
  BY <1>1, OverwrittenElement
<1>3. Taken(p, p.start + k) = Overwritten(p, k, Hole)
  BY DEF Taken, Overwritten
<1>4. OrUndef(At(p, k)) \in Reports
  BY <1>1 DEF OrUndef, Cell, Reports
<1> QED BY <1>2, <1>3, <1>4

LEMMA PopStep ==
    ASSUME IInv, PopValue
    PROVE  IInv' /\ L!Next
<1>1. Sound(array) /\ ~readonly
  BY DEF IInv, PopValue
<1> DEFINE e == Elements(array)
<1>2. e \in Seq(Cell) /\ Len(e) = array.len /\ array.len \in Nat /\ (array.len = 0 <=> e = <<>>)
      /\ \A k \in 0 .. array.len - 1 : e[k + 1] = At(array, k)
  BY <1>1, ElementsAre, NoElements
<1>3. /\ e = <<>> => (L!Becomes(e, Undef) => L!Pop)
      /\ e # <<>> => (L!Becomes(SubSeq(e, 1, Len(e) - 1), L!OrUndef(e[Len(e)])) => L!Pop)
  BY DEF L!Pop, Elements
<1> HIDE DEF e
<1>4. CASE array.len = 0
  <2>1. WithParts(array, {}, {}, Undef)
    BY <1>4 DEF PopValue
  <2>2. IInv' /\ L!Becomes(e, Undef)
    BY <1>1, <2>1, Absent DEF e
  <2> QED BY <1>2, <1>3, <1>4, <2>2 DEF L!Next
<1>5. CASE array.len # 0
  <2> DEFINE k == array.len - 1
             b == Taken(array, array.start + k)
             q == Resized(b, k)
             x == At(array, k)
  <2>1. k \in 0 .. array.len - 1 /\ k \in Nat /\ k + 1 = array.len
    BY <1>2, <1>5
  <2>2. WithParts([b EXCEPT !.len = @ - 1], {}, {x}, OrUndef(x))
    BY <1>5 DEF PopValue, At
  <2> HIDE DEF k
  <2>3. Replaced(array, b, k, Hole, array.dropped) /\ OrUndef(x) \in Reports
    BY <1>1, <2>1, TakenElement
  <2> HIDE DEF b
  <2>4. Sound(b) /\ b.len = array.len /\ At(b, k) = Hole /\ \A j \in 0 .. array.len - 1 : j # k => At(b, j) = At(array, j)
    BY <2>3 DEF Replaced
  <2>5. WithParts(q, {}, {x}, OrUndef(x))
    <3>1. [b EXCEPT !.len = @ - 1] = q
      BY <2>1, <2>4 DEF Resized, k
    <3> QED BY <2>2, <3>1
  <2>6. /\ Sound(q) /\ q.len = k
        /\ \A j \in 0 .. k - 1 : At(q, j) = At(b, j)
    <3>1. k \in 0 .. b.len /\ \A j \in k .. b.len - 1 : At(b, j) = Hole
      BY <2>1, <2>4
    <3> QED BY <2>4, <3>1, ShrunkSound
  <2> HIDE DEF q
  <2>7. \A j \in 0 .. k - 1 : j \in 0 .. array.len - 1 /\ At(q, j) = At(array, j)
    BY <2>1, <2>4, <2>6
  <2>8. Keeps(array, q, {x}) /\ Holds(q, {})
    <3>1. ASSUME NEW j \in 0 .. array.len - 1 PROVE At(array, j) \in {x} \/ j \in 0 .. k - 1
      BY <2>1
    <3> QED BY <2>6, <2>7, <3>1 DEF Keeps, Holds
  <2>9. IInv' /\ Elements(array') = Elements(q) /\ result' = OrUndef(x) /\ readonly' = readonly
    BY <2>3, <2>5, <2>6, <2>8, Stored
  <2>10. Elements(q) = SubSeq(e, 1, k)
    <3>1. q.len \in 0 .. array.len /\ \A j \in 0 .. q.len - 1 : At(q, j) = At(array, j)
      BY <2>1, <2>6, <2>7
    <3> QED BY <1>1, <2>6, <3>1, PrefixList DEF e
  <2>11. e # <<>> /\ Len(e) - 1 = k /\ e[Len(e)] = x
    BY <1>2, <1>5, <2>1
  <2> DEFINE s == SubSeq(e, 1, Len(e) - 1)
             r == L!OrUndef(e[Len(e)])
  <2>12. Elements(array') = s /\ result' = r
    BY <2>9, <2>10, <2>11, ListOperations
  <2>13. L!Becomes(s, r)
    <3> HIDE DEF s, r
    <3> QED BY <1>1, <2>9, <2>12 DEF L!Becomes, Elements
  <2>14. L!Pop
    BY <1>3, <2>11, <2>13
  <2> QED BY <2>9, <2>14 DEF L!Next
<1> QED BY <1>4, <1>5

LEMMA ShiftStep ==
    ASSUME IInv, ShiftValue
    PROVE  IInv' /\ L!Next
<1>1. Sound(array) /\ ~readonly
  BY DEF IInv, ShiftValue
<1> DEFINE e == Elements(array)
<1>2. e \in Seq(Cell) /\ Len(e) = array.len /\ array.len \in Nat /\ (array.len = 0 <=> e = <<>>)
      /\ (\A k \in 0 .. array.len - 1 : e[k + 1] = At(array, k)) /\ array.start \in Nat
  BY <1>1, ElementsAre, NoElements, SoundFields
<1>3. /\ e = <<>> => (L!Becomes(e, Undef) => L!Shift)
      /\ e # <<>> => (L!Becomes(Tail(e), L!OrUndef(Head(e))) => L!Shift)
  BY DEF L!Shift, Elements
<1> HIDE DEF e
<1>4. CASE array.len = 0
  <2>1. WithParts(array, {}, {}, Undef)
    BY <1>4 DEF ShiftValue
  <2>2. IInv' /\ L!Becomes(e, Undef)
    BY <1>1, <2>1, Absent DEF e
  <2> QED BY <1>2, <1>3, <1>4, <2>2 DEF L!Next
<1>5. CASE array.len # 0
  <2> DEFINE b == Taken(array, array.start)
             q == Rewindowed(b, b.start + 1, b.cap - 1, b.len - 1)
             x == At(array, 0)
  <2>1. 0 \in 0 .. array.len - 1 /\ array.start + 0 = array.start
    BY <1>2, <1>5
  <2>2. WithParts(q, {}, {x}, OrUndef(x))
    <3>1. x = array.slots[array.start]
      BY <2>1 DEF At
    <3> QED BY <1>5, <3>1 DEF ShiftValue, Rewindowed
  <2>3. Replaced(array, b, 0, Hole, array.dropped) /\ OrUndef(x) \in Reports
    <3> HIDE DEF b
    <3>1. Replaced(array, Taken(array, array.start + 0), 0, Hole, array.dropped) /\ OrUndef(At(array, 0)) \in Reports
      BY <1>1, <2>1, TakenElement
    <3> QED BY <2>1, <3>1 DEF b
  <2> HIDE DEF b
  <2>4. Sound(b) /\ b.len = array.len /\ At(b, 0) = Hole /\ \A j \in 0 .. array.len - 1 : j # 0 => At(b, j) = At(array, j)
    BY <2>3 DEF Replaced
  <2>5. /\ Sound(q) /\ q.len = array.len - 1
        /\ \A j \in 0 .. array.len - 2 : At(q, j) = At(b, j + 1)
    <3>1. b.len > 0
      BY <1>2, <1>5, <2>4
    <3> QED BY <2>4, <3>1, NarrowedSound
  <2> HIDE DEF q
  <2>6. \A j \in 0 .. array.len - 2 : At(q, j) = At(array, j + 1)
    <3> SUFFICES ASSUME NEW j \in 0 .. array.len - 2 PROVE At(q, j) = At(array, j + 1)
      OBVIOUS
    <3>1. j + 1 \in 0 .. array.len - 1 /\ j + 1 # 0
      BY <1>2
    <3> QED BY <2>4, <2>5, <3>1
  <2>7. Keeps(array, q, {x}) /\ Holds(q, {})
    <3>1. ASSUME NEW k \in 0 .. array.len - 1, k # 0
          PROVE  \E j \in 0 .. q.len - 1 : At(q, j) = At(array, k)
      <4>1. k - 1 \in 0 .. array.len - 2 /\ k - 1 \in 0 .. q.len - 1 /\ (k - 1) + 1 = k
        BY <1>2, <2>5, <3>1
      <4> QED BY <2>6, <4>1
    <3> QED BY <3>1 DEF Keeps, Holds
  <2>8. IInv' /\ Elements(array') = Elements(q) /\ result' = OrUndef(x) /\ readonly' = readonly
    BY <2>2, <2>3, <2>5, <2>7, Stored
  <2>9. Elements(q) = Tail(e)
    <3>1. array.len > 0
      BY <1>2, <1>5
    <3> QED BY <1>1, <2>5, <2>6, <3>1, TailList DEF e
  <2>10. e # <<>> /\ Head(e) = x
    <3>1. e[0 + 1] = x
      BY <1>2, <2>1
    <3> QED BY <1>2, <1>5, <3>1
  <2> DEFINE s == Tail(e)
             r == L!OrUndef(Head(e))
  <2>11. Elements(array') = s /\ result' = r
    BY <2>8, <2>9, <2>10, ListOperations
  <2>12. L!Becomes(s, r)
    <3> HIDE DEF s, r
    <3> QED BY <1>1, <2>8, <2>11 DEF L!Becomes, Elements
  <2>13. L!Shift
    BY <1>3, <2>10, <2>12
  <2> QED BY <2>8, <2>13 DEF L!Next
<1> QED BY <1>4, <1>5

LEMMA DeleteStep ==
    ASSUME IInv, NEW i \in Index, Delete(i)
    PROVE  IInv' /\ L!Next
<1>1. Sound(array) /\ ~readonly /\ i \in Nat
  BY PerlArrayAssumption DEF IInv, Delete, Index
<1> DEFINE e == Elements(array)
           emptied == [e EXCEPT ![i + 1] = Hole]
<1>2. e \in Seq(Cell) /\ Len(e) = array.len /\ array.len \in Nat
      /\ \A k \in 0 .. array.len - 1 : e[k + 1] = At(array, k)
  BY <1>1, ElementsAre
<1>3. /\ i >= Len(e) => (L!Becomes(e, Undef) => L!Delete(i))
      /\ ~(i >= Len(e)) =>
            (L!Becomes(IF i + 1 = Len(e) THEN L!Trimmed(emptied) ELSE emptied, L!OrUndef(e[i + 1])) => L!Delete(i))
  BY DEF L!Delete, Elements
<1>4. L!Delete(i) => L!Next
  BY ListOperations DEF L!Next
<1> HIDE DEF e, emptied
<1>5. CASE i >= array.len
  <2>1. WithParts(array, {}, {}, Undef)
    BY <1>5 DEF Delete
  <2>2. IInv' /\ L!Becomes(e, Undef)
    BY <1>1, <2>1, Absent DEF e
  <2> QED BY <1>2, <1>3, <1>4, <1>5, <2>2
<1>6. CASE ~(i >= array.len)
  <2> DEFINE b == Taken(array, array.start + i)
             q == IF i < b.len - 1 THEN b ELSE Resized(b, Least(b))
             x == At(array, i)
  <2>1. i \in 0 .. array.len - 1
    BY <1>1, <1>2, <1>6
  <2>2. WithParts(q, {}, {x}, OrUndef(x))
    BY <1>6 DEF Delete, At, Resized, Least, Kept
  <2>3. Replaced(array, b, i, Hole, array.dropped) /\ OrUndef(x) \in Reports
    BY <1>1, <2>1, TakenElement
  <2> HIDE DEF b
  <2>4. Sound(b) /\ b.len = array.len /\ At(b, i) = Hole /\ \A j \in 0 .. array.len - 1 : j # i => At(b, j) = At(array, j)
    BY <2>3 DEF Replaced
  <2>5. Elements(b) = emptied
    <3>1. Hole \in Cell
      BY DEF Cell
    <3> QED BY <1>1, <2>1, <2>3, <3>1, ReplacedList DEF e, emptied
  <2>6. \A k \in 0 .. array.len - 1 : k # i => k \in 0 .. b.len - 1 /\ At(b, k) = At(array, k)
    BY <2>4
  <2>7. /\ Sound(q) /\ Keeps(array, q, {x})
        /\ Elements(q) = (IF i + 1 = Len(e) THEN L!Trimmed(emptied) ELSE emptied)
    <3>1. CASE i < b.len - 1
      <4>1. q = b /\ ~(i + 1 = Len(e))
        BY <1>1, <1>2, <2>4, <3>1
      <4> HIDE DEF q
      <4>2. Keeps(array, b, {x})
        BY <2>6 DEF Keeps
      <4> QED BY <2>4, <2>5, <4>1, <4>2
    <3>2. CASE ~(i < b.len - 1)
      <4> DEFINE n == Least(b)
                 r == Resized(b, n)
      <4>1. q = r /\ i + 1 = Len(e)
        BY <1>1, <1>2, <2>1, <2>4, <3>2
      <4>2. n \in 0 .. b.len /\ \A k \in n .. b.len - 1 : At(b, k) = Hole
        BY <2>4, LeastIs DEF Kept
      <4>3. L!Trimmed(emptied) = SubSeq(emptied, 1, n)
        <5>1. L!Trimmed(Elements(b)) = SubSeq(Elements(b), 1, n)
          BY <2>4, TrimmedList
        <5> HIDE DEF n
        <5> QED BY <2>5, <5>1
      <4> HIDE DEF q, n
      <4>4. Sound(r) /\ r.len = n /\ \A k \in 0 .. n - 1 : At(r, k) = At(b, k)
        BY <2>4, <4>2, ShrunkSound
      <4> HIDE DEF r
      <4>5. Elements(r) = SubSeq(emptied, 1, n)
        <5>1. r.len \in 0 .. b.len /\ \A k \in 0 .. r.len - 1 : At(r, k) = At(b, k)
          BY <4>2, <4>4
        <5>2. Elements(r) = SubSeq(Elements(b), 1, r.len)
          BY <2>4, <4>4, <5>1, PrefixList
        <5> QED BY <2>5, <4>4, <5>2
      <4>6. Keeps(array, r, {x})
        <5> SUFFICES ASSUME NEW k \in 0 .. array.len - 1, At(array, k) \in Value, k # i
                     PROVE  \E j \in 0 .. r.len - 1 : At(r, j) = At(array, k)
          BY DEF Keeps
        <5>1. At(b, k) # Hole /\ k \in 0 .. b.len - 1
          BY <2>6, PerlArrayAssumption
        <5>2. k \in 0 .. n - 1
          BY <1>2, <2>4, <4>2, <5>1
        <5> QED BY <2>6, <4>4, <5>2
      <4> QED BY <4>1, <4>3, <4>4, <4>5, <4>6
    <3> QED BY <3>1, <3>2
  <2>8. Holds(q, {})
    BY DEF Holds
  <2> HIDE DEF q
  <2>9. IInv' /\ Elements(array') = Elements(q) /\ result' = OrUndef(x) /\ readonly' = readonly
    BY <2>2, <2>3, <2>7, <2>8, Stored
  <2>10. ~(i >= Len(e)) /\ e[i + 1] = x
    BY <1>2, <1>6, <2>1
  <2> DEFINE s == IF i + 1 = Len(e) THEN L!Trimmed(emptied) ELSE emptied
             r == L!OrUndef(e[i + 1])
  <2>11. Elements(array') = s /\ result' = r
    BY <2>7, <2>9, <2>10, ListOperations
  <2>12. L!Becomes(s, r)
    <3> HIDE DEF s, r
    <3> QED BY <1>1, <2>9, <2>11 DEF L!Becomes, Elements
  <2>13. L!Delete(i)
    BY <1>3, <2>10, <2>12
  <2> QED BY <1>4, <2>9, <2>13
<1> QED BY <1>5, <1>6

LEMMA ClearStep ==
    ASSUME IInv, Clear
    PROVE  IInv' /\ L!Next
<1>1. Sound(array) /\ ~readonly
  BY DEF IInv, Clear
<1> DEFINE b == Assigned(array, Window(array), Hole)
           q == Resized(b, 0)
<1>2. WithParts(q, {}, {}, "ok")
  BY DEF Clear, Resized
<1>3. /\ Sound(b) /\ b.len = array.len /\ ValuesIn(array.slots, Window(array)) \subseteq b.dropped
      /\ \A k \in 0 .. array.len - 1 : At(b, k) = Hole
  BY <1>1, ClearedSound
<1> HIDE DEF b
<1>4. Sound(q) /\ q.len = 0 /\ q.dropped = b.dropped
  <2>1. b.len \in Nat
    BY <1>3, SoundFields
  <2>2. 0 \in 0 .. b.len /\ \A k \in 0 .. b.len - 1 : At(b, k) = Hole
    BY <1>3, <2>1
  <2> QED BY <1>3, <2>2, ShrunkSound
<1> HIDE DEF q
<1>5. Keeps(array, q, {})
  <2> SUFFICES ASSUME NEW k \in 0 .. array.len - 1, At(array, k) \in Value PROVE At(array, k) \in q.dropped
    BY DEF Keeps
  <2>1. At(array, k) \in ValuesIn(array.slots, Window(array))
    BY <1>1, WindowValues DEF Sound
  <2> QED BY <1>3, <1>4, <2>1
<1>6. Holds(q, {}) /\ "ok" \in Reports
  BY DEF Holds, Reports
<1>7. IInv' /\ Elements(array') = Elements(q) /\ result' = "ok" /\ readonly' = readonly
  BY <1>2, <1>4, <1>5, <1>6, Stored
<1>8. Elements(q) = <<>>
  BY <1>4, NoElements
<1>9. L!Clear
  BY <1>1, <1>7, <1>8 DEF L!Clear, L!Becomes, Elements
<1> QED BY <1>7, <1>9 DEF L!Next

\* A new array.
LEMMA EmptySound ==
    Sound(EMPTY) /\ EMPTY.dropped = {} /\ EMPTY.start = 0 /\ EMPTY.len = 0 /\ EMPTY.cap = 0
<1> DEFINE s == [i \in {} |-> Hole]
<1>1. EMPTY = Fields(s, 0, 0, 0, {})
  BY DEF EMPTY, Fields
<1>2. EMPTY.dropped = {} /\ EMPTY.start = 0 /\ EMPTY.len = 0 /\ EMPTY.cap = 0
  BY DEF EMPTY
<1>3. 0 .. 0 + 0 - 1 = {} /\ 0 + 0 <= MaxSlots /\ 0 \in 0 .. 0 /\ 0 \in Nat
  BY PerlArrayAssumption
<1>4. s \in [0 .. 0 + 0 - 1 -> Cell]
  BY <1>3
<1> HIDE DEF s
<1>5. Sound(Fields(s, 0, 0, 0, {}))
  <2>1. {} \in SUBSET Value /\ \A i \in 0 .. 0 + 0 - 1 : i < 0 \/ i >= 0 + 0 => s[i] = Hole
    BY <1>3
  <2> QED BY <1>3, <1>4, <2>1, FieldsSound
<1> QED BY <1>1, <1>2, <1>5

LEMMA DropStep ==
    ASSUME IInv, Drop
    PROVE  IInv' /\ L!Next
<1>1. array' = EMPTY /\ large' = FALSE /\ readonly' = FALSE /\ result' = "ok"
      /\ live' = live \ ValuesIn(array.slots, Window(array))
  BY DEF Drop
<1>2. live' = {}
  BY <1>1 DEF IInv, NothingLost
<1>3. Sound(array') /\ array'.dropped = {} /\ array'.start = 0 /\ array'.len = 0 /\ array'.cap = 0
  BY <1>1, EmptySound
<1>4. Elements(array') = <<>>
  BY <1>3, NoElements
<1>5. IInv'
  <2>1. (live \subseteq Value)' /\ NothingLost'
    BY <1>2 DEF NothingLost
  <2>2. array'.start <= Narrow /\ array'.len <= Narrow /\ array'.cap <= Narrow
    BY <1>3, PerlArrayAssumption
  <2> QED BY <1>1, <1>3, <2>1, <2>2 DEF IInv
<1>6. L!Drop
  BY <1>1, <1>4 DEF L!Drop, Elements
<1> QED BY <1>5, <1>6 DEF L!Next

LEMMA RejectStep ==
    ASSUME IInv, Reject
    PROVE  IInv' /\ L!Next
<1>1. readonly /\ result' = "ReadOnly" /\ array' = array /\ large' = large /\ readonly' = readonly /\ live' = live
  BY DEF Reject
<1>2. IInv'
  BY <1>1 DEF IInv, NothingLost
<1>3. L!Refuse
  BY <1>1 DEF L!Refuse
<1> QED BY <1>2, <1>3 DEF L!Next

LEMMA SetReadonlyStep ==
    ASSUME IInv, SetReadonly
    PROVE  IInv' /\ L!Next
<1>1. readonly' \in BOOLEAN /\ result' = "ok" /\ array' = array /\ large' = large /\ live' = live
  BY DEF SetReadonly
<1>2. IInv'
  BY <1>1 DEF IInv, NothingLost
<1>3. L!SetReadonly
  BY <1>1 DEF L!SetReadonly
<1> QED BY <1>2, <1>3 DEF L!Next

LEMMA InitSound == Init => IInv /\ L!Init
<1> SUFFICES ASSUME Init PROVE IInv /\ L!Init
  OBVIOUS
<1>1. array = EMPTY /\ large = FALSE /\ readonly = FALSE /\ live = {} /\ result = "ok"
  BY DEF Init
<1>2. Sound(array) /\ array.dropped = {} /\ array.start = 0 /\ array.len = 0 /\ array.cap = 0
  BY <1>1, EmptySound
<1>3. Elements(array) = <<>>
  BY <1>2, NoElements
<1>4. IInv
  <2>1. live \subseteq Value /\ NothingLost
    BY <1>1 DEF NothingLost
  <2>2. array.start <= Narrow /\ array.len <= Narrow /\ array.cap <= Narrow
    BY <1>2, PerlArrayAssumption
  <2> QED BY <1>1, <1>2, <2>1, <2>2 DEF IInv
<1>5. L!Init
  BY <1>1, <1>3 DEF L!Init, Elements
<1> QED BY <1>4, <1>5

\* Every step keeps the invariant and is a step of the list, or no step of it.
LEMMA StepSound ==
    ASSUME IInv, [Next]_vars, "ensure" \notin Operation
    PROVE  IInv' /\ [L!Next]_(L!listVars)
<1>1. CASE Reject
  BY <1>1, RejectStep
<1>2. CASE \E i \in Index, v \in Value : Set(i, v)
  BY <1>2, SetStep
<1>3. CASE \E i \in Index : EnsureElement(i)
  BY <1>3, EnsureStep
<1>4. CASE \E i \in Index : Delete(i)
  BY <1>4, DeleteStep
<1>5. CASE \E v \in Value : PushValue(v)
  BY <1>5, PushStep
<1>6. CASE \E v \in Value : UnshiftValue(v)
  BY <1>6, UnshiftStep
<1>7. CASE PopValue
  BY <1>7, PopStep
<1>8. CASE ShiftValue
  BY <1>8, ShiftStep
<1>9. CASE Clear
  BY <1>9, ClearStep
<1>10. CASE SetReadonly
  BY <1>10, SetReadonlyStep
<1>11. CASE Drop
  BY <1>11, DropStep
<1>12. CASE UNCHANGED vars
  <2>1. array' = array /\ large' = large /\ readonly' = readonly /\ live' = live /\ result' = result
    BY <1>12 DEF vars
  <2>2. IInv'
    BY <2>1 DEF IInv, NothingLost
  <2>3. UNCHANGED L!listVars
    BY <2>1 DEF L!listVars
  <2> QED BY <2>2, <2>3
<1> QED BY <1>1, <1>2, <1>3, <1>4, <1>5, <1>6, <1>7, <1>8, <1>9, <1>10, <1>11, <1>12 DEF Next

-----------------------------------------------------------------------------
(* The theorems.                                                           *)

\* The strengthening holds in every reachable state where ensure_element's
\* growth does not fail.  (containers.rs with_parts, grow)
THEOREM GeometryStaysSound ==
    ASSUME "ensure" \notin Operation
    PROVE  Spec => []IInv
<1>1. Init => IInv
  BY InitSound
<1>2. IInv /\ [Next]_vars => IInv'
  BY StepSound
<1> QED BY <1>1, <1>2, PTL DEF Spec

\* The geometry always has its type: the buffer has start + cap slots, and the
\* window lies in it.  (containers.rs Parts)
THEOREM GeometryTyped ==
    ASSUME "ensure" \notin Operation
    PROVE  Spec => []TypeOK
<1>1. IInv => TypeOK
  <2> SUFFICES ASSUME IInv PROVE TypeOK
    OBVIOUS
  <2>1. /\ array.start \in Nat /\ array.cap \in Nat /\ array.len \in 0 .. array.cap
        /\ array.start + array.cap <= MaxSlots
        /\ array.slots \in [0 .. Total(array) - 1 -> Cell]
    BY SoundFields DEF IInv, Sound, Geometry
  <2>2. array.cap \in 0 .. MaxSlots
    BY <2>1, PerlArrayAssumption
  <2> QED BY <2>1, <2>2 DEF IInv, TypeOK, Cell
<1> QED BY <1>1, GeometryStaysSound, PTL

\* "Gap and tail spare hold None": every slot outside the window is a hole.
\* (containers.rs grow, shift_value, delete)
THEOREM SpareStaysVacant ==
    ASSUME "ensure" \notin Operation
    PROVE  Spec => []SpareIsVacant
<1>1. IInv => SpareIsVacant
  BY Indices DEF IInv, Sound, Vacant, SpareIsVacant
<1> QED BY <1>1, GeometryStaysSound, PTL

\* Every value stored, and neither dropped nor handed back, is in the window,
\* where the array's drop finds it.  (containers.rs Drop for PerlArray)
THEOREM NothingIsLost ==
    ASSUME "ensure" \notin Operation
    PROVE  Spec => []NothingLost
<1>1. IInv => NothingLost
  BY DEF IInv
<1> QED BY <1>1, GeometryStaysSound, PTL

\* The engine implements the Perl array: its window is the list, and what each
\* operation reports is what the list's does.  (containers.rs PerlArray)
THEOREM EngineIsPerlList ==
    ASSUME "ensure" \notin Operation
    PROVE  Spec => IsPerlList
<1>1. Init => IInv /\ L!Init
  BY InitSound
<1>2. IInv /\ [Next]_vars => IInv' /\ [L!Next]_(L!listVars)
  BY StepSound
<1> QED BY <1>1, <1>2, PTL DEF Spec, IsPerlList, L!Spec

=============================================================================
