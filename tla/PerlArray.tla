----------------------------- MODULE PerlArray ------------------------------
(***************************************************************************)
(* The array engine of core/src/containers.rs: a live window in a buffer   *)
(* of slots, with a gap before it that shift leaves and unshift reclaims,  *)
(* and spare slots after it that push fills.  Slots are moved by bit       *)
(* copies: which of two copies of a value is dropped is up to this code.   *)
(***************************************************************************)
EXTENDS Integers, Sequences, FiniteSets

CONSTANTS
    Value,      \* the values stored: each owns something, and is dropped once
    Undef,      \* the undefined value, which owns nothing
    Hole,       \* a slot's None
    Operation,  \* the operations in which the allocator may refuse
    MaxIndex,   \* bound: the largest index asked for
    MaxSlots,   \* the largest allocation the allocator serves
    Slack,      \* bound: by how much a size class exceeds a request
    Narrow      \* the largest number a packed field holds (u32::MAX)

ASSUME PerlArrayAssumption ==
    /\ Undef \notin Value /\ Hole \notin Value \cup {Undef}
    /\ Operation \subseteq {"set", "ensure", "push", "unshift"}
    /\ MaxIndex \in Nat /\ MaxSlots \in Nat /\ Slack \in Nat /\ Narrow \in Nat

VARIABLES
    array,      \* the buffer's slots, and the geometry: start, len, cap
    large,      \* FLAG_LARGE: the geometry is boxed
    readonly,   \* FLAG_READONLY
    live,       \* the values stored and neither dropped nor handed back
    result      \* what the last operation reported

vars == <<array, large, readonly, live, result>>

Index == 0 .. MaxIndex

-----------------------------------------------------------------------------
(* Geometries.  dropped is what the operation under way has dropped.       *)

EMPTY == [slots |-> [i \in {} |-> Hole], start |-> 0, len |-> 0, cap |-> 0, dropped |-> {}]

Total(p) == p.start + p.cap
Window(p) == p.start .. p.start + p.len - 1

\* The values in the slots I.
ValuesIn(slots, I) == {slots[i] : i \in I} \cap Value

\* ptr::copy, which handles overlap: n slots, bit by bit.
Copied(slots, from, to, n) ==
    [i \in DOMAIN slots |-> IF i \in to .. to + n - 1 THEN slots[i - to + from] ELSE slots[i]]

\* *slot = x, which drops what the slot held.
Assigned(p, I, x) ==
    [p EXCEPT !.slots = [i \in DOMAIN p.slots |-> IF i \in I THEN x ELSE p.slots[i]],
              !.dropped = @ \cup ValuesIn(p.slots, I)]

\* slot.take(), which moves the value out.
Taken(p, i) == [p EXCEPT !.slots[i] = Hole]

\* Fault: the vacated slots keep their bits.
SlideToBaseKeeps(p) ==
    [p EXCEPT !.slots = Copied(p.slots, p.start, 0, p.len), !.start = 0, !.cap = Total(p)]

\* Move one of grow: the window slides back over the gap, and the slots it
\* leaves are assigned None.
SlideToBase(p) ==
    LET moved == [p EXCEPT !.slots = Copied(p.slots, p.start, 0, p.len)]
    IN  [Assigned(moved, p.len .. p.start + p.len - 1, Hole) EXCEPT !.start = 0, !.cap = Total(p)]

\* Move two of grow: the window is copied to a new buffer, and the old one is
\* released without reading its slots.
Reallocated(p, granted) ==
    [p EXCEPT !.slots = [i \in 0 .. granted - 1 |-> IF i < p.len THEN p.slots[p.start + i] ELSE Hole],
              !.start = 0, !.cap = granted]

\* The geometries grow may leave in operation op, and whether it succeeded:
\* a failed allocation leaves the slide done.
Grow(p, min, op) ==
    LET slid == IF p.start > 0 THEN SlideToBase(p) ELSE p
        requested == min + slid.cap \div 5
        granted == {n \in requested .. requested + Slack : n <= MaxSlots}
    IN  CASE p.cap >= min -> {<<p, TRUE>>}
          [] p.cap < min /\ slid.cap >= min -> {<<slid, TRUE>>}
          [] p.cap < min /\ slid.cap < min ->
                {<<Reallocated(slid, n), TRUE>> : n \in granted}
                \cup {<<slid, FALSE>> : o \in Operation \cap {op}}

\* The window reaches index; the slots it takes in are holes already.
ExtendTo(p, index, op) ==
    {<<IF g[2] /\ index >= p.len THEN [g[1] EXCEPT !.len = index + 1] ELSE g[1], g[2]>> :
        g \in Grow(p, index + 1, op)}

-----------------------------------------------------------------------------
(* The header.                                                             *)

Init ==
    /\ array = EMPTY
    /\ large = FALSE
    /\ readonly = FALSE
    /\ live = {}
    /\ result = "ok"

\* Fault: only the length and the capacity are measured.
FitsWithoutStart(p) == p.len <= Narrow /\ p.cap <= Narrow

Fits(p) == p.start <= Narrow /\ p.len <= Narrow /\ p.cap <= Narrow

\* store_parts: the wide arm is a one-way door.
Store(p) ==
    /\ array' = [p EXCEPT !.dropped = {}]
    /\ large' = (large \/ ~Fits(p))

\* with_parts: the geometry is stored back, and the array's values are what
\* was there, without what was dropped or handed back, and with what came in.
WithParts(p, in, out, r) ==
    /\ Store(p)
    /\ live' = ((live \ p.dropped) \ out) \cup in
    /\ result' = r
    /\ UNCHANGED readonly

\* check_writable fails: the operation's argument is dropped.
Reject ==
    /\ readonly
    /\ result' = "ReadOnly"
    /\ UNCHANGED <<array, large, readonly, live>>

\* A value a caller has: nothing in the buffer is a copy of it.
New(v) == v \notin live \cup ValuesIn(array.slots, DOMAIN array.slots)

OrUndef(x) == IF x = Hole THEN Undef ELSE x

-----------------------------------------------------------------------------
(* The operations.                                                         *)

Set(i, v) ==
    /\ ~readonly /\ New(v)
    /\ \E g \in ExtendTo(array, i, "set") :
        IF g[2] THEN WithParts(Assigned(g[1], {g[1].start + i}, v), {v}, {}, "ok")
        ELSE WithParts(g[1], {}, {}, "AllocError")

\* Returns on an error before the geometry is stored back.
EnsureElement(i) ==
    /\ ~readonly
    /\ \E g \in ExtendTo(array, i, "ensure") :
        IF g[2]
        THEN LET at == g[1].start + i
             IN  WithParts([g[1] EXCEPT !.slots[at] = OrUndef(@)], {}, {}, "ok")
        ELSE /\ array' = [array EXCEPT !.slots = g[1].slots]
             /\ live' = live \ g[1].dropped
             /\ result' = "AllocError"
             /\ UNCHANGED <<large, readonly>>

PushValue(v) ==
    /\ ~readonly /\ New(v)
    /\ \E g \in ExtendTo(array, array.len, "push") :
        IF g[2] THEN WithParts(Assigned(g[1], {g[1].start + array.len}, v), {v}, {}, "ok")
        ELSE WithParts(g[1], {}, {}, "AllocError")

PopValue ==
    /\ ~readonly
    /\ IF array.len = 0 THEN WithParts(array, {}, {}, Undef)
       ELSE LET last == array.start + array.len - 1
                value == array.slots[last]
            IN  WithParts([Taken(array, last) EXCEPT !.len = @ - 1], {}, {value}, OrUndef(value))

ShiftValue ==
    /\ ~readonly
    /\ IF array.len = 0 THEN WithParts(array, {}, {}, Undef)
       ELSE LET value == array.slots[array.start]
            IN  WithParts([Taken(array, array.start) EXCEPT !.start = @ + 1, !.cap = @ - 1, !.len = @ - 1],
                          {}, {value}, OrUndef(value))

\* Fault: the slide is by the fill alone, without the need.
SlideForwardShort(p) ==
    LET slide == IF p.len >= 2 THEN p.len - 1 ELSE 0
        moved == IF p.len >= 2 THEN slide ELSE 1
        copied == [p EXCEPT !.slots = Copied(p.slots, p.start, p.start + moved, p.len)]
        opened == p.start .. p.start + (IF moved < p.len THEN moved ELSE p.len) - 1
    IN  [Assigned(copied, opened, Hole) EXCEPT !.start = @ + slide, !.cap = @ - slide, !.len = @ + 1]

\* Phase two of unshift, on a geometry without a gap and with room: the live
\* slots slide right by one and the fill, the slots opened are assigned None,
\* and the fill becomes the new gap.
SlideForward(p) ==
    LET slide == IF p.len >= 2 THEN p.len - 1 ELSE 0
        moved == 1 + slide
        copied == [p EXCEPT !.slots = Copied(p.slots, p.start, p.start + moved, p.len)]
        opened == p.start .. p.start + (IF moved < p.len THEN moved ELSE p.len) - 1
    IN  [Assigned(copied, opened, Hole) EXCEPT !.start = @ + slide, !.cap = @ - slide, !.len = @ + 1]

\* What phase two asks grow for.
Shortfall(p) == p.len + 1 + (IF p.len >= 2 THEN p.len - 1 ELSE 0)

UnshiftValue(v) ==
    /\ ~readonly /\ New(v)
    /\ \/ /\ array.start > 0
          /\ LET p == [array EXCEPT !.start = @ - 1, !.cap = @ + 1, !.len = @ + 1]
             IN  WithParts(Assigned(p, {p.start}, v), {v}, {}, "ok")
       \/ /\ array.start = 0
          /\ \E g \in Grow(array, Shortfall(array), "unshift") :
                IF g[2]
                THEN LET p == SlideForward(g[1])
                     IN  WithParts(Assigned(p, {p.start}, v), {v}, {}, "ok")
                ELSE WithParts(g[1], {}, {}, "AllocError")

\* Deleting the last element truncates through trailing holes.
Delete(i) ==
    /\ ~readonly
    /\ IF i >= array.len THEN WithParts(array, {}, {}, Undef)
       ELSE LET at == array.start + i
                value == array.slots[at]
                p == Taken(array, at)
                kept == {n \in 0 .. p.len : \A k \in n .. p.len - 1 : p.slots[p.start + k] = Hole}
            IN  WithParts(IF i < p.len - 1 THEN p
                          ELSE [p EXCEPT !.len = CHOOSE n \in kept : \A m \in kept : n <= m],
                          {}, {value}, OrUndef(value))

\* Fault: the length goes to zero and the slots stay.
ClearKeeps ==
    /\ ~readonly
    /\ WithParts([array EXCEPT !.len = 0], {}, {}, "ok")

Clear ==
    /\ ~readonly
    /\ WithParts([Assigned(array, Window(array), Hole) EXCEPT !.len = 0], {}, {}, "ok")

SetReadonly ==
    /\ readonly' \in BOOLEAN
    /\ result' = "ok"
    /\ UNCHANGED <<array, large, live>>

\* The live window drains, the buffer goes, and a new array takes its place.
Drop ==
    /\ live' = live \ ValuesIn(array.slots, Window(array))
    /\ array' = EMPTY
    /\ large' = FALSE
    /\ readonly' = FALSE
    /\ result' = "ok"

Next ==
    \/ Reject
    \/ \E i \in Index, v \in Value : Set(i, v)
    \/ \E i \in Index : EnsureElement(i)
    \/ \E i \in Index : Delete(i)
    \/ \E v \in Value : PushValue(v)
    \/ \E v \in Value : UnshiftValue(v)
    \/ PopValue \/ ShiftValue \/ Clear \/ SetReadonly \/ Drop

Spec == Init /\ [][Next]_vars

-----------------------------------------------------------------------------
(* Properties.                                                             *)

\* Every variable has its type: the buffer has start + cap slots, the window
\* lies inside it, and packed fields are only used for numbers they hold.
TypeOK ==
    /\ array.start \in Nat /\ array.cap \in 0 .. MaxSlots /\ array.len \in 0 .. array.cap
    /\ array.slots \in [0 .. Total(array) - 1 -> Value \cup {Undef, Hole}]
    /\ array.dropped = {}
    /\ large \in BOOLEAN /\ readonly \in BOOLEAN
    /\ live \subseteq Value
    /\ result \in Value \cup {Undef, "ok", "ReadOnly", "AllocError"}
    /\ ~large => array.start <= Narrow /\ array.len <= Narrow /\ array.cap <= Narrow

\* "Gap and tail spare hold None": whatever slides, grows, fails half-way or
\* is truncated, a slot outside the window is a hole, which is what lets the
\* window be extended over it.
SpareIsVacant == \A i \in DOMAIN array.slots \ Window(array) : array.slots[i] = Hole

\* Every value stored and not yet dropped or handed back is in the window: no
\* slide or failed growth leaves one where the array's own drop cannot see it.
NothingLost == live \subseteq ValuesIn(array.slots, Window(array))

\* "The moved-from slots must not drop their values": a value the array still
\* holds has not been dropped.
NothingDroppedTwice == ValuesIn(array.slots, Window(array)) \subseteq live

\* The engine is a Perl array: its window is the list, its result the list's.
L == INSTANCE PerlList WITH
        list <- [k \in 1 .. array.len |-> array.slots[array.start + k - 1]]
IsPerlList == L!Spec

=============================================================================
