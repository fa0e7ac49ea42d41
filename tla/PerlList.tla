------------------------------ MODULE PerlList ------------------------------
(***************************************************************************)
(* What a Perl array promises: a sequence of elements, some of them holes, *)
(* and the result each operation reports.  No allocation, gap or spare     *)
(* capacity: PerlArray, the engine of core/src/containers.rs, implements   *)
(* this.                                                                   *)
(***************************************************************************)
EXTENDS Integers, Sequences

CONSTANTS
    Value,      \* the values a caller stores
    Undef,      \* the undefined value
    Hole,       \* an element that does not exist
    MaxIndex    \* the largest index asked for: a bound of the runs

VARIABLES
    list,       \* the elements
    readonly,   \* the dynamic readonly flag
    result      \* what the last operation reported

listVars == <<list, readonly, result>>

Index == 0 .. MaxIndex

\* The elements, with holes up to length n.
Stretched(n) == [k \in 1 .. (IF n > Len(list) THEN n ELSE Len(list)) |->
                    IF k <= Len(list) THEN list[k] ELSE Hole]

\* What a read of a slot hands over: undef for a hole.
OrUndef(x) == IF x = Hole THEN Undef ELSE x

\* s without its trailing holes.
Trimmed(s) ==
    LET occupied == {k \in 1 .. Len(s) : s[k] # Hole}
        last == IF occupied = {} THEN 0 ELSE CHOOSE k \in occupied : \A j \in occupied : j <= k
    IN  SubSeq(s, 1, last)

Init == list = <<>> /\ readonly = FALSE /\ result = "ok"

\* An operation that changes the array, and what it reports.
Becomes(s, r) == ~readonly /\ list' = s /\ result' = r /\ UNCHANGED readonly

Set(i, v) == Becomes([Stretched(i + 1) EXCEPT ![i + 1] = v], "ok")

Ensure(i) == Becomes([Stretched(i + 1) EXCEPT ![i + 1] = OrUndef(@)], "ok")

Push(v) == Becomes(Append(list, v), "ok")

Unshift(v) == Becomes(<<v>> \o list, "ok")

Pop == IF list = <<>> THEN Becomes(list, Undef)
       ELSE Becomes(SubSeq(list, 1, Len(list) - 1), OrUndef(list[Len(list)]))

Shift == IF list = <<>> THEN Becomes(list, Undef) ELSE Becomes(Tail(list), OrUndef(Head(list)))

\* Deleting the last element truncates through the holes before it.
Delete(i) ==
    IF i >= Len(list) THEN Becomes(list, Undef)
    ELSE LET emptied == [list EXCEPT ![i + 1] = Hole]
         IN  Becomes(IF i + 1 = Len(list) THEN Trimmed(emptied) ELSE emptied, OrUndef(list[i + 1]))

Clear == Becomes(<<>>, "ok")

\* An operation that fails changes nothing.
Refuse == readonly /\ result' = "ReadOnly" /\ UNCHANGED <<list, readonly>>
OutOfMemory == ~readonly /\ result' = "AllocError" /\ UNCHANGED <<list, readonly>>

SetReadonly == readonly' \in BOOLEAN /\ result' = "ok" /\ UNCHANGED list

\* The array goes, whatever its flag says, and a new one takes its place.
Drop == list' = <<>> /\ readonly' = FALSE /\ result' = "ok"

Next ==
    \/ \E i \in Index, v \in Value : Set(i, v)
    \/ \E i \in Index : Ensure(i) \/ Delete(i)
    \/ \E v \in Value : Push(v) \/ Unshift(v)
    \/ Pop \/ Shift \/ Clear \/ Refuse \/ OutOfMemory \/ SetReadonly \/ Drop

Spec == Init /\ [][Next]_listVars

=============================================================================
