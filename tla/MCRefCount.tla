----------------------------- MODULE MCRefCount -----------------------------
(***************************************************************************)
(* Instances of RefCount for TLC.  Threads, handles and objects are each   *)
(* interchangeable: the safety runs use the symmetry.                      *)
(***************************************************************************)
EXTENDS RefCount, TLC

BothKinds == {"buffer", "adopted"}

Symmetry == Permutations(Thread) \cup Permutations(Handle) \cup Permutations(Object)

Used == {h \in Handle : ~Empty(h)}
InUse == {o \in Object : status[o] # "free"}

\* A third envelope is used to share one object; two are used freely.
Bounded == Cardinality(Used) > 2 => Cardinality(InUse) <= 1

=============================================================================
