----------------------------- MODULE MCScanSlot -----------------------------
(***************************************************************************)
(* An instance of ScanSlot for TLC that looks at the bytes and the views:  *)
(* two readers of short contents, or one reader of longer ones.            *)
(***************************************************************************)
EXTENDS ScanSlot, TLC

CONSTANT MaxShared      \* bound: the length of contents that two readers share

Symmetry == Permutations(Reader)

Bounded == Len(bytes) > MaxShared => Cardinality(holds) <= 1

=============================================================================
