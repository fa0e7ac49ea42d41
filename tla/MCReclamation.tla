--------------------------- MODULE MCReclamation ---------------------------
(***************************************************************************)
(* Instances for TLC of ReleaseWorklist and Barrier, one run for both: a   *)
(* behaviour moves one of them, and the other rests where it began.        *)
(***************************************************************************)
EXTENDS ReleaseWorklist, Barrier

CONSTANT t1

VARIABLE part

fences == barrier_vars
both == <<part, vars, fences>>

\* One thread that can hold two handles, to link what they lead to; the others
\* hold one.
Handles == [t \in Thread |-> IF t = t1 THEN 2 ELSE 1]

MCInit == part \in {"cells", "fences"} /\ Init /\ BarrierInit

MCNext ==
    \/ part = "cells" /\ Next /\ UNCHANGED <<part, fences>>
    \/ part = "fences" /\ BarrierNext /\ UNCHANGED <<part, vars>>

\* The fairness of each module, for the part that moves.
MCFairness ==
    /\ \A t \in Thread : WF_vars(part = "cells" /\ Releasing(t))
    /\ WF_fences(part = "fences" /\ Own)
    /\ WF_fences(part = "fences" /\ Handshake)
    /\ \A c \in Caller : WF_fences(part = "fences" /\ Heavy(c))
    /\ \A t \in Party : WF_fences(part = "fences" /\ Flush(t))

MCSpec == MCInit /\ [][MCNext]_both /\ MCFairness

=============================================================================
