--------------------------- MODULE HashIteration ----------------------------
(***************************************************************************)
(* What iterating a Perl hash promises, whatever happens to the hash       *)
(* between two calls of each: a pass yields no key twice, yields only keys *)
(* that exist, and does not end before it has yielded every key that was   *)
(* there all along.                                                        *)
(***************************************************************************)
EXTENDS FiniteSets

CONSTANTS Key, None

VARIABLES
    contents,   \* the keys of the hash
    visited,    \* those the pass has yielded
    stable,     \* those present since the pass began
    result      \* what the last operation reported

iterationVars == <<contents, visited, stable, result>>

Init == contents = {} /\ visited = {} /\ stable = {} /\ result = "ok"

\* A pass begins on the keys of s.
Begin(s) == contents' = s /\ visited' = {} /\ stable' = s

\* A new key may restart the pass; if it does not, the pass may or may not
\* come to it.
Insert(k) ==
    /\ k \notin contents
    /\ result' = "ok"
    /\ \/ Begin(contents \cup {k})
       \/ contents' = contents \cup {k} /\ UNCHANGED <<visited, stable>>

\* A store to an existing key leaves the pass alone.
Update(k) == k \in contents /\ result' = "ok" /\ UNCHANGED <<contents, visited, stable>>

\* So does a deletion: every other key is still yielded exactly once.
Delete(k) ==
    /\ contents' = contents \ {k} /\ visited' = visited \ {k} /\ stable' = stable \ {k}
    /\ result' = "ok"

Yield(k) ==
    /\ k \in contents \ visited
    /\ visited' = visited \cup {k}
    /\ result' = k
    /\ UNCHANGED <<contents, stable>>

Exhaust == stable \subseteq visited /\ Begin(contents) /\ result' = None

\* keys and values restart the pass, clear empties the hash too.
Restart == Begin(contents) /\ result' = "ok"
Clear == Begin({}) /\ result' = "ok"

\* Any other outcome: a refused change, a change of the flag.
Other == result' \in {"ok", "ReadOnly"} /\ UNCHANGED <<contents, visited, stable>>

Next ==
    \/ \E k \in Key : Insert(k) \/ Update(k) \/ Delete(k) \/ Yield(k)
    \/ Exhaust \/ Restart \/ Clear \/ Other

Spec == Init /\ [][Next]_iterationVars

=============================================================================
