-------------------------- MODULE ReleaseWorklist --------------------------
(***************************************************************************)
(* The graph of heap nodes (scalar cells, arrays, hashes) and its teardown *)
(* through the per-thread worklist of core/src/heap.rs.  A handle or an    *)
(* element that refers to a node is a strong edge and counts one; values   *)
(* without an edge leave no trace here.  Each thread's native stack is     *)
(* explicit, as its depth is what the worklist is for: a frame is a node   *)
(* whose Drop is running, or the drain loop.                               *)
(***************************************************************************)
EXTENDS Naturals, FiniteSets, SequencesExt

CONSTANTS
    Thread,
    Node,
    PerlArrays, \* the nodes that are arrays of the default engine
    MaxHeld,    \* bound, per thread: the handles it holds
    MaxEdges    \* bound: elements of a node

ASSUME ReleaseWorklistAssumption ==
    PerlArrays \subseteq Node /\ MaxHeld \in [Thread -> Nat] /\ MaxEdges \in Nat

VARIABLES
    state,      \* per node: "unborn", "live", "dying" (its Drop runs), "freed"
    strong,     \* per node: its strong count
    edges,      \* per node: the nodes its elements refer to
    held,       \* per thread: the nodes its handles refer to
    pending,    \* per thread: the worklist
    draining,   \* per thread
    gone,       \* per thread: the thread-local is torn down
    frames      \* per thread: native frames, outermost first

counts == <<state, strong>>
release == <<pending, draining, frames>>
vars == <<counts, edges, held, gone, release>>

Init ==
    /\ state = [n \in Node |-> "unborn"] /\ strong = [n \in Node |-> 0]
    /\ edges = [n \in Node |-> <<>>] /\ held = [t \in Thread |-> <<>>]
    /\ pending = [t \in Thread |-> <<>>] /\ draining = [t \in Thread |-> FALSE]
    /\ gone = [t \in Thread |-> FALSE] /\ frames = [t \in Thread |-> <<>>]

Idle(t) == frames[t] = <<>>
Holds(t, n) == Contains(held[t], n)

-----------------------------------------------------------------------------
(* Operations on handles and elements.                                     *)

\* A new cell, array or hash, and the handle to it; which address it gets makes
\* no difference.
Create(t) ==
    /\ Idle(t) /\ ~gone[t] /\ Len(held[t]) < MaxHeld[t]
    /\ \E n \in Node : state[n] = "unborn"
    /\ LET n == CHOOSE m \in Node : state[m] = "unborn" IN
        /\ state' = [state EXCEPT ![n] = "live"] /\ strong' = [strong EXCEPT ![n] = 1]
        /\ held' = [held EXCEPT ![t] = Append(@, n)]
    /\ UNCHANGED <<edges, gone, release>>

\* A clone of a handle, kept by this thread or given to another.
CloneHandle(t, n, u) ==
    /\ Idle(t) /\ Holds(t, n) /\ Len(held[u]) < MaxHeld[u] /\ ~gone[u]
    /\ strong' = [strong EXCEPT ![n] = @ + 1]
    /\ held' = [held EXCEPT ![u] = Append(@, n)]
    /\ UNCHANGED <<state, edges, gone, release>>

\* Fault: the reference is copied without its count.
GetUncounted(t, n, i) ==
    /\ Idle(t) /\ Holds(t, n) /\ i \in DOMAIN edges[n] /\ Len(held[t]) < MaxHeld[t]
    /\ held' = [held EXCEPT ![t] = Append(@, edges[n][i])]
    /\ UNCHANGED <<counts, edges, gone, release>>

\* An element is read: the reference is cloned out of the lock.
Get(t, n, i) ==
    /\ Idle(t) /\ Holds(t, n) /\ i \in DOMAIN edges[n] /\ Len(held[t]) < MaxHeld[t]
    /\ strong' = [strong EXCEPT ![edges[n][i]] = @ + 1]
    /\ held' = [held EXCEPT ![t] = Append(@, edges[n][i])]
    /\ UNCHANGED <<state, edges, gone, release>>

\* A handle becomes an element of a node.
Push(t, n, i) ==
    /\ Idle(t) /\ Holds(t, n) /\ i \in DOMAIN held[t] /\ Len(edges[n]) < MaxEdges
    /\ edges' = [edges EXCEPT ![n] = Append(@, held[t][i])]
    /\ held' = [held EXCEPT ![t] = RemoveAt(@, i)]
    /\ UNCHANGED <<counts, gone, release>>

\* An element is moved out to a handle.
Pop(t, n) ==
    /\ Idle(t) /\ Holds(t, n) /\ edges[n] # <<>> /\ Len(held[t]) < MaxHeld[t]
    /\ edges' = [edges EXCEPT ![n] = Front(@)]
    /\ held' = [held EXCEPT ![t] = Append(@, Last(edges[n]))]
    /\ UNCHANGED <<counts, gone, release>>

-----------------------------------------------------------------------------
(* Release.                                                                *)

DropFrame(n, vs) == [runs |-> "drop", node |-> n, left |-> vs]
DrainFrame == [runs |-> "drain"]

\* The strong edge to n is dropped with the frames fs below: the last one runs
\* the node's Drop, which takes the elements out.
DropEdge(t, n, fs) ==
    /\ strong' = [strong EXCEPT ![n] = @ - 1]
    /\ IF strong[n] = 1
       THEN /\ state' = [state EXCEPT ![n] = "dying"]
            /\ edges' = [edges EXCEPT ![n] = <<>>]
            /\ frames' = [frames EXCEPT ![t] = Append(fs, DropFrame(n, edges[n]))]
       ELSE /\ frames' = [frames EXCEPT ![t] = fs]
            /\ UNCHANGED <<state, edges>>

\* A handle goes out of scope, or assignment replaces what held it.
DropHandle(t, i) ==
    /\ Idle(t) /\ i \in DOMAIN held[t]
    /\ held' = [held EXCEPT ![t] = RemoveAt(@, i)]
    /\ DropEdge(t, held[t][i], <<>>)
    /\ UNCHANGED <<pending, draining, gone>>

\* An element is overwritten, its old value dropped inline.
Overwrite(t, n, i) ==
    /\ Idle(t) /\ Holds(t, n) /\ i \in DOMAIN edges[n]
    /\ LET m == edges[n][i] IN
       /\ strong' = [strong EXCEPT ![m] = @ - 1]
       /\ IF strong[m] = 1
          THEN /\ state' = [state EXCEPT ![m] = "dying"]
               /\ edges' = [edges EXCEPT ![n] = RemoveAt(@, i), ![m] = <<>>]
               /\ frames' = [frames EXCEPT ![t] = <<DropFrame(m, edges[m])>>]
          ELSE /\ edges' = [edges EXCEPT ![n] = RemoveAt(@, i)]
               /\ UNCHANGED <<state, frames>>
    /\ UNCHANGED <<held, pending, draining, gone>>

\* A live node is cleared, or its iterator retired, one element after another.
\* An array of the default engine drops them inline ("erase"); the others release
\* them as a dying node does ("clear").
Clear(t, n) ==
    /\ Idle(t) /\ Holds(t, n) /\ edges[n] # <<>>
    /\ edges' = [edges EXCEPT ![n] = <<>>]
    /\ frames' = [frames EXCEPT ![t] =
                    <<[runs |-> IF n \in PerlArrays THEN "erase" ELSE "clear",
                       node |-> n, left |-> edges[n]]>>]
    /\ UNCHANGED <<counts, held, pending, draining, gone>>

Top(t) == Last(frames[t])
Runs(t, k) == frames[t] # <<>> /\ Top(t).runs \in k

\* The next element of the node on top, and the frame without it.
Rest(t) == Append(Front(frames[t]), [Top(t) EXCEPT !.left = Tail(@)])

\* Fault: the element is dropped where it is.
ReleaseInline(t) ==
    /\ Runs(t, {"drop", "clear"}) /\ Top(t).left # <<>>
    /\ DropEdge(t, Head(Top(t).left), Rest(t))
    /\ UNCHANGED <<held, pending, draining, gone>>

\* release_value, with the thread-local alive: the edge joins the worklist, and
\* the outermost call drains it.
ReleaseValue(t) ==
    /\ Runs(t, {"drop", "clear"}) /\ Top(t).left # <<>> /\ ~gone[t]
    /\ pending' = [pending EXCEPT ![t] = Append(@, Head(Top(t).left))]
    /\ draining' = [draining EXCEPT ![t] = TRUE]
    /\ frames' = [frames EXCEPT ![t] = IF draining[t] THEN Rest(t) ELSE Append(Rest(t), DrainFrame)]
    /\ UNCHANGED <<counts, edges, held, gone>>

\* Plain drop glue: the default array's clear, or release_value with the
\* thread-local gone.
ReleaseUnlisted(t) ==
    /\ Runs(t, {"erase"}) \/ (Runs(t, {"drop", "clear"}) /\ gone[t])
    /\ Top(t).left # <<>>
    /\ DropEdge(t, Head(Top(t).left), Rest(t))
    /\ UNCHANGED <<held, pending, draining, gone>>

\* The Drop returns and the node's memory is freed; or clear returns.
Return(t) ==
    /\ Runs(t, {"drop", "clear", "erase"}) /\ Top(t).left = <<>>
    /\ state' = [state EXCEPT ![Top(t).node] = IF Top(t).runs = "drop" THEN "freed" ELSE @]
    /\ frames' = [frames EXCEPT ![t] = Front(@)]
    /\ UNCHANGED <<strong, edges, held, pending, draining, gone>>

\* Fault: an edge to a node that others still hold waits for them.
DrainPatiently(t) ==
    /\ Runs(t, {"drain"}) /\ pending[t] # <<>> /\ strong[Last(pending[t])] = 1
    /\ pending' = [pending EXCEPT ![t] = Front(@)]
    /\ DropEdge(t, Last(pending[t]), frames[t])
    /\ UNCHANGED <<held, draining, gone>>

\* The drain loop takes the latest edge and drops it, the list unlocked.
Drain(t) ==
    /\ Runs(t, {"drain"}) /\ pending[t] # <<>>
    /\ pending' = [pending EXCEPT ![t] = Front(@)]
    /\ DropEdge(t, Last(pending[t]), frames[t])
    /\ UNCHANGED <<held, draining, gone>>

DrainEnd(t) ==
    /\ Runs(t, {"drain"}) /\ pending[t] = <<>>
    /\ draining' = [draining EXCEPT ![t] = FALSE]
    /\ frames' = [frames EXCEPT ![t] = Front(@)]
    /\ UNCHANGED <<counts, edges, held, pending, gone>>

\* The thread's thread-locals are torn down; what other destructors still hold
\* is dropped after that.
TearDown(t) ==
    /\ Idle(t) /\ ~gone[t]
    /\ gone' = [gone EXCEPT ![t] = TRUE]
    /\ UNCHANGED <<counts, edges, held, release>>

Releasing(t) == ReleaseValue(t) \/ ReleaseUnlisted(t) \/ Return(t) \/ Drain(t) \/ DrainEnd(t)

Operate(t) ==
    \/ Create(t)
    \/ \E n \in Node : Pop(t, n) \/ Clear(t, n)
    \/ \E n \in Node, u \in Thread : CloneHandle(t, n, u)
    \/ \E n \in Node, i \in 1 .. MaxEdges : Get(t, n, i) \/ Overwrite(t, n, i)
    \/ \E n \in Node, i \in 1 .. MaxHeld[t] : Push(t, n, i)
    \/ \E i \in 1 .. MaxHeld[t] : DropHandle(t, i)
    \/ TearDown(t)

Next == \E t \in Thread : Operate(t) \/ Releasing(t)

\* A Drop that has begun runs to its end.
Fairness == \A t \in Thread : WF_vars(Releasing(t))

Spec == Init /\ [][Next]_vars /\ Fairness

-----------------------------------------------------------------------------
(* Properties.                                                             *)

\* A thread with no frame has nothing left on its worklist.
Settled == \A t \in Thread : Idle(t) => pending[t] = <<>> /\ ~draining[t]

\* The states are in step with the counts, and threads at rest are settled.
TypeOK ==
    /\ \A n \in Node : strong[n] \in Nat /\ (state[n] = "live" <=> strong[n] > 0)
    /\ Settled

\* Where strong edges are kept: a node's elements, a thread's handles and its
\* worklist, and what each of its frames has taken out and not yet released.
Keeper ==
    ({"elements"} \X Node) \cup ({"handles", "listed"} \X Thread)
    \cup UNION {{<<"taken", <<t, j>>>> : j \in DOMAIN frames[t]} : t \in Thread}
TakenOut(t, j) == IF frames[t][j].runs = "drain" THEN <<>> ELSE frames[t][j].left
Kept(k) ==
    CASE k[1] = "elements" -> edges[k[2]]
      [] k[1] = "handles" -> held[k[2]]
      [] k[1] = "listed" -> pending[k[2]]
      [] k[1] = "taken" -> TakenOut(k[2][1], k[2][2])

\* The edges to n, each by the place it is kept in.
EdgesTo(n) == UNION {{<<k, i>> : i \in {j \in DOMAIN Kept(k) : Kept(k)[j] = n}} : k \in Keeper}

\* The strong count of a node is the number of edges to it, wherever the
\* releases of all threads have got to.  So no edge leads to a node that is
\* dying, and none is freed twice or forgotten.
StrongExact == TypeOK /\ \A n \in Node : strong[n] = Cardinality(EdgesTo(n))

\* However long the chain of nodes that dies, no more than two Drops are on a
\* thread's native stack, unless its thread-local is gone.
ShallowStack ==
    \A t \in Thread :
        ~gone[t] => Cardinality({i \in DOMAIN frames[t] : frames[t][i].runs = "drop"}) <= 2

\* A node whose last edge is dropped is freed, whatever the other threads do to
\* the nodes below it, in a program that creates finitely many.
Freed == \A n \in Node : state[n] = "dying" ~> state[n] = "freed"

=============================================================================
