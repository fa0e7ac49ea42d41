----------------------- MODULE ReleaseWorklistProofs -----------------------
(***************************************************************************)
(* Proofs about ReleaseWorklist: however many nodes die at once, in chains *)
(* of any length and on any number of threads, a thread's native stack     *)
(* holds no more than two Drops, a thread at rest owes nothing, and every  *)
(* node counts the edges that lead to it.  For the counts, the edges are   *)
(* kept on shelves, and a step of the program is a composition of moves:   *)
(* an edge joins a shelf, leaves one, or a whole shelf is emptied into     *)
(* another.                                                                *)
(***************************************************************************)
EXTENDS ReleaseWorklist, SequenceTheorems, FiniteSetTheorems, FunctionTheorems, TLAPS

-----------------------------------------------------------------------------
(* The inductive invariant.                                                *)

\* Frames that have taken the elements out of a node: those that hand them to
\* the worklist, and those that drop them inline.
Working == [runs : {"drop", "clear", "erase"}, node : Node, left : Seq(Node)]
Listing == {f \in Working : f.runs # "erase"}
Erasing == {f \in Working : f.runs = "erase"}

Types ==
    /\ edges \in [Node -> Seq(Node)] /\ held \in [Thread -> Seq(Node)] /\ pending \in [Thread -> Seq(Node)]
    /\ draining \in [Thread -> BOOLEAN] /\ gone \in [Thread -> BOOLEAN]
    /\ frames \in [Thread -> Seq(Working \cup {DrainFrame})]

\* The stacks a thread may have: nothing, or the clear of a default array; on
\* that a Drop or another clear; the drain loop on top; a Drop the loop has
\* begun.  The flag says whether the loop runs.
Base == {<<>>} \cup {<<e>> : e \in Erasing}
One(b, f) == Append(b, f)
Loop(b, f) == Append(One(b, f), DrainFrame)
Two(b, f, g) == Append(Loop(b, f), g)
Shallow(fs, drains) ==
    \E b \in Base :
        \/ fs = b /\ ~drains
        \/ \E f \in Listing : fs = One(b, f) /\ ~drains
        \/ \E f \in Listing : fs = Loop(b, f) /\ drains
        \/ \E f, g \in Listing : fs = Two(b, f, g) /\ drains

\* A thread whose thread-local is gone lists nothing, and its stack has no bound.
Shape(t) ==
    IF gone[t]
    THEN frames[t] \in Seq(Working) /\ ~draining[t] /\ pending[t] = <<>>
    ELSE Shallow(frames[t], draining[t]) /\ (~draining[t] => pending[t] = <<>>)

IInv == Types /\ \A t \in Thread : Shape(t)

-----------------------------------------------------------------------------
(* Sequences.                                                              *)

\* A piece of a sequence.
LEMMA SubSeqType ==
    ASSUME NEW S, NEW q \in Seq(S), NEW m \in Nat \ {0}, NEW n \in Nat, n <= Len(q)
    PROVE  SubSeq(q, m, n) \in Seq(S)
  <1>1. \A i \in m .. n : q[i] \in S
    OBVIOUS
  <1> QED
    BY <1>1, SubSeqProperties

\* A sequence without its i-th element is one of the same elements.
LEMMA RemoveAtType ==
    ASSUME NEW S, NEW q \in Seq(S), NEW i \in DOMAIN q
    PROVE  RemoveAt(q, i) \in Seq(S)
  <1>1. i \in 1 .. Len(q) /\ Len(q) \in Nat
    OBVIOUS
  <1>2. SubSeq(q, 1, i - 1) \in Seq(S)
    BY <1>1, SubSeqType
  <1>3. SubSeq(q, i + 1, Len(q)) \in Seq(S)
    BY <1>1, SubSeqType
  <1> QED
    BY <1>2, <1>3, ConcatProperties DEF RemoveAt

\* The last element, and the rest.
LEMMA FrontLastType ==
    ASSUME NEW S, NEW q \in Seq(S), q # <<>>
    PROVE  Front(q) \in Seq(S) /\ Last(q) \in S
  <1>1. Len(q) \in Nat /\ Len(q) > 0
    OBVIOUS
  <1>2. SubSeq(q, 1, Len(q) - 1) \in Seq(S)
    BY <1>1, SubSeqType
  <1> QED
    BY <1>1, <1>2 DEF Front, Last

\* What was appended, and what it was appended to.
LEMMA FrontLastOfAppend ==
    ASSUME NEW S, NEW q \in Seq(S), NEW x \in S
    PROVE  Front(Append(q, x)) = q /\ Last(Append(q, x)) = x
  <1>1. Append(q, x) = q \o <<x>> /\ <<x>> \in Seq(S)
    BY AppendIsConcat
  <1>2. SubSeq(q \o <<x>>, 1, Len(q)) = SubSeq(q, 1, Len(q))
    BY <1>1, SubSeqOfConcat1
  <1>3. SubSeq(q, 1, Len(q)) = q
    BY SubSeqFull
  <1>4. Len(Append(q, x)) = Len(q) + 1 /\ Append(q, x)[Len(q) + 1] = x /\ Len(q) \in Nat
    OBVIOUS
  <1> QED
    BY <1>1, <1>2, <1>3, <1>4 DEF Front, Last

\* One frame.
LEMMA AppendShort == ASSUME NEW a PROVE Append(<<>>, a) = <<a>>
  OBVIOUS

\* Where Drops run on a stack, and on one with a frame more.
Drops(fs) == {i \in DOMAIN fs : fs[i].runs = "drop"}
LEMMA DropsOfAppend ==
    ASSUME NEW S, NEW fs \in Seq(S), NEW x \in S
    PROVE  /\ Drops(Append(fs, x)) \subseteq Drops(fs) \cup {Len(fs) + 1}
           /\ x.runs # "drop" => Drops(Append(fs, x)) = Drops(fs)
           /\ Len(fs) + 1 \in Nat
  <1>1. ASSUME NEW i \in DOMAIN Append(fs, x)
        PROVE  (i \in DOMAIN fs /\ Append(fs, x)[i] = fs[i]) \/ (i = Len(fs) + 1 /\ Append(fs, x)[i] = x)
    <2>1. Len(Append(fs, x)) = Len(fs) + 1 /\ DOMAIN Append(fs, x) = 1 .. Len(fs) + 1
      OBVIOUS
    <2>2. CASE i = Len(fs) + 1
      BY <2>2
    <2>3. CASE i \in 1 .. Len(fs)
      BY <2>3
    <2> QED
      BY <2>1, <2>2, <2>3
  <1>2. \A i \in DOMAIN fs : i \in DOMAIN Append(fs, x) /\ Append(fs, x)[i] = fs[i]
    OBVIOUS
  <1>3. Len(fs) + 1 \in Nat
    OBVIOUS
  <1> QED
    BY <1>1, <1>2, <1>3 DEF Drops

\* The stacks there may be, from the top.
LEMMA Stacks ==
    ASSUME NEW b \in Base, NEW f \in Working, NEW g \in Working
    PROVE  /\ b \in Seq(Working \cup {DrainFrame})
           /\ One(b, f) \in Seq(Working \cup {DrainFrame}) /\ Front(One(b, f)) = b /\ Last(One(b, f)) = f
           /\ Loop(b, f) \in Seq(Working \cup {DrainFrame})
           /\ Front(Loop(b, f)) = One(b, f) /\ Last(Loop(b, f)) = DrainFrame
           /\ Two(b, f, g) \in Seq(Working \cup {DrainFrame})
           /\ Front(Two(b, f, g)) = Loop(b, f) /\ Last(Two(b, f, g)) = g
  <1> DEFINE S == Working \cup {DrainFrame}
  <1>1. f \in S /\ g \in S /\ DrainFrame \in S
    OBVIOUS
  <1>2. b \in Seq(S)
    <2>1. \A e \in Erasing : <<e>> \in Seq(S)
      BY DEF Erasing
    <2>2. <<>> \in Seq(S)
      OBVIOUS
    <2> HIDE DEF S
    <2> QED
      BY <2>1, <2>2 DEF Base
  <1> HIDE DEF S
  <1>3. One(b, f) \in Seq(S) /\ Front(One(b, f)) = b /\ Last(One(b, f)) = f
    BY <1>1, <1>2, FrontLastOfAppend DEF One
  <1>4. Loop(b, f) \in Seq(S) /\ Front(Loop(b, f)) = One(b, f) /\ Last(Loop(b, f)) = DrainFrame
    BY <1>1, <1>3, FrontLastOfAppend DEF Loop
  <1>5. Two(b, f, g) \in Seq(S) /\ Front(Two(b, f, g)) = Loop(b, f) /\ Last(Two(b, f, g)) = g
    BY <1>1, <1>4, FrontLastOfAppend DEF Two
  <1> QED
    BY <1>2, <1>3, <1>4, <1>5 DEF S

\* A stack with one frame that works.
LEMMA FirstStack ==
    ASSUME NEW g \in Working
    PROVE  Shallow(<<g>>, FALSE)
  <1>1. CASE g \in Erasing
    <2>1. <<g>> \in Base
      BY <1>1 DEF Base
    <2> QED
      BY <2>1 DEF Shallow
  <1>2. CASE g \in Listing
    <2>1. <<>> \in Base /\ <<g>> = One(<<>>, g)
      BY DEF Base, One
    <2> QED
      BY <1>2, <2>1 DEF Shallow
  <1> QED
    BY <1>1, <1>2 DEF Listing, Erasing

\* The loop does not run on an empty stack.
LEMMA EmptyStack ==
    ASSUME NEW d \in BOOLEAN, Shallow(<<>>, d)
    PROVE  ~d
  <1>1. ASSUME NEW b \in Base, NEW f \in Working, NEW g \in Working
        PROVE  Loop(b, f) # <<>> /\ Two(b, f, g) # <<>>
    <2>1. One(b, f) \in Seq(Working \cup {DrainFrame}) /\ Loop(b, f) \in Seq(Working \cup {DrainFrame})
      BY Stacks
    <2> QED
      BY <2>1 DEF Loop, Two
  <1> QED
    BY <1>1 DEF Shallow, Listing

\* A function with two of its values replaced.
LEMMA TwoUpdates ==
    ASSUME NEW S, NEW T, NEW f \in [S -> T], NEW a \in S, NEW b \in S, NEW q \in T, NEW r \in T
    PROVE  [f EXCEPT ![a] = q, ![b] = r] \in [S -> T]
  OBVIOUS

\* A set of two has at most two members.
LEMMA PairCardinality ==
    ASSUME NEW x, NEW y
    PROVE  IsFiniteSet({x, y}) /\ Cardinality({x, y}) <= 2
  <1>1. IsFiniteSet({x}) /\ Cardinality({x}) = 1
    BY FS_Singleton
  <1>2. IsFiniteSet({x} \cup {y}) /\ Cardinality({x} \cup {y}) <= 2
    BY <1>1, FS_AddElement
  <1>3. {x} \cup {y} = {x, y}
    OBVIOUS
  <1> QED
    BY <1>2, <1>3

-----------------------------------------------------------------------------
(* Steps.                                                                  *)

\* At the start no thread has a frame.
LEMMA InitInvariant == ASSUME Init PROVE IInv
  <1>1. <<>> \in Base
    BY DEF Base
  <1> QED
    BY <1>1 DEF Init, IInv, Types, Shape, Shallow

\* Edges, handles and stacks after the edge to n has been dropped.
LEMMA DropEdgeFrames ==
    ASSUME Types, NEW t \in Thread, NEW n \in Node, NEW fs \in Seq(Working \cup {DrainFrame}),
           DropEdge(t, n, fs)
    PROVE  /\ edges' \in [Node -> Seq(Node)]
           /\ frames' \in [Thread -> Seq(Working \cup {DrainFrame})]
           /\ frames'[t] = fs \/ \E g \in Listing : frames'[t] = Append(fs, g)
           /\ \A u \in Thread \ {t} : frames'[u] = frames[u]
  <1>1. DropFrame(n, edges[n]) \in Listing /\ Listing \subseteq Working
    BY DEF Types, Working, Listing, DropFrame
  <1>2. CASE strong[n] = 1
    <2>1. edges' = [edges EXCEPT ![n] = <<>>] /\ frames' = [frames EXCEPT ![t] = Append(fs, DropFrame(n, edges[n]))]
      BY <1>2 DEF DropEdge
    <2> QED
      BY <1>1, <2>1 DEF Types
  <1>3. CASE strong[n] # 1
    <2>1. edges' = edges /\ frames' = [frames EXCEPT ![t] = fs]
      BY <1>3 DEF DropEdge
    <2> QED
      BY <2>1 DEF Types
  <1> QED
    BY <1>2, <1>3

\* A step of one thread leaves the stacks of the others alone.
LEMMA OneThread ==
    ASSUME IInv, NEW t \in Thread, Types', Shape(t)',
           \A u \in Thread \ {t} : /\ frames'[u] = frames[u] /\ pending'[u] = pending[u]
                                   /\ draining'[u] = draining[u] /\ gone'[u] = gone[u]
    PROVE  IInv'
  <1>1. ASSUME NEW u \in Thread \ {t} PROVE Shape(u)'
    BY DEF IInv, Shape, Shallow
  <1> QED
    BY <1>1 DEF IInv

\* Operations of a thread at rest that move references without a release.
LEMMA MovesKeep ==
    ASSUME IInv, gone' = gone, pending' = pending, draining' = draining, frames' = frames,
           edges' \in [Node -> Seq(Node)], held' \in [Thread -> Seq(Node)]
    PROVE  IInv'
  BY DEF IInv, Types, Shape, Shallow

\* A thread at rest stays at rest or enters a Drop, or a clear.
LEMMA FirstFrame ==
    ASSUME Types, NEW t \in Thread, Shape(t), frames[t] = <<>>,
           frames'[t] = <<>> \/ \E g \in Working : frames'[t] = <<g>>,
           pending'[t] = pending[t], draining'[t] = draining[t], gone'[t] = gone[t]
    PROVE  Shape(t)'
  <1>1. Shallow(<<>>, draining[t]) => ~draining[t]
    BY EmptyStack DEF Types
  <1>2. ~draining[t] /\ pending[t] = <<>>
    BY <1>1 DEF Shape
  <1>3. frames'[t] \in Seq(Working)
    <2>1. \A g \in Working : <<g>> \in Seq(Working)
      OBVIOUS
    <2>2. <<>> \in Seq(Working)
      OBVIOUS
    <2> QED
      BY <2>1, <2>2
  <1>4. Shallow(frames'[t], draining'[t])
    <2>1. draining'[t] = FALSE
      BY <1>2 DEF Types
    <2>2. Shallow(<<>>, FALSE)
      BY DEF Shallow, Base
    <2> QED
      BY <2>1, <2>2, FirstStack
  <1> QED
    BY <1>2, <1>3, <1>4 DEF Shape

\* What a thread at rest does.
LEMMA OperateKeeps ==
    ASSUME IInv, NEW t \in Thread, Operate(t)
    PROVE  IInv'
  <1> USE DEF Types
  <1>0. Types
    BY DEF IInv
  <1>1. CASE Create(t)
    <2> DEFINE n == CHOOSE m \in Node : state[m] = "unborn"
    <2>1. n \in Node
      BY <1>1 DEF Create
    <2>2. held' = [held EXCEPT ![t] = Append(@, n)] /\ UNCHANGED <<edges, gone, pending, draining, frames>>
      BY <1>1 DEF Create, release
    <2> HIDE DEF n
    <2> QED
      BY <1>0, <2>1, <2>2, MovesKeep
  <1>2. ASSUME NEW n \in Node, Pop(t, n) PROVE IInv'
    <2>1. Front(edges[n]) \in Seq(Node) /\ Last(edges[n]) \in Node
      BY <1>0, <1>2, FrontLastType DEF Pop
    <2> QED
      BY <1>0, <1>2, <2>1, MovesKeep DEF Pop, release
  <1>3. ASSUME NEW n \in Node, NEW u \in Thread, CloneHandle(t, n, u) PROVE IInv'
    BY <1>0, <1>3, MovesKeep DEF CloneHandle, release
  <1>4. ASSUME NEW n \in Node, NEW i \in 1 .. MaxEdges, Get(t, n, i) PROVE IInv'
    BY <1>0, <1>4, MovesKeep DEF Get, release
  <1>5. ASSUME NEW n \in Node, NEW i \in 1 .. MaxHeld[t], Push(t, n, i) PROVE IInv'
    <2>1. RemoveAt(held[t], i) \in Seq(Node) /\ held[t][i] \in Node
      BY <1>0, <1>5, RemoveAtType DEF Push
    <2> QED
      BY <1>0, <1>5, <2>1, MovesKeep DEF Push, release
  <1>6. ASSUME NEW i \in 1 .. MaxHeld[t], DropHandle(t, i) PROVE IInv'
    <2>1. RemoveAt(held[t], i) \in Seq(Node) /\ held[t][i] \in Node
      BY <1>0, <1>6, RemoveAtType DEF DropHandle
    <2>2. <<>> \in Seq(Working \cup {DrainFrame})
      OBVIOUS
    <2>3. DropEdge(t, held[t][i], <<>>)
      BY <1>6 DEF DropHandle
    <2>4. /\ edges' \in [Node -> Seq(Node)]
          /\ frames' \in [Thread -> Seq(Working \cup {DrainFrame})]
          /\ frames'[t] = <<>> \/ \E g \in Listing : frames'[t] = Append(<<>>, g)
          /\ \A u \in Thread \ {t} : frames'[u] = frames[u]
      BY <1>0, <2>1, <2>2, <2>3, DropEdgeFrames
    <2>5. UNCHANGED <<pending, draining, gone>> /\ held' = [held EXCEPT ![t] = RemoveAt(@, i)]
      BY <1>6 DEF DropHandle
    <2>6. Types'
      BY <1>0, <2>1, <2>4, <2>5
    <2>7. Shape(t)
      BY DEF IInv
    <2>8. frames[t] = <<>>
      BY <1>6 DEF DropHandle, Idle
    <2>9. Shape(t)'
      <3>1. \A g : Append(<<>>, g) = <<g>>
        OBVIOUS
      <3> QED
        BY <1>0, <2>4, <2>5, <2>7, <2>8, <3>1, FirstFrame DEF Listing
    <2> QED
      BY <2>4, <2>5, <2>6, <2>9, OneThread
  <1>7. ASSUME NEW n \in Node, NEW i \in 1 .. MaxEdges, Overwrite(t, n, i) PROVE IInv'
    <2> DEFINE m == edges[n][i]
    <2>1. RemoveAt(edges[n], i) \in Seq(Node) /\ m \in Node
      BY <1>0, <1>7, RemoveAtType DEF Overwrite
    <2>2. DropFrame(m, edges[m]) \in Working
      BY <1>0, <2>1 DEF Working, DropFrame
    <2>3. \/ edges' = [edges EXCEPT ![n] = RemoveAt(@, i), ![m] = <<>>]
             /\ frames' = [frames EXCEPT ![t] = <<DropFrame(m, edges[m])>>]
          \/ edges' = [edges EXCEPT ![n] = RemoveAt(@, i)] /\ frames' = frames
      BY <1>7 DEF Overwrite
    <2>4. UNCHANGED <<held, pending, draining, gone>> /\ frames[t] = <<>>
      BY <1>7 DEF Overwrite, Idle
    <2>5. edges' \in [Node -> Seq(Node)]
      <3>1. [edges EXCEPT ![n] = RemoveAt(@, i)] \in [Node -> Seq(Node)]
        BY <1>0, <2>1
      <3>2. [edges EXCEPT ![n] = RemoveAt(@, i), ![m] = <<>>] \in [Node -> Seq(Node)]
        <4> DEFINE q == RemoveAt(edges[n], i)
        <4>1. q \in Seq(Node)
          BY <2>1
        <4> HIDE DEF q, m
        <4>2. [edges EXCEPT ![n] = q, ![m] = <<>>] \in [Node -> Seq(Node)]
          <5>1. edges \in [Node -> Seq(Node)] /\ <<>> \in Seq(Node)
            BY <1>0
          <5> QED
            BY <2>1, <4>1, <5>1, TwoUpdates
        <4> QED
          BY <4>2 DEF q
      <3>3. edges' = [edges EXCEPT ![n] = RemoveAt(@, i)]
            \/ edges' = [edges EXCEPT ![n] = RemoveAt(@, i), ![m] = <<>>]
        BY ZenonT(30), <2>3
      <3> QED
        BY ZenonT(30), <3>1, <3>2, <3>3
    <2>6. frames' \in [Thread -> Seq(Working \cup {DrainFrame})]
      <3>1. <<DropFrame(m, edges[m])>> \in Seq(Working \cup {DrainFrame})
        BY <2>2
      <3>2. CASE frames' = frames
        BY <1>0, <3>2
      <3>3. CASE frames' = [frames EXCEPT ![t] = <<DropFrame(m, edges[m])>>]
        <4> HIDE DEF m
        <4> QED
          BY <1>0, <3>1, <3>3
      <3> QED
        BY <2>3, <3>2, <3>3
    <2>7. frames'[t] = <<>> \/ \E g \in Working : frames'[t] = <<g>>
      BY <1>0, <2>2, <2>3, <2>4
    <2>8. \A u \in Thread \ {t} : frames'[u] = frames[u]
      BY <1>0, <2>3
    <2>9. Shape(t)
      BY DEF IInv
    <2>10. Shape(t)'
      BY <1>0, <2>4, <2>7, <2>9, FirstFrame
    <2> QED
      BY <1>0, <2>4, <2>5, <2>6, <2>8, <2>10, OneThread
  <1>8. ASSUME NEW n \in Node, Clear(t, n) PROVE IInv'
    <2> DEFINE f == [runs |-> IF n \in PerlArrays THEN "erase" ELSE "clear", node |-> n, left |-> edges[n]]
    <2>1. f \in Working
      BY <1>0 DEF Working
    <2>2. /\ edges' = [edges EXCEPT ![n] = <<>>] /\ frames' = [frames EXCEPT ![t] = <<f>>]
          /\ UNCHANGED <<held, pending, draining, gone>> /\ frames[t] = <<>>
      BY <1>8 DEF Clear, Idle
    <2> HIDE DEF f
    <2>3. Types' /\ frames'[t] = <<f>> /\ \A u \in Thread \ {t} : frames'[u] = frames[u]
      BY <1>0, <2>1, <2>2
    <2>4. Shape(t)
      BY DEF IInv
    <2>5. Shape(t)'
      BY <1>0, <2>1, <2>2, <2>3, <2>4, FirstFrame
    <2> QED
      BY <2>2, <2>3, <2>5, OneThread
  <1>9. CASE TearDown(t)
    <2>1. gone' = [gone EXCEPT ![t] = TRUE] /\ UNCHANGED <<edges, held, frames, pending, draining>> /\ frames[t] = <<>>
      BY <1>9 DEF TearDown, Idle, release
    <2>2. Shape(t) /\ ~gone[t]
      BY <1>9 DEF IInv, TearDown
    <2>3. ~draining[t] /\ pending[t] = <<>>
      <3>1. Shallow(<<>>, draining[t])
        BY <2>1, <2>2 DEF Shape
      <3>2. ~draining[t]
        BY <1>0, <3>1, EmptyStack
      <3> QED
        BY <2>2, <3>2 DEF Shape
    <2>4. Types'
      BY <1>0, <2>1
    <2>5. Shape(t)'
      BY <1>0, <2>1, <2>3 DEF Shape
    <2> QED
      BY <1>0, <2>1, <2>4, <2>5, OneThread
  <1> QED
    BY <1>1, <1>2, <1>3, <1>4, <1>5, <1>6, <1>7, <1>8, <1>9 DEF Operate

\* A node on top of a stack, and what its Drop or clear releases next.
LEMMA RestType ==
    ASSUME Types, NEW t \in Thread, Runs(t, {"drop", "clear", "erase"}), Top(t).left # <<>>
    PROVE  /\ Head(Top(t).left) \in Node
           /\ \E w \in Working : w.runs = Top(t).runs /\ Rest(t) = Append(Front(frames[t]), w)
  <1>1. frames[t] \in Seq(Working \cup {DrainFrame}) /\ frames[t] # <<>>
    BY DEF Types, Runs
  <1>2. Top(t) \in Working \cup {DrainFrame}
    BY <1>1, FrontLastType DEF Top
  <1>3. Top(t) \in Working
    BY <1>2 DEF Runs, DrainFrame
  <1>4. Tail(Top(t).left) \in Seq(Node) /\ Head(Top(t).left) \in Node
    BY <1>3 DEF Working
  <1> DEFINE w == [Top(t) EXCEPT !.left = Tail(@)]
  <1>5. w \in Working /\ w.runs = Top(t).runs
    BY <1>3, <1>4 DEF Working
  <1>6. Rest(t) = Append(Front(frames[t]), w)
    BY DEF Rest
  <1> HIDE DEF w
  <1> QED
    BY <1>4, <1>5, <1>6

\* What lists its elements, on a thread whose thread-local is alive: it is on
\* the bottom, or on the drain loop.
LEMMA ListingOnTop ==
    ASSUME Types, NEW t \in Thread, Shape(t), ~gone[t], Runs(t, {"drop", "clear"})
    PROVE  \E b \in Base :
               \/ Front(frames[t]) = b /\ ~draining[t]
               \/ \E f \in Listing : Front(frames[t]) = Loop(b, f) /\ draining[t]
  <1>1. PICK b \in Base :
            \/ frames[t] = b /\ ~draining[t]
            \/ \E f \in Listing : frames[t] = One(b, f) /\ ~draining[t]
            \/ \E f \in Listing : frames[t] = Loop(b, f) /\ draining[t]
            \/ \E f, g \in Listing : frames[t] = Two(b, f, g) /\ draining[t]
    BY DEF Shape, Shallow
  <1>2. frames[t] # <<>> /\ Last(frames[t]).runs \in {"drop", "clear"}
    BY DEF Runs, Top
  <1>3. CASE frames[t] = b
    <2>1. PICK e \in Erasing : frames[t] = <<e>>
      BY <1>2, <1>3 DEF Base
    <2>2. Last(frames[t]) = e
      BY <2>1 DEF Last
    <2> QED
      BY <1>2, <2>2 DEF Erasing
  <1>4. ASSUME NEW f \in Listing, frames[t] = One(b, f), ~draining[t] PROVE Front(frames[t]) = b
    BY <1>4, Stacks DEF Listing
  <1>5. ASSUME NEW f \in Listing, frames[t] = Loop(b, f) PROVE FALSE
    <2>1. Last(frames[t]) = DrainFrame
      BY <1>5, Stacks DEF Listing
    <2> QED
      BY <1>2, <2>1 DEF DrainFrame
  <1>6. ASSUME NEW f \in Listing, NEW g \in Listing, frames[t] = Two(b, f, g) PROVE Front(frames[t]) = Loop(b, f)
    BY <1>6, Stacks DEF Listing
  <1> QED
    BY <1>1, <1>3, <1>4, <1>5, <1>6

\* The clear of a default array, on such a thread, is the only frame.
LEMMA ErasingOnTop ==
    ASSUME Types, NEW t \in Thread, Shape(t), ~gone[t], Runs(t, {"erase"})
    PROVE  Front(frames[t]) = <<>> /\ ~draining[t]
  <1>1. PICK b \in Base :
            \/ frames[t] = b /\ ~draining[t]
            \/ \E f \in Listing : frames[t] = One(b, f) /\ ~draining[t]
            \/ \E f \in Listing : frames[t] = Loop(b, f) /\ draining[t]
            \/ \E f, g \in Listing : frames[t] = Two(b, f, g) /\ draining[t]
    BY DEF Shape, Shallow
  <1>2. frames[t] # <<>> /\ Last(frames[t]).runs = "erase"
    BY DEF Runs, Top
  <1>3. ASSUME NEW f \in Listing, frames[t] = One(b, f) PROVE FALSE
    <2>1. Last(frames[t]) = f
      BY <1>3, Stacks DEF Listing
    <2> QED
      BY <1>2, <2>1 DEF Listing
  <1>4. ASSUME NEW f \in Listing, frames[t] = Loop(b, f) PROVE FALSE
    <2>1. Last(frames[t]) = DrainFrame
      BY <1>4, Stacks DEF Listing
    <2> QED
      BY <1>2, <2>1 DEF DrainFrame
  <1>5. ASSUME NEW f \in Listing, NEW g \in Listing, frames[t] = Two(b, f, g) PROVE FALSE
    <2>1. Last(frames[t]) = g
      BY <1>5, Stacks DEF Listing
    <2> QED
      BY <1>2, <2>1 DEF Listing
  <1>6. frames[t] = b /\ ~draining[t]
    BY <1>1, <1>3, <1>4, <1>5
  <1>7. PICK e \in Erasing : frames[t] = <<e>>
    BY <1>2, <1>6 DEF Base
  <1>8. Front(<<e>>) = <<>>
    BY DEF Front
  <1> QED
    BY <1>6, <1>7, <1>8

\* Where the drain loop can be on top: on the node that started it.
LEMMA DrainOnTop ==
    ASSUME Types, NEW t \in Thread, Shape(t), Runs(t, {"drain"})
    PROVE  ~gone[t] /\ draining[t] /\ \E b \in Base, f \in Listing : frames[t] = Loop(b, f)
  <1>1. frames[t] # <<>> /\ Last(frames[t]).runs = "drain"
    BY DEF Runs, Top
  <1>2. ~gone[t]
    <2>1. SUFFICES ASSUME gone[t] PROVE FALSE
      OBVIOUS
    <2>2. frames[t] \in Seq(Working)
      BY <2>1 DEF Shape
    <2>3. Last(frames[t]) \in Working
      BY <1>1, <2>2, FrontLastType
    <2> QED
      BY <1>1, <2>3 DEF Working
  <1>3. PICK b \in Base :
            \/ frames[t] = b /\ ~draining[t]
            \/ \E f \in Listing : frames[t] = One(b, f) /\ ~draining[t]
            \/ \E f \in Listing : frames[t] = Loop(b, f) /\ draining[t]
            \/ \E f, g \in Listing : frames[t] = Two(b, f, g) /\ draining[t]
    BY <1>2 DEF Shape, Shallow
  <1>4. CASE frames[t] = b
    <2>1. PICK e \in Erasing : frames[t] = <<e>>
      BY <1>1, <1>4 DEF Base
    <2>2. Last(frames[t]) = e
      BY <2>1 DEF Last
    <2> QED
      BY <1>1, <2>2 DEF Erasing
  <1>5. ASSUME NEW f \in Listing, frames[t] = One(b, f) PROVE FALSE
    <2>1. Last(frames[t]) = f
      BY <1>5, Stacks DEF Listing
    <2> QED
      BY <1>1, <2>1 DEF Listing, Working
  <1>6. ASSUME NEW f \in Listing, NEW g \in Listing, frames[t] = Two(b, f, g) PROVE FALSE
    <2>1. Last(frames[t]) = g
      BY <1>6, Stacks DEF Listing
    <2> QED
      BY <1>1, <2>1 DEF Listing, Working
  <1> QED
    BY <1>2, <1>3, <1>4, <1>5, <1>6

\* A value of a dying node, or of one that is cleared, joins the worklist.
LEMMA ReleaseValueKeeps ==
    ASSUME IInv, NEW t \in Thread, ReleaseValue(t)
    PROVE  IInv'
  <1>1. Types /\ Shape(t) /\ ~gone[t] /\ Runs(t, {"drop", "clear"}) /\ Top(t).left # <<>>
    BY DEF IInv, ReleaseValue
  <1>2. Runs(t, {"drop", "clear", "erase"}) /\ Top(t).runs \in {"drop", "clear"}
    BY <1>1 DEF Runs
  <1>3. Head(Top(t).left) \in Node
    BY <1>1, <1>2, RestType
  <1>4. PICK w \in Listing : Rest(t) = Append(Front(frames[t]), w)
    BY <1>1, <1>2, RestType DEF Listing
  <1>5. /\ pending' = [pending EXCEPT ![t] = Append(@, Head(Top(t).left))]
        /\ draining' = [draining EXCEPT ![t] = TRUE]
        /\ frames' = [frames EXCEPT ![t] = IF draining[t] THEN Rest(t) ELSE Append(Rest(t), DrainFrame)]
        /\ UNCHANGED <<edges, held, gone>>
    BY DEF ReleaseValue
  <1> DEFINE fs == IF draining[t] THEN Rest(t) ELSE Append(Rest(t), DrainFrame)
  <1>6. Shallow(fs, TRUE) /\ fs \in Seq(Working \cup {DrainFrame})
    <2>1. ASSUME NEW b \in Base, Front(frames[t]) = b, ~draining[t]
          PROVE  Shallow(fs, TRUE) /\ fs \in Seq(Working \cup {DrainFrame})
      <3>1. fs = Loop(b, w)
        BY <1>4, <2>1 DEF Loop, One
      <3> QED
        BY <3>1, Stacks DEF Shallow, Listing
    <2>2. ASSUME NEW b \in Base, NEW f \in Listing, Front(frames[t]) = Loop(b, f), draining[t]
          PROVE  Shallow(fs, TRUE) /\ fs \in Seq(Working \cup {DrainFrame})
      <3>1. fs = Two(b, f, w)
        BY <1>4, <2>2 DEF Two
      <3> QED
        BY <3>1, Stacks DEF Shallow, Listing
    <2> QED
      BY <1>1, <2>1, <2>2, ListingOnTop
  <1>7. frames' = [frames EXCEPT ![t] = fs]
    BY <1>5
  <1> HIDE DEF fs
  <1>8. Append(pending[t], Head(Top(t).left)) \in Seq(Node)
    BY <1>1, <1>3 DEF Types
  <1>9. /\ Types' /\ frames'[t] = fs /\ draining'[t] = TRUE /\ gone'[t] = gone[t]
        /\ \A u \in Thread \ {t} : /\ frames'[u] = frames[u] /\ pending'[u] = pending[u]
                                    /\ draining'[u] = draining[u] /\ gone'[u] = gone[u]
    BY <1>1, <1>5, <1>6, <1>7, <1>8 DEF Types
  <1>10. Shape(t)'
    BY <1>1, <1>6, <1>9 DEF Shape
  <1> QED
    BY <1>9, <1>10, OneThread

\* A value is dropped where it is: the thread-local is gone, or a default array
\* is cleared.
LEMMA ReleaseUnlistedKeeps ==
    ASSUME IInv, NEW t \in Thread, ReleaseUnlisted(t)
    PROVE  IInv'
  <1>1. /\ Types /\ Shape(t) /\ Runs(t, {"drop", "clear", "erase"}) /\ Top(t).left # <<>>
        /\ ~gone[t] => Runs(t, {"erase"})
    BY DEF IInv, ReleaseUnlisted, Runs
  <1>2. Head(Top(t).left) \in Node
    BY <1>1, RestType
  <1>3. PICK w \in Working : w.runs = Top(t).runs /\ Rest(t) = Append(Front(frames[t]), w)
    BY <1>1, RestType
  <1>4. Rest(t) \in Seq(Working \cup {DrainFrame})
    <2>1. frames[t] \in Seq(Working \cup {DrainFrame}) /\ frames[t] # <<>>
      BY <1>1 DEF Types, Runs
    <2>2. Front(frames[t]) \in Seq(Working \cup {DrainFrame})
      BY <2>1, FrontLastType
    <2> QED
      BY <1>3, <2>2
  <1>5. DropEdge(t, Head(Top(t).left), Rest(t)) /\ UNCHANGED <<held, pending, draining, gone>>
    BY DEF ReleaseUnlisted
  <1>6. /\ edges' \in [Node -> Seq(Node)]
        /\ frames' \in [Thread -> Seq(Working \cup {DrainFrame})]
        /\ frames'[t] = Rest(t) \/ \E g \in Listing : frames'[t] = Append(Rest(t), g)
        /\ \A u \in Thread \ {t} : frames'[u] = frames[u]
    BY <1>1, <1>2, <1>4, <1>5, DropEdgeFrames
  <1>7. Types'
    BY <1>1, <1>5, <1>6 DEF Types
  <1>8. CASE gone[t]
    <2>1. frames[t] \in Seq(Working) /\ frames[t] # <<>>
      BY <1>1, <1>8 DEF Shape, Runs
    <2>2. Rest(t) \in Seq(Working)
      BY <1>3, <2>1, FrontLastType
    <2>3. frames'[t] \in Seq(Working)
      BY <1>6, <2>2 DEF Listing
    <2>4. Shape(t)'
      BY <1>1, <1>5, <1>8, <2>3 DEF Shape
    <2> QED
      BY <1>5, <1>6, <1>7, <2>4, OneThread
  <1>9. CASE ~gone[t]
    <2>1. Front(frames[t]) = <<>> /\ ~draining[t] /\ w \in Erasing
      BY <1>1, <1>3, <1>9, ErasingOnTop DEF Runs, Erasing
    <2>2. Rest(t) = <<w>> /\ <<w>> \in Base
      BY <1>3, <2>1 DEF Base
    <2>3. Shallow(frames'[t], FALSE)
      BY <1>6, <2>2 DEF Shallow, One
    <2>4. draining[t] = FALSE
      BY <1>1, <2>1 DEF Types
    <2>5. Shape(t)'
      BY <1>1, <1>5, <1>9, <2>3, <2>4 DEF Shape
    <2> QED
      BY <1>5, <1>6, <1>7, <2>5, OneThread
  <1> QED
    BY <1>8, <1>9

\* A Drop or a clear returns.
LEMMA ReturnKeeps ==
    ASSUME IInv, NEW t \in Thread, Return(t)
    PROVE  IInv'
  <1>1. Types /\ Shape(t) /\ frames[t] # <<>> /\ (Runs(t, {"drop", "clear"}) \/ Runs(t, {"erase"}))
    BY DEF IInv, Return, Runs
  <1>2. frames' = [frames EXCEPT ![t] = Front(@)] /\ UNCHANGED <<edges, held, pending, draining, gone>>
    BY DEF Return
  <1>3. Front(frames[t]) \in Seq(Working \cup {DrainFrame})
    BY <1>1, FrontLastType DEF Types
  <1>4. Types' /\ frames'[t] = Front(frames[t]) /\ \A u \in Thread \ {t} : frames'[u] = frames[u]
    BY <1>1, <1>2, <1>3 DEF Types
  <1>5. CASE gone[t]
    <2>1. Front(frames[t]) \in Seq(Working)
      BY <1>1, <1>5, FrontLastType DEF Shape
    <2>2. Shape(t)'
      BY <1>1, <1>2, <1>4, <1>5, <2>1 DEF Shape
    <2> QED
      BY <1>2, <1>4, <2>2, OneThread
  <1>6. CASE ~gone[t]
    <2>1. Shallow(Front(frames[t]), draining[t])
      <3>1. CASE Runs(t, {"drop", "clear"})
        BY <1>1, <1>6, <3>1, ListingOnTop DEF Shallow
      <3>2. CASE Runs(t, {"erase"})
        BY <1>1, <1>6, <3>2, ErasingOnTop DEF Shallow, Base
      <3> QED
        BY <1>1, <3>1, <3>2
    <2>2. Shape(t)'
      BY <1>1, <1>2, <1>4, <1>6, <2>1 DEF Shape
    <2> QED
      BY <1>2, <1>4, <2>2, OneThread
  <1> QED
    BY <1>5, <1>6

\* The drain loop drops the latest edge.
LEMMA DrainKeeps ==
    ASSUME IInv, NEW t \in Thread, Drain(t)
    PROVE  IInv'
  <1>1. Types /\ Shape(t) /\ Runs(t, {"drain"}) /\ pending[t] # <<>> /\ pending[t] \in Seq(Node)
    BY DEF IInv, Drain, Types
  <1>2. ~gone[t] /\ draining[t]
    BY <1>1, DrainOnTop
  <1>3. PICK b \in Base, f \in Listing : frames[t] = Loop(b, f)
    BY <1>1, DrainOnTop
  <1>4. Front(pending[t]) \in Seq(Node) /\ Last(pending[t]) \in Node
    BY <1>1, FrontLastType
  <1>5. /\ DropEdge(t, Last(pending[t]), frames[t])
        /\ pending' = [pending EXCEPT ![t] = Front(@)] /\ UNCHANGED <<held, draining, gone>>
    BY DEF Drain
  <1>6. /\ edges' \in [Node -> Seq(Node)]
        /\ frames' \in [Thread -> Seq(Working \cup {DrainFrame})]
        /\ frames'[t] = frames[t] \/ \E g \in Listing : frames'[t] = Append(frames[t], g)
        /\ \A u \in Thread \ {t} : frames'[u] = frames[u]
    BY <1>1, <1>4, <1>5, DropEdgeFrames DEF Types
  <1>7. \A g : Append(Loop(b, f), g) = Two(b, f, g)
    BY DEF Two
  <1>8. Shallow(frames'[t], draining[t])
    BY <1>2, <1>3, <1>6, <1>7 DEF Shallow
  <1>9. Types' /\ \A u \in Thread \ {t} : pending'[u] = pending[u]
    BY <1>1, <1>4, <1>5, <1>6 DEF Types
  <1>10. Shape(t)'
    BY <1>2, <1>5, <1>8 DEF Shape
  <1> QED
    BY <1>5, <1>6, <1>9, <1>10, OneThread

\* The worklist is empty, and the loop ends.
LEMMA DrainEndKeeps ==
    ASSUME IInv, NEW t \in Thread, DrainEnd(t)
    PROVE  IInv'
  <1>1. Types /\ Shape(t) /\ Runs(t, {"drain"}) /\ pending[t] = <<>>
    BY DEF IInv, DrainEnd
  <1>2. ~gone[t]
    BY <1>1, DrainOnTop
  <1>3. PICK b \in Base, f \in Listing : frames[t] = Loop(b, f)
    BY <1>1, DrainOnTop
  <1>4. /\ draining' = [draining EXCEPT ![t] = FALSE] /\ frames' = [frames EXCEPT ![t] = Front(@)]
        /\ UNCHANGED <<edges, held, pending, gone>>
    BY DEF DrainEnd
  <1>5. Front(frames[t]) = One(b, f) /\ One(b, f) \in Seq(Working \cup {DrainFrame})
    BY <1>3, Stacks DEF Listing
  <1>6. frames' = [frames EXCEPT ![t] = One(b, f)]
    BY <1>4, <1>5
  <1>7. /\ Types' /\ frames'[t] = One(b, f) /\ ~draining'[t]
        /\ \A u \in Thread \ {t} : frames'[u] = frames[u] /\ draining'[u] = draining[u]
    BY <1>1, <1>4, <1>5, <1>6 DEF Types
  <1>8. Shape(t)'
    BY <1>1, <1>2, <1>4, <1>7 DEF Shape, Shallow
  <1> QED
    BY <1>4, <1>7, <1>8, OneThread

\* Every step of the module keeps the invariant.
LEMMA StepKeeps == ASSUME IInv, [Next]_vars PROVE IInv'
  <1>1. ASSUME NEW t \in Thread, Operate(t) \/ Releasing(t) PROVE IInv'
    BY <1>1, OperateKeeps, ReleaseValueKeeps, ReleaseUnlistedKeeps, ReturnKeeps, DrainKeeps, DrainEndKeeps
    DEF Releasing
  <1>2. CASE UNCHANGED vars
    BY <1>2, MovesKeep DEF vars, release, IInv, Types
  <1> QED
    BY <1>1, <1>2 DEF Next

-----------------------------------------------------------------------------
(* Theorems.                                                               *)

\* In every state the stack of a thread is one of the short ones, or its
\* thread-local is gone and it lists nothing (heap.rs, release_value).
THEOREM StackInvariant == Spec => []IInv
  <1>1. Init => IInv
    BY InitInvariant
  <1>2. IInv /\ [Next]_vars => IInv'
    BY StepKeeps
  <1> QED
    BY <1>1, <1>2, PTL DEF Spec

\* However many nodes die at once, and however deep they are nested, no thread
\* whose thread-local is alive runs more than two Drops at a time.
THEOREM StackIsShallow == Spec => []ShallowStack
  <1>1. ASSUME IInv, NEW t \in Thread, ~gone[t]
        PROVE  Cardinality({i \in DOMAIN frames[t] : frames[t][i].runs = "drop"}) <= 2
    <2>1. PICK b \in Base : \/ frames[t] = b
                            \/ \E f \in Working : frames[t] = One(b, f)
                            \/ \E f \in Working : frames[t] = Loop(b, f)
                            \/ \E f, g \in Working : frames[t] = Two(b, f, g)
      BY <1>1 DEF IInv, Shape, Shallow, Listing
    <2>2. Drops(b) = {}
      BY DEF Drops, Base, Erasing
    <2>3. ASSUME NEW f \in Working, NEW g \in Working
          PROVE  \E i, j \in Nat : /\ Drops(One(b, f)) \subseteq {i, j} /\ Drops(Loop(b, f)) \subseteq {i, j}
                                  /\ Drops(Two(b, f, g)) \subseteq {i, j}
      <3> DEFINE S == Working \cup {DrainFrame}
                 i == Len(b) + 1
                 j == Len(Loop(b, f)) + 1
      <3>1. f \in S /\ g \in S /\ DrainFrame \in S /\ DrainFrame.runs # "drop"
        BY DEF DrainFrame
      <3>2. b \in Seq(S) /\ One(b, f) \in Seq(S) /\ Loop(b, f) \in Seq(S)
        BY Stacks
      <3> HIDE DEF S
      <3>3. Drops(One(b, f)) \subseteq {i} /\ i \in Nat
        BY <2>2, <3>1, <3>2, DropsOfAppend DEF One
      <3>4. Drops(Loop(b, f)) = Drops(One(b, f))
        BY <3>1, <3>2, DropsOfAppend DEF Loop
      <3>5. Drops(Two(b, f, g)) \subseteq Drops(Loop(b, f)) \cup {j} /\ j \in Nat
        BY <3>1, <3>2, DropsOfAppend DEF Two
      <3> HIDE DEF i, j
      <3> QED
        BY <3>3, <3>4, <3>5
    <2>4. \E i, j \in Nat : Drops(frames[t]) \subseteq {i, j}
      <3>1. CASE frames[t] = b
        BY <2>2, <3>1
      <3>2. ASSUME NEW f \in Working, frames[t] = One(b, f) \/ frames[t] = Loop(b, f)
            PROVE  \E i, j \in Nat : Drops(frames[t]) \subseteq {i, j}
        BY <2>3, <3>2
      <3>3. ASSUME NEW f \in Working, NEW g \in Working, frames[t] = Two(b, f, g)
            PROVE  \E i, j \in Nat : Drops(frames[t]) \subseteq {i, j}
        BY <2>3, <3>3
      <3> QED
        BY <2>1, <3>1, <3>2, <3>3
    <2>5. PICK i \in Nat, j \in Nat : Drops(frames[t]) \subseteq {i, j}
      BY <2>4
    <2>6. IsFiniteSet({i, j}) /\ Cardinality({i, j}) <= 2
      BY PairCardinality
    <2>7. IsFiniteSet(Drops(frames[t])) /\ Cardinality(Drops(frames[t])) <= Cardinality({i, j})
      BY ZenonT(30), <2>5, <2>6, FS_Subset
    <2>8. Cardinality(Drops(frames[t])) \in Nat /\ Cardinality({i, j}) \in Nat
      BY <2>6, <2>7, FS_CardinalityType
    <2>9. Cardinality(Drops(frames[t])) <= 2
      BY <2>6, <2>7, <2>8
    <2> QED
      BY <2>9 DEF Drops
  <1>2. IInv => ShallowStack
    BY <1>1 DEF ShallowStack
  <1> QED
    BY <1>2, StackInvariant, PTL

\* A thread that has left its last Drop has dropped all it had put off.
THEOREM WorklistIsDrained == Spec => []Settled
  <1>1. ASSUME IInv, NEW t \in Thread, Idle(t)
        PROVE  pending[t] = <<>> /\ ~draining[t]
    <2>1. frames[t] = <<>> /\ Shape(t) /\ draining[t] \in BOOLEAN
      BY <1>1 DEF IInv, Idle, Types
    <2>2. Shallow(<<>>, draining[t]) => ~draining[t]
      BY <2>1, EmptyStack
    <2> QED
      BY <2>1, <2>2 DEF Shape
  <1>2. IInv => Settled
    BY <1>1 DEF Settled
  <1> QED
    BY <1>2, StackInvariant, PTL

-----------------------------------------------------------------------------
(* Families of sequences of edges.                                         *)

\* Every place a sequence of edges may ever be kept in.
Shelf ==
    ({"elements"} \X Node) \cup ({"handles", "listed"} \X Thread) \cup ({"taken"} \X (Thread \X Nat))

\* The places of x in a family of sequences.
Places(B, x) == {p \in Shelf \X Nat : p[2] \in DOMAIN B[p[1]] /\ B[p[1]][p[2]] = x}

\* Only the sequences on shelves ks differ.
Differ(B, C, ks) ==
    /\ B \in [Shelf -> Seq(Node)] /\ C \in [Shelf -> Seq(Node)] /\ ks \subseteq Shelf
    /\ \A h \in Shelf : h \notin ks => C[h] = B[h]

\* One more at the end of a sequence, one taken out of it, all moved to another.
Longer(B, C, k, y) == Differ(B, C, {k}) /\ y \in Node /\ C[k] = Append(B[k], y)
Shorter(B, C, k, i) == Differ(B, C, {k}) /\ i \in DOMAIN B[k] /\ C[k] = RemoveAt(B[k], i)
Shifted(B, C, k, m) == Differ(B, C, {k, m}) /\ k # m /\ B[m] = <<>> /\ C[k] = <<>> /\ C[m] = B[k]

\* One more at the end of one of the sequences.
LEMMA PlacesAppend ==
    ASSUME NEW B, NEW C, NEW k, NEW y, Longer(B, C, k, y), NEW x, IsFiniteSet(Places(B, x))
    PROVE  /\ IsFiniteSet(Places(C, x))
           /\ Cardinality(Places(C, x)) = Cardinality(Places(B, x)) + (IF x = y THEN 1 ELSE 0)
  <1> DEFINE n == Len(B[k]) + 1
             P == Places(B, x)
             Q == Places(C, x)
  <1>0. /\ B \in [Shelf -> Seq(Node)] /\ C \in [Shelf -> Seq(Node)] /\ k \in Shelf /\ y \in Node
        /\ C[k] = Append(B[k], y) /\ \A h \in Shelf : h # k => C[h] = B[h]
    BY DEF Longer, Differ
  <1>1. Len(B[k]) \in Nat /\ DOMAIN B[k] = 1 .. Len(B[k]) /\ B[k] \in Seq(Node)
    BY <1>0
  <1>2. DOMAIN C[k] = 1 .. n /\ C[k][n] = y /\ \A i \in 1 .. Len(B[k]) : C[k][i] = B[k][i]
    BY <1>0, <1>1
  <1>3. <<k, n>> \notin P
    BY <1>1 DEF Places
  <1>4. ASSUME NEW p PROVE p \in Q <=> p \in P \/ (x = y /\ p = <<k, n>>)
    <2>1. CASE p \in Shelf \X Nat /\ p[1] = k
      <3>1. p = <<k, p[2]>> /\ p[2] \in Nat /\ n = Len(B[k]) + 1
        BY <2>1
      <3>2. (p = <<k, n>>) <=> (p[2] = n)
        BY <3>1
      <3>3. CASE p[2] = n
        BY <1>1, <1>2, <2>1, <3>2, <3>3 DEF Places
      <3>4. CASE p[2] # n
        <4>1. p[2] \in DOMAIN C[k] <=> p[2] \in DOMAIN B[k]
          BY <1>1, <1>2, <3>1, <3>4
        <4>2. p[2] \in DOMAIN B[k] => C[k][p[2]] = B[k][p[2]]
          BY <1>1, <1>2
        <4>3. QED
          BY <2>1, <3>2, <3>4, <4>1, <4>2 DEF Places
      <3>5. QED
        BY <3>3, <3>4
    <2>2. CASE p \in Shelf \X Nat /\ p[1] # k
      BY <1>0, <2>2 DEF Places
    <2>3. <<k, n>> \in Shelf \X Nat
      BY <1>0, <1>1
    <2>4. QED
      BY <2>1, <2>2, <2>3 DEF Places
  <1>5. IsFiniteSet(P)
    OBVIOUS
  <1> HIDE DEF P, Q, n
  <1>6. CASE x = y
    <2>1. Q = P \cup {<<k, n>>}
      BY <1>4, <1>6
    <2>2. IsFiniteSet(Q) /\ Cardinality(Q) = Cardinality(P) + 1
      BY <1>3, <1>5, <2>1, FS_AddElement
    <2>3. QED
      BY <1>6, <2>2 DEF P, Q
  <1>7. CASE x # y
    <2>1. Q = P
      BY <1>4, <1>7
    <2>2. Cardinality(P) \in Nat
      BY <1>5, FS_CardinalityType
    <2>3. QED
      BY <1>5, <1>7, <2>1, <2>2 DEF P, Q
  <1>8. QED
    BY <1>6, <1>7

\* What is left of a sequence without its i-th element.
LEMMA RemoveAtProperties ==
    ASSUME NEW S, NEW q \in Seq(S), NEW i \in DOMAIN q
    PROVE  /\ RemoveAt(q, i) \in Seq(S) /\ Len(RemoveAt(q, i)) = Len(q) - 1
           /\ \A j \in 1 .. Len(q) - 1 : RemoveAt(q, i)[j] = IF j < i THEN q[j] ELSE q[j + 1]
  <1> DEFINE a == SubSeq(q, 1, i - 1)
             b == SubSeq(q, i + 1, Len(q))
  <1>1. i \in 1 .. Len(q) /\ Len(q) \in Nat
    OBVIOUS
  <1>2. a \in Seq(S) /\ Len(a) = i - 1 /\ \A j \in 1 .. i - 1 : a[j] = q[j]
    BY <1>1, SubSeqType
  <1>3. b \in Seq(S) /\ Len(b) = Len(q) - i /\ \A j \in 1 .. Len(q) - i : b[j] = q[i + j]
    BY <1>1, SubSeqType
  <1> HIDE DEF a, b
  <1>4. /\ a \o b \in Seq(S) /\ Len(a \o b) = Len(q) - 1
        /\ \A j \in 1 .. Len(q) - 1 : (a \o b)[j] = IF j <= Len(a) THEN a[j] ELSE b[j - Len(a)]
    <2>1. Len(a) + Len(b) = Len(q) - 1
      BY <1>1, <1>2, <1>3
    <2>2. a \in Seq(S) /\ b \in Seq(S)
      BY <1>2, <1>3
    <2>3. QED
      BY <2>1, <2>2, ConcatProperties
  <1>5. RemoveAt(q, i) = a \o b
    BY DEF RemoveAt, a, b
  <1>6. ASSUME NEW j \in 1 .. Len(q) - 1
        PROVE  (a \o b)[j] = IF j < i THEN q[j] ELSE q[j + 1]
    <2>1. CASE j < i
      <3>1. j \in 1 .. i - 1 /\ j <= Len(a)
        BY <1>1, <1>2, <2>1
      <3>2. (a \o b)[j] = a[j]
        BY <1>4, <3>1
      <3>3. a[j] = q[j]
        BY <1>2, <3>1
      <3>4. QED
        BY <2>1, <3>2, <3>3
    <2>2. CASE ~(j < i)
      <3>1. j - Len(a) = j + 1 - i /\ j + 1 - i \in 1 .. Len(q) - i /\ i + (j + 1 - i) = j + 1
        BY <1>1, <1>2, <2>2
      <3>2. (a \o b)[j] = b[j + 1 - i]
        <4>1. ~(j <= Len(a))
          BY <1>1, <1>2, <2>2
        <4>2. (a \o b)[j] = b[j - Len(a)]
          BY <1>4, <4>1
        <4>3. QED
          BY <3>1, <4>2
      <3>3. QED
        BY <1>1, <1>3, <2>2, <3>1, <3>2
    <2>3. QED
      BY <1>1, <2>1, <2>2
  <1>7. QED
    BY <1>4, <1>5, <1>6

\* One taken out of one of the sequences.
LEMMA PlacesRemove ==
    ASSUME NEW B, NEW C, NEW k, NEW i, Shorter(B, C, k, i), NEW x, IsFiniteSet(Places(B, x))
    PROVE  /\ IsFiniteSet(Places(C, x))
           /\ Cardinality(Places(C, x)) = Cardinality(Places(B, x)) - (IF x = B[k][i] THEN 1 ELSE 0)
  <1> DEFINE n == Len(B[k])
             P == Places(B, x)
             Q == Places(C, x)
             R == P \ {<<k, i>>}
             from(p) == IF p[1] = k /\ p[2] >= i THEN <<k, p[2] + 1>> ELSE p
             back(p) == IF p[1] = k /\ p[2] > i THEN <<k, p[2] - 1>> ELSE p
             f == [p \in Q |-> from(p)]
  <1>0. /\ B \in [Shelf -> Seq(Node)] /\ C \in [Shelf -> Seq(Node)] /\ k \in Shelf
        /\ i \in DOMAIN B[k] /\ \A h \in Shelf : h # k => C[h] = B[h]
    BY DEF Shorter, Differ
  <1>a. /\ Len(C[k]) = Len(B[k]) - 1
        /\ \A j \in 1 .. Len(B[k]) - 1 : C[k][j] = IF j < i THEN B[k][j] ELSE B[k][j + 1]
    <2>1. B[k] \in Seq(Node) /\ i \in DOMAIN B[k] /\ C[k] = RemoveAt(B[k], i)
      BY <1>0 DEF Shorter
    <2>2. /\ Len(RemoveAt(B[k], i)) = Len(B[k]) - 1
          /\ \A j \in 1 .. Len(B[k]) - 1 : RemoveAt(B[k], i)[j] = IF j < i THEN B[k][j] ELSE B[k][j + 1]
      BY <2>1, RemoveAtProperties
    <2>3. QED
      BY <2>1, <2>2
  <1>1. n \in Nat /\ DOMAIN B[k] = 1 .. n /\ DOMAIN C[k] = 1 .. n - 1 /\ i \in 1 .. n
    BY <1>0, <1>a
  <1>2. ASSUME NEW p \in Q PROVE from(p) \in R /\ back(from(p)) = p
    <2>1. p \in Shelf \X Nat /\ p = <<p[1], p[2]>> /\ p[2] \in DOMAIN C[p[1]] /\ C[p[1]][p[2]] = x
      BY DEF Places
    <2>2. CASE p[1] # k
      BY <1>0, <2>1, <2>2 DEF Places
    <2>3. CASE p[1] = k /\ p[2] < i
      BY <1>0, <1>a, <1>1, <2>1, <2>3 DEF Places
    <2>4. CASE p[1] = k /\ p[2] >= i
      BY <1>0, <1>a, <1>1, <2>1, <2>4 DEF Places
    <2>5. QED
      BY <1>1, <2>1, <2>2, <2>3, <2>4
  <1>3. ASSUME NEW p \in R PROVE back(p) \in Q /\ from(back(p)) = p
    <2>1. p \in Shelf \X Nat /\ p = <<p[1], p[2]>> /\ p[2] \in DOMAIN B[p[1]] /\ B[p[1]][p[2]] = x /\ p # <<k, i>>
      BY DEF Places
    <2>2. CASE p[1] # k
      BY <1>0, <2>1, <2>2 DEF Places
    <2>3. CASE p[1] = k /\ p[2] < i
      BY <1>0, <1>a, <1>1, <2>1, <2>3 DEF Places
    <2>4. CASE p[1] = k /\ p[2] > i
      BY <1>0, <1>a, <1>1, <2>1, <2>4 DEF Places
    <2>5. QED
      BY <1>1, <2>1, <2>2, <2>3, <2>4
  <1>4. <<k, i>> \in P <=> x = B[k][i]
    BY <1>0, <1>1 DEF Places
  <1>5. IsFiniteSet(P)
    OBVIOUS
  <1> HIDE DEF P, Q, n, from, back
  <1>6. f \in Bijection(Q, R)
    <2>1. f \in [Q -> R]
      BY <1>2
    <2>2. \A p, q \in Q : f[p] = f[q] => p = q
      BY <1>2
    <2>3. \A r \in R : \E p \in Q : f[p] = r
      BY <1>3
    <2>4. QED
      BY <2>1, <2>2, <2>3, Fun_IsBij
  <1>7. ExistsBijection(R, Q)
    <2>1. ExistsBijection(Q, R)
      BY <1>6 DEF ExistsBijection
    <2>2. QED
      BY <2>1, Fun_ExistsBijSymmetric
  <1>8. IsFiniteSet(R) /\ Cardinality(R) = IF <<k, i>> \in P THEN Cardinality(P) - 1 ELSE Cardinality(P)
    BY <1>5, FS_RemoveElement
  <1>9. IsFiniteSet(Q) /\ Cardinality(Q) = Cardinality(R)
    BY <1>7, <1>8, FS_Bijection
  <1>10. Cardinality(P) \in Nat
    BY <1>5, FS_CardinalityType
  <1>11. QED
    BY <1>4, <1>8, <1>9, <1>10 DEF P, Q

\* One of the sequences moved to another place.
LEMMA PlacesMove ==
    ASSUME NEW B, NEW C, NEW k, NEW m, Shifted(B, C, k, m), NEW x, IsFiniteSet(Places(B, x))
    PROVE  IsFiniteSet(Places(C, x)) /\ Cardinality(Places(C, x)) = Cardinality(Places(B, x))
  <1> DEFINE P == Places(B, x)
             Q == Places(C, x)
             to(p) == IF p[1] = k THEN <<m, p[2]>> ELSE p
             back(p) == IF p[1] = m THEN <<k, p[2]>> ELSE p
             f == [p \in P |-> to(p)]
  <1>0. /\ B \in [Shelf -> Seq(Node)] /\ C \in [Shelf -> Seq(Node)] /\ k \in Shelf /\ m \in Shelf /\ k # m
        /\ B[m] = <<>> /\ C[k] = <<>> /\ C[m] = B[k] /\ \A h \in Shelf : h # k /\ h # m => C[h] = B[h]
    BY DEF Shifted, Differ
  <1>1. ASSUME NEW p \in P PROVE to(p) \in Q /\ back(to(p)) = p
    <2>1. p \in Shelf \X Nat /\ p = <<p[1], p[2]>> /\ p[2] \in DOMAIN B[p[1]] /\ B[p[1]][p[2]] = x /\ p[1] # m
      BY <1>0 DEF Places
    <2>2. QED
      BY <1>0, <2>1 DEF Places
  <1>2. ASSUME NEW p \in Q PROVE back(p) \in P /\ to(back(p)) = p
    <2>1. p \in Shelf \X Nat /\ p = <<p[1], p[2]>> /\ p[2] \in DOMAIN C[p[1]] /\ C[p[1]][p[2]] = x /\ p[1] # k
      BY <1>0 DEF Places
    <2>2. QED
      BY <1>0, <2>1 DEF Places
  <1>3. IsFiniteSet(P)
    OBVIOUS
  <1> HIDE DEF P, Q, to, back
  <1>4. f \in Bijection(P, Q)
    <2>1. f \in [P -> Q]
      BY <1>1
    <2>2. \A p, q \in P : f[p] = f[q] => p = q
      BY <1>1
    <2>3. \A r \in Q : \E p \in P : f[p] = r
      BY <1>2
    <2>4. QED
      BY <2>1, <2>2, <2>3, Fun_IsBij
  <1>5. ExistsBijection(P, Q)
    BY <1>4 DEF ExistsBijection
  <1>6. QED
    BY <1>3, <1>5, FS_Bijection DEF P, Q

-----------------------------------------------------------------------------
(* The edges, wherever they are kept.                                      *)

\* What is kept by elements e, handles h, worklists p and frames f.
Left(q, j) == IF j \in DOMAIN q /\ q[j].runs # "drain" THEN q[j].left ELSE <<>>
Book(e, h, p, f) ==
    [k \in Shelf |-> CASE k[1] = "elements" -> e[k[2]]
                       [] k[1] = "handles" -> h[k[2]]
                       [] k[1] = "listed" -> p[k[2]]
                       [] k[1] = "taken" -> Left(f[k[2][1]], k[2][2])]

Frame == Working \cup {DrainFrame}
Kinds(e, h, p, f) ==
    /\ e \in [Node -> Seq(Node)] /\ h \in [Thread -> Seq(Node)] /\ p \in [Thread -> Seq(Node)]
    /\ f \in [Thread -> Seq(Frame)]

\* The counts c are those of the edges to each node.
Exact(c, e, h, p, f) ==
    \A x \in Node : /\ IsFiniteSet(Places(Book(e, h, p, f), x))
                    /\ c[x] = Cardinality(Places(Book(e, h, p, f), x))

\* The shelves by name.
LEMMA Shelves ==
    /\ \A m \in Node : <<"elements", m>> \in Shelf
    /\ \A t \in Thread : <<"handles", t>> \in Shelf /\ <<"listed", t>> \in Shelf
    /\ \A t \in Thread, j \in Nat : <<"taken", <<t, j>>>> \in Shelf
    /\ \A k \in Shelf : \/ \E m \in Node : k = <<"elements", m>>
                        \/ \E t \in Thread : k = <<"handles", t>>
                        \/ \E t \in Thread : k = <<"listed", t>>
                        \/ \E t \in Thread, j \in Nat : k = <<"taken", <<t, j>>>>
  BY DEF Shelf

\* What is on each.
LEMMA BookAt ==
    ASSUME NEW e, NEW h, NEW p, NEW f
    PROVE  /\ \A m \in Node : Book(e, h, p, f)[<<"elements", m>>] = e[m]
           /\ \A t \in Thread : Book(e, h, p, f)[<<"handles", t>>] = h[t]
           /\ \A t \in Thread : Book(e, h, p, f)[<<"listed", t>>] = p[t]
           /\ \A t \in Thread, j \in Nat : Book(e, h, p, f)[<<"taken", <<t, j>>>>] = Left(f[t], j)
  BY Shelves DEF Book

\* What a frame has taken out is a sequence of nodes.
LEMMA LeftType ==
    ASSUME NEW q \in Seq(Frame), NEW j \in Nat
    PROVE  Left(q, j) \in Seq(Node)
  <1>1. CASE j \in DOMAIN q /\ q[j].runs # "drain"
    <2>1. q[j] \in Working
      BY <1>1 DEF Frame, DrainFrame
    <2>2. QED
      BY <1>1, <2>1 DEF Left, Working
  <1>2. CASE ~(j \in DOMAIN q /\ q[j].runs # "drain")
    BY <1>2 DEF Left
  <1>3. QED
    BY <1>1, <1>2

\* All of them are sequences of nodes.
LEMMA BookType ==
    ASSUME NEW e, NEW h, NEW p, NEW f, Kinds(e, h, p, f)
    PROVE  Book(e, h, p, f) \in [Shelf -> Seq(Node)]
  <1>1. ASSUME NEW k \in Shelf PROVE Book(e, h, p, f)[k] \in Seq(Node)
    <2>1. ASSUME NEW m \in Node, k = <<"elements", m>> PROVE Book(e, h, p, f)[k] \in Seq(Node)
      BY <2>1, BookAt DEF Kinds
    <2>2. ASSUME NEW t \in Thread, k = <<"handles", t>> \/ k = <<"listed", t>> PROVE Book(e, h, p, f)[k] \in Seq(Node)
      BY <2>2, BookAt DEF Kinds
    <2>3. ASSUME NEW t \in Thread, NEW j \in Nat, k = <<"taken", <<t, j>>>> PROVE Book(e, h, p, f)[k] \in Seq(Node)
      <3>1. Left(f[t], j) \in Seq(Node)
        BY LeftType DEF Kinds
      <3>2. QED
        BY <2>3, <3>1, BookAt
    <2>4. QED
      BY <2>1, <2>2, <2>3, Shelves
  <1>2. QED
    BY <1>1 DEF Book

\* The model's edges are these.
LEMMA EdgesAreOnShelves ==
    ASSUME Types, NEW n \in Node
    PROVE  EdgesTo(n) = Places(Book(edges, held, pending, frames), n)
  <1> DEFINE B == Book(edges, held, pending, frames)
  <1>0. /\ \A m \in Node : B[<<"elements", m>>] = edges[m]
        /\ \A t \in Thread : B[<<"handles", t>>] = held[t]
        /\ \A t \in Thread : B[<<"listed", t>>] = pending[t]
        /\ \A t \in Thread, j \in Nat : B[<<"taken", <<t, j>>>>] = Left(frames[t], j)
    BY BookAt
  <1>1. B \in [Shelf -> Seq(Node)]
    BY BookType DEF Kinds, Types, Frame
  <1> HIDE DEF B
  <1>2. \A k \in Keeper : k \in Shelf /\ Kept(k) = B[k]
    <2>1. \A m \in Node : Kept(<<"elements", m>>) = edges[m]
      BY DEF Kept
    <2>2. \A t \in Thread : Kept(<<"handles", t>>) = held[t] /\ Kept(<<"listed", t>>) = pending[t]
      BY DEF Kept
    <2>3. \A t \in Thread : \A j \in DOMAIN frames[t] : j \in Nat /\ Kept(<<"taken", <<t, j>>>>) = Left(frames[t], j)
      BY DEF Kept, TakenOut, Left, Types
    <2>4. ASSUME NEW k \in Keeper
          PROVE  \/ \E m \in Node : k = <<"elements", m>>
                 \/ \E t \in Thread : k = <<"handles", t>>
                 \/ \E t \in Thread : k = <<"listed", t>>
                 \/ \E t \in Thread : \E j \in DOMAIN frames[t] : k = <<"taken", <<t, j>>>>
      BY DEF Keeper
    <2>5. TAKE k \in Keeper
    <2>6. ASSUME NEW m \in Node, k = <<"elements", m>> PROVE k \in Shelf /\ Kept(k) = B[k]
      BY <1>0, <2>1, <2>6, Shelves
    <2>7. ASSUME NEW t \in Thread, k = <<"handles", t>> PROVE k \in Shelf /\ Kept(k) = B[k]
      BY <1>0, <2>2, <2>7, Shelves
    <2>a. ASSUME NEW t \in Thread, k = <<"listed", t>> PROVE k \in Shelf /\ Kept(k) = B[k]
      BY <1>0, <2>2, <2>a, Shelves
    <2>8. ASSUME NEW t \in Thread, NEW j \in DOMAIN frames[t], k = <<"taken", <<t, j>>>>
          PROVE  k \in Shelf /\ Kept(k) = B[k]
      BY <1>0, <2>3, <2>8, Shelves
    <2>9. QED
      BY <2>4, <2>6, <2>7, <2>a, <2>8
  <1>3. \A k \in Shelf : k \in Keeper \/ B[k] = <<>>
    <2>1. \A m \in Node : <<"elements", m>> \in Keeper
      BY DEF Keeper
    <2>2. \A t \in Thread : <<"handles", t>> \in Keeper /\ <<"listed", t>> \in Keeper
      BY DEF Keeper
    <2>3. \A t \in Thread, j \in Nat : <<"taken", <<t, j>>>> \in Keeper \/ Left(frames[t], j) = <<>>
      BY DEF Keeper, Left
    <2>4. TAKE k \in Shelf
    <2>5. ASSUME NEW m \in Node, k = <<"elements", m>> PROVE k \in Keeper
      BY <2>1, <2>5
    <2>6. ASSUME NEW t \in Thread, k = <<"handles", t>> \/ k = <<"listed", t>> PROVE k \in Keeper
      BY <2>2, <2>6
    <2>7. ASSUME NEW t \in Thread, NEW j \in Nat, k = <<"taken", <<t, j>>>>
          PROVE  k \in Keeper \/ B[k] = <<>>
      <3>1. B[<<"taken", <<t, j>>>>] = Left(frames[t], j)
        BY <1>0
      <3>2. QED
        BY <2>3, <2>7, <3>1
    <2>8. QED
      BY <2>5, <2>6, <2>7, Shelves
  <1>4. \A k \in Shelf : B[k] \in Seq(Node) /\ DOMAIN B[k] \subseteq Nat
    BY <1>1
  <1>5. ASSUME NEW q PROVE q \in EdgesTo(n) <=> \E k \in Keeper : \E i \in DOMAIN B[k] : q = <<k, i>> /\ B[k][i] = n
    BY <1>2 DEF EdgesTo
  <1>6. ASSUME NEW q PROVE q \in Places(B, n) <=> \E k \in Shelf : \E i \in DOMAIN B[k] : q = <<k, i>> /\ B[k][i] = n
    BY <1>4 DEF Places
  <1>7. ASSUME NEW k \in Shelf, NEW i \in DOMAIN B[k] PROVE k \in Keeper
    BY <1>3
  <1>8. QED
    BY <1>2, <1>5, <1>6, <1>7 DEF B

-----------------------------------------------------------------------------
(* Edges on the move.                                                      *)

\* An edge to y joins one of the sequences, and is counted.
LEMMA Joins ==
    ASSUME NEW c \in [Node -> Int], NEW d, NEW e, NEW h, NEW p, NEW f, NEW e2, NEW h2, NEW p2, NEW f2,
           NEW k, NEW y, Longer(Book(e, h, p, f), Book(e2, h2, p2, f2), k, y),
           \A x \in Node : d[x] = c[x] + (IF x = y THEN 1 ELSE 0),
           Exact(c, e, h, p, f)
    PROVE  Exact(d, e2, h2, p2, f2)
  <1> DEFINE B == Book(e, h, p, f)
             C == Book(e2, h2, p2, f2)
  <1>1. \A x \in Node : IsFiniteSet(Places(B, x)) /\ c[x] = Cardinality(Places(B, x))
    BY DEF Exact
  <1>2. Longer(B, C, k, y)
    OBVIOUS
  <1> HIDE DEF B, C
  <1>3. \A x \in Node : /\ IsFiniteSet(Places(C, x))
                       /\ Cardinality(Places(C, x)) = Cardinality(Places(B, x)) + (IF x = y THEN 1 ELSE 0)
    BY <1>1, <1>2, PlacesAppend
  <1>4. QED
    BY <1>1, <1>3 DEF B, C, Exact

\* The i-th edge leaves one of the sequences, and is no longer counted.
LEMMA Leaves ==
    ASSUME NEW c \in [Node -> Int], NEW d, NEW e, NEW h, NEW p, NEW f, NEW e2, NEW h2, NEW p2, NEW f2,
           NEW k, NEW i, Shorter(Book(e, h, p, f), Book(e2, h2, p2, f2), k, i),
           \A x \in Node : d[x] = c[x] - (IF x = Book(e, h, p, f)[k][i] THEN 1 ELSE 0),
           Exact(c, e, h, p, f)
    PROVE  Exact(d, e2, h2, p2, f2)
  <1> DEFINE B == Book(e, h, p, f)
             C == Book(e2, h2, p2, f2)
  <1>1. \A x \in Node : IsFiniteSet(Places(B, x)) /\ c[x] = Cardinality(Places(B, x))
    BY DEF Exact
  <1>2. Shorter(B, C, k, i) /\ \A x \in Node : d[x] = c[x] - (IF x = B[k][i] THEN 1 ELSE 0)
    OBVIOUS
  <1> HIDE DEF B, C
  <1>3. \A x \in Node : /\ IsFiniteSet(Places(C, x))
                       /\ Cardinality(Places(C, x)) = Cardinality(Places(B, x)) - (IF x = B[k][i] THEN 1 ELSE 0)
    BY <1>1, <1>2, PlacesRemove
  <1>4. QED
    BY <1>1, <1>2, <1>3 DEF B, C, Exact

\* All edges of one sequence move to where there were none.
LEMMA Moves ==
    ASSUME NEW c, NEW e, NEW h, NEW p, NEW f, NEW e2, NEW h2, NEW p2, NEW f2,
           NEW k, NEW m, Shifted(Book(e, h, p, f), Book(e2, h2, p2, f2), k, m),
           Exact(c, e, h, p, f)
    PROVE  Exact(c, e2, h2, p2, f2)
  <1> DEFINE B == Book(e, h, p, f)
             C == Book(e2, h2, p2, f2)
  <1>1. \A x \in Node : IsFiniteSet(Places(B, x)) /\ c[x] = Cardinality(Places(B, x))
    BY DEF Exact
  <1>2. Shifted(B, C, k, m)
    OBVIOUS
  <1> HIDE DEF B, C
  <1>3. \A x \in Node : IsFiniteSet(Places(C, x)) /\ Cardinality(Places(C, x)) = Cardinality(Places(B, x))
    BY <1>1, <1>2, PlacesMove
  <1>4. QED
    BY <1>1, <1>3 DEF B, C, Exact

\* The same edges in the same places.
LEMMA Rests ==
    ASSUME NEW c, NEW e, NEW h, NEW p, NEW f, NEW f2, Kinds(e, h, p, f), Kinds(e, h, p, f2),
           \A t \in Thread, j \in Nat : Left(f2[t], j) = Left(f[t], j), Exact(c, e, h, p, f)
    PROVE  Exact(c, e, h, p, f2)
  <1> DEFINE B == Book(e, h, p, f)
             C == Book(e, h, p, f2)
  <1>1. B \in [Shelf -> Seq(Node)] /\ C \in [Shelf -> Seq(Node)]
    BY BookType
  <1>2. \A k \in Shelf : B[k] = C[k]
    BY BookAt, Shelves
  <1> HIDE DEF B, C
  <1>3. B = C
    BY <1>1, <1>2
  <1>4. QED
    BY <1>3 DEF B, C, Exact

\* A counted edge is there to be found: a node with an edge to it counts one or
\* more, and one with two, two.
LEMMA EdgeCounts ==
    ASSUME NEW c \in [Node -> Int], NEW e, NEW h, NEW p, NEW f, Kinds(e, h, p, f), Exact(c, e, h, p, f),
           NEW k \in Shelf, NEW i \in DOMAIN Book(e, h, p, f)[k]
    PROVE  /\ Book(e, h, p, f)[k][i] \in Node /\ c[Book(e, h, p, f)[k][i]] >= 1
           /\ \A m \in Shelf : \A j \in DOMAIN Book(e, h, p, f)[m] :
                  m # k /\ Book(e, h, p, f)[m][j] = Book(e, h, p, f)[k][i] => c[Book(e, h, p, f)[k][i]] >= 2
  <1> DEFINE B == Book(e, h, p, f)
             x == B[k][i]
             P == Places(B, x)
  <1>1. B \in [Shelf -> Seq(Node)]
    BY BookType
  <1>2. k \in Shelf /\ i \in DOMAIN B[k]
    OBVIOUS
  <1>3. \A y \in Node : IsFiniteSet(Places(B, y)) /\ c[y] = Cardinality(Places(B, y))
    BY DEF Exact
  <1> HIDE DEF B
  <1>4. x \in Node /\ \A m \in Shelf : DOMAIN B[m] \subseteq Nat
    BY <1>1, <1>2
  <1>5. IsFiniteSet(P) /\ c[x] = Cardinality(P) /\ Cardinality(P) \in Nat
    BY <1>3, <1>4, FS_CardinalityType
  <1>6. <<k, i>> \in P
    BY <1>2, <1>4 DEF Places
  <1> HIDE DEF P
  <1>7. c[x] >= 1
    BY <1>5, <1>6, FS_EmptySet
  <1>8. ASSUME NEW m \in Shelf, NEW j \in DOMAIN B[m], m # k, B[m][j] = x PROVE c[x] >= 2
    <2>1. <<m, j>> \in P /\ <<m, j>> # <<k, i>>
      BY <1>4, <1>8 DEF P, Places
    <2>2. IsFiniteSet(P \ {<<k, i>>}) /\ Cardinality(P \ {<<k, i>>}) = Cardinality(P) - 1
      BY <1>5, <1>6, FS_RemoveElement
    <2>3. P \ {<<k, i>>} # {}
      BY <2>1
    <2>4. Cardinality(P \ {<<k, i>>}) # 0 /\ Cardinality(P \ {<<k, i>>}) \in Nat
      BY <2>2, <2>3, FS_EmptySet, FS_CardinalityType
    <2>5. QED
      BY <1>5, <2>2, <2>4
  <1>9. QED
    BY <1>4, <1>7, <1>8 DEF B

-----------------------------------------------------------------------------
(* The moves the program makes.                                            *)

\* Everything is where the counts c have it.
Booked(c, e, h, p, f) == c \in [Node -> Int] /\ Kinds(e, h, p, f) /\ Exact(c, e, h, p, f)

\* What differs between two books.
LEMMA Differs ==
    ASSUME NEW e, NEW h, NEW p, NEW f, NEW e2, NEW h2, NEW p2, NEW f2,
           Kinds(e, h, p, f), Kinds(e2, h2, p2, f2), NEW ks \in SUBSET Shelf,
           \A m \in Node : <<"elements", m>> \in ks \/ e2[m] = e[m],
           \A u \in Thread : <<"handles", u>> \in ks \/ h2[u] = h[u],
           \A u \in Thread : <<"listed", u>> \in ks \/ p2[u] = p[u],
           \A u \in Thread, j \in Nat : <<"taken", <<u, j>>>> \in ks \/ Left(f2[u], j) = Left(f[u], j)
    PROVE  Differ(Book(e, h, p, f), Book(e2, h2, p2, f2), ks)
  <1>1. Book(e, h, p, f) \in [Shelf -> Seq(Node)] /\ Book(e2, h2, p2, f2) \in [Shelf -> Seq(Node)]
    BY BookType
  <1>2. ASSUME NEW k \in Shelf, k \notin ks PROVE Book(e2, h2, p2, f2)[k] = Book(e, h, p, f)[k]
    <2>1. ASSUME NEW m \in Node, k = <<"elements", m>> PROVE Book(e2, h2, p2, f2)[k] = Book(e, h, p, f)[k]
      BY <1>2, <2>1, BookAt
    <2>2. ASSUME NEW u \in Thread, k = <<"handles", u>> PROVE Book(e2, h2, p2, f2)[k] = Book(e, h, p, f)[k]
      BY <1>2, <2>2, BookAt
    <2>3. ASSUME NEW u \in Thread, k = <<"listed", u>> PROVE Book(e2, h2, p2, f2)[k] = Book(e, h, p, f)[k]
      BY <1>2, <2>3, BookAt
    <2>4. ASSUME NEW u \in Thread, NEW j \in Nat, k = <<"taken", <<u, j>>>>
          PROVE  Book(e2, h2, p2, f2)[k] = Book(e, h, p, f)[k]
      BY <1>2, <2>4, BookAt
    <2>5. QED
      BY <2>1, <2>2, <2>3, <2>4, Shelves
  <1>3. QED
    BY <1>1, <1>2 DEF Differ

\* The last of a sequence, taken out.
LEMMA FrontRemoves ==
    ASSUME NEW S, NEW q \in Seq(S), q # <<>>
    PROVE  Front(q) = RemoveAt(q, Len(q)) /\ Last(q) = q[Len(q)] /\ Len(q) \in DOMAIN q
  <1>1. Len(q) \in Nat /\ Len(q) > 0
    OBVIOUS
  <1>2. SubSeq(q, Len(q) + 1, Len(q)) = <<>>
    BY <1>1
  <1>3. SubSeq(q, 1, Len(q) - 1) \in Seq(S)
    BY <1>1, SubSeqType
  <1>4. QED
    BY <1>1, <1>2, <1>3 DEF Front, Last, RemoveAt

\* A sequence is its front and its last element.
LEMMA FrontAndLast ==
    ASSUME NEW S, NEW q \in Seq(S), q # <<>>
    PROVE  Len(Front(q)) + 1 = Len(q) /\ q = Append(Front(q), Last(q))
  <1>1. Front(q) = RemoveAt(q, Len(q)) /\ Last(q) = q[Len(q)] /\ Len(q) \in DOMAIN q /\ Len(q) \in Nat
    BY FrontRemoves
  <1>2. /\ Front(q) \in Seq(S) /\ Len(Front(q)) = Len(q) - 1
        /\ \A j \in 1 .. Len(q) - 1 : Front(q)[j] = IF j < Len(q) THEN q[j] ELSE q[j + 1]
    BY <1>1, RemoveAtProperties
  <1>3. Last(q) \in S
    BY FrontLastType
  <1>4. /\ Append(Front(q), Last(q)) \in Seq(S) /\ Len(Append(Front(q), Last(q))) = Len(q)
        /\ \A j \in 1 .. Len(q) : Append(Front(q), Last(q))[j] = q[j]
    BY <1>1, <1>2, <1>3
  <1>5. Append(Front(q), Last(q)) = q
    BY <1>4
  <1>6. QED
    BY <1>1, <1>2, <1>5

\* The first of a sequence, taken out.
LEMMA TailRemoves ==
    ASSUME NEW S, NEW q \in Seq(S), q # <<>>
    PROVE  Tail(q) = RemoveAt(q, 1) /\ Head(q) = q[1] /\ 1 \in DOMAIN q
  <1>1. Len(q) \in Nat /\ Len(q) > 0 /\ 1 \in DOMAIN q
    OBVIOUS
  <1>2. RemoveAt(q, 1) \in Seq(S) /\ Len(RemoveAt(q, 1)) = Len(q) - 1
        /\ \A j \in 1 .. Len(q) - 1 : RemoveAt(q, 1)[j] = IF j < 1 THEN q[j] ELSE q[j + 1]
    BY <1>1, RemoveAtProperties
  <1>3. Tail(q) \in Seq(S) /\ Len(Tail(q)) = Len(q) - 1 /\ \A j \in 1 .. Len(q) - 1 : Tail(q)[j] = q[j + 1]
    BY <1>1
  <1>4. \A j \in 1 .. Len(q) - 1 : Tail(q)[j] = RemoveAt(q, 1)[j]
    BY <1>1, <1>2, <1>3
  <1>5. Tail(q) = RemoveAt(q, 1)
    BY <1>2, <1>3, <1>4
  <1>6. QED
    BY <1>1, <1>5

\* A reference becomes an element.
LEMMA ElementJoins ==
    ASSUME NEW c, NEW e, NEW h, NEW p, NEW f, Booked(c, e, h, p, f), NEW n \in Node, NEW y \in Node
    PROVE  Booked([c EXCEPT ![y] = @ + 1], [e EXCEPT ![n] = Append(@, y)], h, p, f)
  <1> DEFINE new == [e EXCEPT ![n] = Append(@, y)]
             d == [c EXCEPT ![y] = @ + 1]
  <1>1. c \in [Node -> Int] /\ Kinds(e, h, p, f) /\ Exact(c, e, h, p, f)
    BY DEF Booked
  <1>2. /\ e[n] \in Seq(Node) /\ new \in [Node -> Seq(Node)] /\ new[n] = Append(e[n], y)
        /\ \A u \in Node : u # n => new[u] = e[u]
    BY <1>1 DEF Kinds
  <1>3. d \in [Node -> Int] /\ \A x \in Node : d[x] = c[x] + (IF x = y THEN 1 ELSE 0)
    BY <1>1
  <1> HIDE DEF new, d
  <1>4. Kinds(new, h, p, f)
    BY <1>1, <1>2 DEF Kinds
  <1>5. Differ(Book(e, h, p, f), Book(new, h, p, f), {<<"elements", n>>})
    <2>1. {<<"elements", n>>} \in SUBSET Shelf
      BY Shelves
    <2>2. \A u \in Node : <<"elements", u>> \in {<<"elements", n>>} \/ new[u] = e[u]
      BY <1>2
    <2>3. QED
      BY <1>1, <1>4, <2>1, <2>2, Differs
  <1>6. Book(new, h, p, f)[<<"elements", n>>] = Append(Book(e, h, p, f)[<<"elements", n>>], y)
    <2>1. Book(e, h, p, f)[<<"elements", n>>] = e[n]
      BY BookAt
    <2>2. Book(new, h, p, f)[<<"elements", n>>] = new[n]
      BY BookAt
    <2>3. QED
      BY <1>2, <2>1, <2>2
  <1>7. Longer(Book(e, h, p, f), Book(new, h, p, f), <<"elements", n>>, y)
    BY <1>5, <1>6 DEF Longer
  <1>8. Exact(d, new, h, p, f)
    BY <1>1, <1>3, <1>7, Joins
  <1>9. QED
    BY <1>3, <1>4, <1>8 DEF Booked, new, d

\* A reference becomes a handle.
LEMMA HandleJoins ==
    ASSUME NEW c, NEW e, NEW h, NEW p, NEW f, Booked(c, e, h, p, f), NEW t \in Thread, NEW y \in Node
    PROVE  Booked([c EXCEPT ![y] = @ + 1], e, [h EXCEPT ![t] = Append(@, y)], p, f)
  <1> DEFINE new == [h EXCEPT ![t] = Append(@, y)]
             d == [c EXCEPT ![y] = @ + 1]
  <1>1. c \in [Node -> Int] /\ Kinds(e, h, p, f) /\ Exact(c, e, h, p, f)
    BY DEF Booked
  <1>2. /\ h[t] \in Seq(Node) /\ new \in [Thread -> Seq(Node)] /\ new[t] = Append(h[t], y)
        /\ \A u \in Thread : u # t => new[u] = h[u]
    BY <1>1 DEF Kinds
  <1>3. d \in [Node -> Int] /\ \A x \in Node : d[x] = c[x] + (IF x = y THEN 1 ELSE 0)
    BY <1>1
  <1> HIDE DEF new, d
  <1>4. Kinds(e, new, p, f)
    BY <1>1, <1>2 DEF Kinds
  <1>5. Differ(Book(e, h, p, f), Book(e, new, p, f), {<<"handles", t>>})
    <2>1. {<<"handles", t>>} \in SUBSET Shelf
      BY Shelves
    <2>2. \A u \in Thread : <<"handles", u>> \in {<<"handles", t>>} \/ new[u] = h[u]
      BY <1>2
    <2>3. QED
      BY <1>1, <1>4, <2>1, <2>2, Differs
  <1>6. Book(e, new, p, f)[<<"handles", t>>] = Append(Book(e, h, p, f)[<<"handles", t>>], y)
    <2>1. Book(e, h, p, f)[<<"handles", t>>] = h[t]
      BY BookAt
    <2>2. Book(e, new, p, f)[<<"handles", t>>] = new[t]
      BY BookAt
    <2>3. QED
      BY <1>2, <2>1, <2>2
  <1>7. Longer(Book(e, h, p, f), Book(e, new, p, f), <<"handles", t>>, y)
    BY <1>5, <1>6 DEF Longer
  <1>8. Exact(d, e, new, p, f)
    BY <1>1, <1>3, <1>7, Joins
  <1>9. QED
    BY <1>3, <1>4, <1>8 DEF Booked, new, d

\* A reference joins a worklist.
LEMMA ListedJoins ==
    ASSUME NEW c, NEW e, NEW h, NEW p, NEW f, Booked(c, e, h, p, f), NEW t \in Thread, NEW y \in Node
    PROVE  Booked([c EXCEPT ![y] = @ + 1], e, h, [p EXCEPT ![t] = Append(@, y)], f)
  <1> DEFINE new == [p EXCEPT ![t] = Append(@, y)]
             d == [c EXCEPT ![y] = @ + 1]
  <1>1. c \in [Node -> Int] /\ Kinds(e, h, p, f) /\ Exact(c, e, h, p, f)
    BY DEF Booked
  <1>2. /\ p[t] \in Seq(Node) /\ new \in [Thread -> Seq(Node)] /\ new[t] = Append(p[t], y)
        /\ \A u \in Thread : u # t => new[u] = p[u]
    BY <1>1 DEF Kinds
  <1>3. d \in [Node -> Int] /\ \A x \in Node : d[x] = c[x] + (IF x = y THEN 1 ELSE 0)
    BY <1>1
  <1> HIDE DEF new, d
  <1>4. Kinds(e, h, new, f)
    BY <1>1, <1>2 DEF Kinds
  <1>5. Differ(Book(e, h, p, f), Book(e, h, new, f), {<<"listed", t>>})
    <2>1. {<<"listed", t>>} \in SUBSET Shelf
      BY Shelves
    <2>2. \A u \in Thread : <<"listed", u>> \in {<<"listed", t>>} \/ new[u] = p[u]
      BY <1>2
    <2>3. QED
      BY <1>1, <1>4, <2>1, <2>2, Differs
  <1>6. Book(e, h, new, f)[<<"listed", t>>] = Append(Book(e, h, p, f)[<<"listed", t>>], y)
    <2>1. Book(e, h, p, f)[<<"listed", t>>] = p[t]
      BY BookAt
    <2>2. Book(e, h, new, f)[<<"listed", t>>] = new[t]
      BY BookAt
    <2>3. QED
      BY <1>2, <2>1, <2>2
  <1>7. Longer(Book(e, h, p, f), Book(e, h, new, f), <<"listed", t>>, y)
    BY <1>5, <1>6 DEF Longer
  <1>8. Exact(d, e, h, new, f)
    BY <1>1, <1>3, <1>7, Joins
  <1>9. QED
    BY <1>3, <1>4, <1>8 DEF Booked, new, d

\* An element is taken out.
LEMMA ElementLeaves ==
    ASSUME NEW c, NEW e, NEW h, NEW p, NEW f, Booked(c, e, h, p, f), NEW n \in Node, NEW i \in DOMAIN e[n]
    PROVE  /\ e[n][i] \in Node /\ c[e[n][i]] >= 1
           /\ Booked([c EXCEPT ![e[n][i]] = @ - 1], [e EXCEPT ![n] = RemoveAt(@, i)], h, p, f)
  <1> DEFINE new == [e EXCEPT ![n] = RemoveAt(@, i)]
             y == e[n][i]
             d == [c EXCEPT ![y] = @ - 1]
  <1>1. c \in [Node -> Int] /\ Kinds(e, h, p, f) /\ Exact(c, e, h, p, f)
    BY DEF Booked
  <1>2. e[n] \in Seq(Node) /\ y \in Node
    BY <1>1 DEF Kinds
  <1>3. RemoveAt(e[n], i) \in Seq(Node)
    BY <1>2, RemoveAtType
  <1>4. /\ new \in [Node -> Seq(Node)] /\ new[n] = RemoveAt(e[n], i)
        /\ \A u \in Node : u # n => new[u] = e[u]
    BY <1>1, <1>3 DEF Kinds
  <1>5. d \in [Node -> Int] /\ \A x \in Node : d[x] = c[x] - (IF x = y THEN 1 ELSE 0)
    BY <1>1, <1>2
  <1> HIDE DEF new, d
  <1>6. Kinds(new, h, p, f)
    BY <1>1, <1>4 DEF Kinds
  <1>7. Differ(Book(e, h, p, f), Book(new, h, p, f), {<<"elements", n>>})
    <2>1. {<<"elements", n>>} \in SUBSET Shelf
      BY Shelves
    <2>2. \A u \in Node : <<"elements", u>> \in {<<"elements", n>>} \/ new[u] = e[u]
      BY <1>4
    <2>3. QED
      BY <1>1, <1>6, <2>1, <2>2, Differs
  <1>8. /\ Book(e, h, p, f)[<<"elements", n>>] = e[n]
        /\ Book(new, h, p, f)[<<"elements", n>>] = RemoveAt(e[n], i)
    BY <1>4, BookAt
  <1>9. Shorter(Book(e, h, p, f), Book(new, h, p, f), <<"elements", n>>, i)
    BY <1>7, <1>8 DEF Shorter
  <1>10. Exact(d, new, h, p, f)
    BY <1>1, <1>5, <1>8, <1>9, Leaves
  <1>11. c[y] >= 1
    <2>1. <<"elements", n>> \in Shelf
      BY Shelves
    <2>2. QED
      BY <1>1, <1>8, <2>1, EdgeCounts
  <1>12. QED
    BY <1>2, <1>5, <1>6, <1>10, <1>11 DEF Booked, new, d

\* A handle is given up.
LEMMA HandleLeaves ==
    ASSUME NEW c, NEW e, NEW h, NEW p, NEW f, Booked(c, e, h, p, f), NEW t \in Thread, NEW i \in DOMAIN h[t]
    PROVE  /\ h[t][i] \in Node /\ c[h[t][i]] >= 1
           /\ Booked([c EXCEPT ![h[t][i]] = @ - 1], e, [h EXCEPT ![t] = RemoveAt(@, i)], p, f)
  <1> DEFINE new == [h EXCEPT ![t] = RemoveAt(@, i)]
             y == h[t][i]
             d == [c EXCEPT ![y] = @ - 1]
  <1>1. c \in [Node -> Int] /\ Kinds(e, h, p, f) /\ Exact(c, e, h, p, f)
    BY DEF Booked
  <1>2. h[t] \in Seq(Node) /\ y \in Node
    BY <1>1 DEF Kinds
  <1>3. RemoveAt(h[t], i) \in Seq(Node)
    BY <1>2, RemoveAtType
  <1>4. /\ new \in [Thread -> Seq(Node)] /\ new[t] = RemoveAt(h[t], i)
        /\ \A u \in Thread : u # t => new[u] = h[u]
    BY <1>1, <1>3 DEF Kinds
  <1>5. d \in [Node -> Int] /\ \A x \in Node : d[x] = c[x] - (IF x = y THEN 1 ELSE 0)
    BY <1>1, <1>2
  <1> HIDE DEF new, d
  <1>6. Kinds(e, new, p, f)
    BY <1>1, <1>4 DEF Kinds
  <1>7. Differ(Book(e, h, p, f), Book(e, new, p, f), {<<"handles", t>>})
    <2>1. {<<"handles", t>>} \in SUBSET Shelf
      BY Shelves
    <2>2. \A u \in Thread : <<"handles", u>> \in {<<"handles", t>>} \/ new[u] = h[u]
      BY <1>4
    <2>3. QED
      BY <1>1, <1>6, <2>1, <2>2, Differs
  <1>8. /\ Book(e, h, p, f)[<<"handles", t>>] = h[t]
        /\ Book(e, new, p, f)[<<"handles", t>>] = RemoveAt(h[t], i)
    BY <1>4, BookAt
  <1>9. Shorter(Book(e, h, p, f), Book(e, new, p, f), <<"handles", t>>, i)
    BY <1>7, <1>8 DEF Shorter
  <1>10. Exact(d, e, new, p, f)
    BY <1>1, <1>5, <1>8, <1>9, Leaves
  <1>11. c[y] >= 1
    <2>1. <<"handles", t>> \in Shelf
      BY Shelves
    <2>2. QED
      BY <1>1, <1>8, <2>1, EdgeCounts
  <1>12. QED
    BY <1>2, <1>5, <1>6, <1>10, <1>11 DEF Booked, new, d

\* A worklist gives up an edge.
LEMMA ListedLeaves ==
    ASSUME NEW c, NEW e, NEW h, NEW p, NEW f, Booked(c, e, h, p, f), NEW t \in Thread, NEW i \in DOMAIN p[t]
    PROVE  /\ p[t][i] \in Node /\ c[p[t][i]] >= 1
           /\ Booked([c EXCEPT ![p[t][i]] = @ - 1], e, h, [p EXCEPT ![t] = RemoveAt(@, i)], f)
  <1> DEFINE new == [p EXCEPT ![t] = RemoveAt(@, i)]
             y == p[t][i]
             d == [c EXCEPT ![y] = @ - 1]
  <1>1. c \in [Node -> Int] /\ Kinds(e, h, p, f) /\ Exact(c, e, h, p, f)
    BY DEF Booked
  <1>2. p[t] \in Seq(Node) /\ y \in Node
    BY <1>1 DEF Kinds
  <1>3. RemoveAt(p[t], i) \in Seq(Node)
    BY <1>2, RemoveAtType
  <1>4. /\ new \in [Thread -> Seq(Node)] /\ new[t] = RemoveAt(p[t], i)
        /\ \A u \in Thread : u # t => new[u] = p[u]
    BY <1>1, <1>3 DEF Kinds
  <1>5. d \in [Node -> Int] /\ \A x \in Node : d[x] = c[x] - (IF x = y THEN 1 ELSE 0)
    BY <1>1, <1>2
  <1> HIDE DEF new, d
  <1>6. Kinds(e, h, new, f)
    BY <1>1, <1>4 DEF Kinds
  <1>7. Differ(Book(e, h, p, f), Book(e, h, new, f), {<<"listed", t>>})
    <2>1. {<<"listed", t>>} \in SUBSET Shelf
      BY Shelves
    <2>2. \A u \in Thread : <<"listed", u>> \in {<<"listed", t>>} \/ new[u] = p[u]
      BY <1>4
    <2>3. QED
      BY <1>1, <1>6, <2>1, <2>2, Differs
  <1>8. /\ Book(e, h, p, f)[<<"listed", t>>] = p[t]
        /\ Book(e, h, new, f)[<<"listed", t>>] = RemoveAt(p[t], i)
    BY <1>4, BookAt
  <1>9. Shorter(Book(e, h, p, f), Book(e, h, new, f), <<"listed", t>>, i)
    BY <1>7, <1>8 DEF Shorter
  <1>10. Exact(d, e, h, new, f)
    BY <1>1, <1>5, <1>8, <1>9, Leaves
  <1>11. c[y] >= 1
    <2>1. <<"listed", t>> \in Shelf
      BY Shelves
    <2>2. QED
      BY <1>1, <1>8, <2>1, EdgeCounts
  <1>12. QED
    BY <1>2, <1>5, <1>6, <1>10, <1>11 DEF Booked, new, d

\* What the frames of a stack have taken out, before and after a frame is pushed.
LEMMA LeftPushed ==
    ASSUME NEW q \in Seq(Frame), NEW r \in Frame
    PROVE  /\ Append(q, r) \in Seq(Frame) /\ Len(q) + 1 \in Nat
           /\ Left(q, Len(q) + 1) = <<>>
           /\ r.runs # "drain" => Left(Append(q, r), Len(q) + 1) = r.left
           /\ r.runs = "drain" => Left(Append(q, r), Len(q) + 1) = <<>>
           /\ \A j \in Nat : j # Len(q) + 1 => Left(Append(q, r), j) = Left(q, j)
  <1>1. /\ Append(q, r) \in Seq(Frame) /\ Len(Append(q, r)) = Len(q) + 1 /\ Len(q) \in Nat
        /\ DOMAIN Append(q, r) = 1 .. Len(q) + 1 /\ DOMAIN q = 1 .. Len(q)
        /\ Append(q, r)[Len(q) + 1] = r /\ \A j \in 1 .. Len(q) : Append(q, r)[j] = q[j]
    OBVIOUS
  <1>2. ASSUME NEW j \in Nat, j # Len(q) + 1 PROVE Left(Append(q, r), j) = Left(q, j)
    <2>1. j \in DOMAIN Append(q, r) <=> j \in DOMAIN q
      BY <1>1, <1>2
    <2>2. CASE j \in DOMAIN q
      BY <1>1, <2>1, <2>2 DEF Left
    <2>3. CASE j \notin DOMAIN q
      BY <2>1, <2>3 DEF Left
    <2>4. QED
      BY <2>2, <2>3
  <1>3. Len(q) + 1 \in DOMAIN Append(q, r) /\ Len(q) + 1 \notin DOMAIN q /\ Len(q) + 1 \in Nat
    BY <1>1
  <1>4. QED
    BY <1>1, <1>2, <1>3 DEF Left

\* A frame takes out all elements of a node.
LEMMA ElementsTaken ==
    ASSUME NEW c, NEW e, NEW h, NEW p, NEW f, Booked(c, e, h, p, f), NEW t \in Thread, NEW n \in Node,
           NEW r \in Frame, r.runs # "drain", r.left = e[n]
    PROVE  Booked(c, [e EXCEPT ![n] = <<>>], h, p, [f EXCEPT ![t] = Append(@, r)])
  <1> DEFINE e2 == [e EXCEPT ![n] = <<>>]
             f2 == [f EXCEPT ![t] = Append(@, r)]
             j == Len(f[t]) + 1
             k == <<"elements", n>>
             m == <<"taken", <<t, j>>>>
  <1>1. c \in [Node -> Int] /\ Kinds(e, h, p, f) /\ Exact(c, e, h, p, f)
    BY DEF Booked
  <1>2. f[t] \in Seq(Frame) /\ e \in [Node -> Seq(Node)] /\ f \in [Thread -> Seq(Frame)]
    BY <1>1 DEF Kinds
  <1>3. /\ j \in Nat /\ Append(f[t], r) \in Seq(Frame) /\ Left(f[t], j) = <<>> /\ Left(Append(f[t], r), j) = e[n]
        /\ \A i \in Nat : i # j => Left(Append(f[t], r), i) = Left(f[t], i)
    BY <1>2, LeftPushed
  <1>4. e2 \in [Node -> Seq(Node)] /\ e2[n] = <<>> /\ \A x \in Node : x # n => e2[x] = e[x]
    BY <1>2
  <1>5. /\ f2 \in [Thread -> Seq(Frame)] /\ f2[t] = Append(f[t], r)
        /\ \A u \in Thread : u # t => f2[u] = f[u]
    BY <1>2, <1>3
  <1> HIDE DEF e2, f2, j
  <1>6. Kinds(e2, h, p, f2)
    BY <1>1, <1>4, <1>5 DEF Kinds
  <1>7. Differ(Book(e, h, p, f), Book(e2, h, p, f2), {k, m})
    <2>1. {k, m} \in SUBSET Shelf
      BY <1>3, Shelves
    <2>2. \A x \in Node : <<"elements", x>> \in {k, m} \/ e2[x] = e[x]
      BY <1>4
    <2>3. \A u \in Thread, i \in Nat : <<"taken", <<u, i>>>> \in {k, m} \/ Left(f2[u], i) = Left(f[u], i)
      BY <1>3, <1>5
    <2> HIDE DEF k, m
    <2>4. QED
      BY <1>1, <1>6, <2>1, <2>2, <2>3, Differs
  <1>8. /\ Book(e, h, p, f)[k] = e[n] /\ Book(e, h, p, f)[m] = <<>>
        /\ Book(e2, h, p, f2)[k] = <<>> /\ Book(e2, h, p, f2)[m] = e[n]
    <2>1. Book(e, h, p, f)[k] = e[n] /\ Book(e, h, p, f)[m] = Left(f[t], j)
      BY <1>3, BookAt
    <2>2. Book(e2, h, p, f2)[k] = e2[n] /\ Book(e2, h, p, f2)[m] = Left(f2[t], j)
      BY <1>3, BookAt
    <2>3. QED
      BY <1>3, <1>4, <1>5, <2>1, <2>2
  <1>9. Shifted(Book(e, h, p, f), Book(e2, h, p, f2), k, m)
    BY <1>7, <1>8 DEF Shifted
  <1>10. Exact(c, e2, h, p, f2)
    BY <1>1, <1>9, Moves
  <1>11. QED
    BY <1>1, <1>6, <1>10 DEF Booked, e2, f2

\* A frame gives up the first of what it has taken out.
LEMMA TakenLeaves ==
    ASSUME NEW c, NEW e, NEW h, NEW p, NEW f, Booked(c, e, h, p, f), NEW t \in Thread,
           f[t] # <<>>, Last(f[t]).runs # "drain", Last(f[t]).left # <<>>
    PROVE  /\ Head(Last(f[t]).left) \in Node /\ c[Head(Last(f[t]).left)] >= 1
           /\ Booked([c EXCEPT ![Head(Last(f[t]).left)] = @ - 1], e, h, p,
                     [f EXCEPT ![t] = Append(Front(f[t]), [Last(f[t]) EXCEPT !.left = Tail(@)])])
  <1> DEFINE q == f[t]
             l == Last(q).left
             y == Head(l)
             r == [Last(q) EXCEPT !.left = Tail(@)]
             f2 == [f EXCEPT ![t] = Append(Front(q), r)]
             d == [c EXCEPT ![y] = @ - 1]
             j == Len(q)
             k == <<"taken", <<t, j>>>>
  <1>1. c \in [Node -> Int] /\ Kinds(e, h, p, f) /\ Exact(c, e, h, p, f)
    BY DEF Booked
  <1>2. q \in Seq(Frame) /\ f \in [Thread -> Seq(Frame)] /\ q # <<>>
    BY <1>1 DEF Kinds
  <1>3. Last(q) \in Frame /\ Front(q) \in Seq(Frame) /\ j \in DOMAIN q /\ j \in Nat /\ Last(q) = q[j]
    BY <1>2, FrontLastType, FrontRemoves
  <1>4. Last(q) \in Working
    BY <1>3 DEF Frame, DrainFrame
  <1>5. l \in Seq(Node) /\ l # <<>>
    BY <1>4 DEF Working
  <1>6. y \in Node /\ Tail(l) \in Seq(Node) /\ Tail(l) = RemoveAt(l, 1) /\ y = l[1] /\ 1 \in DOMAIN l
    <2>1. l \in Seq(Node) /\ l # <<>>
      BY <1>5
    <2> HIDE DEF l
    <2>2. Head(l) \in Node /\ Tail(l) \in Seq(Node)
      BY <2>1
    <2>3. Tail(l) = RemoveAt(l, 1) /\ Head(l) = l[1] /\ 1 \in DOMAIN l
      BY <2>1, TailRemoves
    <2>4. QED
      BY <2>2, <2>3
  <1>7. r \in Working /\ r.left = Tail(l) /\ r.runs = Last(q).runs
    BY <1>4, <1>6 DEF Working
  <1>8. r \in Frame /\ r.runs # "drain"
    BY <1>7 DEF Frame
  <1>9. /\ Append(Front(q), r) \in Seq(Frame) /\ Left(Append(Front(q), r), j) = Tail(l)
        /\ \A i \in Nat : i # j => Left(Append(Front(q), r), i) = Left(q, i)
    <2>1. Len(Front(q)) + 1 = j /\ q = Append(Front(q), Last(q))
      BY <1>2, FrontAndLast
    <2> HIDE DEF q, r, l, j
    <2>2. /\ Append(Front(q), r) \in Seq(Frame) /\ Left(Append(Front(q), r), j) = r.left
          /\ \A i \in Nat : i # j => Left(Append(Front(q), r), i) = Left(Front(q), i)
      BY <1>3, <1>8, <2>1, LeftPushed
    <2>3. \A i \in Nat : i # j => Left(Append(Front(q), Last(q)), i) = Left(Front(q), i)
      BY <1>3, <2>1, LeftPushed
    <2>4. QED
      BY <1>7, <2>1, <2>2, <2>3
  <1>10. Left(q, j) = l
    BY <1>3 DEF Left
  <1>11. /\ f2 \in [Thread -> Seq(Frame)] /\ f2[t] = Append(Front(q), r)
         /\ \A u \in Thread : u # t => f2[u] = f[u]
    BY <1>2, <1>9
  <1>12. d \in [Node -> Int] /\ \A x \in Node : d[x] = c[x] - (IF x = y THEN 1 ELSE 0)
    BY <1>1, <1>6
  <1>13. k \in Shelf /\ Book(e, h, p, f)[k] = l
    BY <1>3, <1>10, Shelves, BookAt
  <1>14. Left(f2[t], j) = RemoveAt(l, 1) /\ \A i \in Nat : i # j => Left(f2[t], i) = Left(f[t], i)
    BY <1>6, <1>9, <1>11
  <1> HIDE DEF r, f2, d, l, j, y
  <1>15. Kinds(e, h, p, f2)
    BY <1>1, <1>11 DEF Kinds
  <1>16. Book(e, h, p, f2)[k] = RemoveAt(l, 1)
    BY <1>3, <1>14, BookAt
  <1>17. Differ(Book(e, h, p, f), Book(e, h, p, f2), {k})
    <2>1. {k} \in SUBSET Shelf
      BY <1>13
    <2>2. \A u \in Thread, i \in Nat : <<"taken", <<u, i>>>> \in {k} \/ Left(f2[u], i) = Left(f[u], i)
      BY <1>11, <1>14
    <2> HIDE DEF k
    <2>3. QED
      BY <1>1, <1>15, <2>1, <2>2, Differs
  <1>18. Shorter(Book(e, h, p, f), Book(e, h, p, f2), k, 1)
    BY <1>6, <1>13, <1>16, <1>17 DEF Shorter
  <1>19. Exact(d, e, h, p, f2)
    <2>1. \A x \in Node : d[x] = c[x] - (IF x = Book(e, h, p, f)[k][1] THEN 1 ELSE 0)
      BY <1>6, <1>12, <1>13
    <2>2. QED
      BY <1>1, <1>18, <2>1, Leaves
  <1>20. c[y] >= 1
    <2> HIDE DEF k
    <2>1. 1 \in DOMAIN Book(e, h, p, f)[k] /\ Book(e, h, p, f)[k][1] = y /\ k \in Shelf
      BY <1>6, <1>13
    <2>2. QED
      BY <1>1, <2>1, EdgeCounts
  <1>21. QED
    BY <1>6, <1>12, <1>15, <1>19, <1>20 DEF Booked, r, f2, d, l, y

\* The drain loop starts.
LEMMA FramePushed ==
    ASSUME NEW c, NEW e, NEW h, NEW p, NEW f, Booked(c, e, h, p, f), NEW t \in Thread
    PROVE  Booked(c, e, h, p, [f EXCEPT ![t] = Append(@, DrainFrame)])
  <1> DEFINE f2 == [f EXCEPT ![t] = Append(@, DrainFrame)]
  <1>1. c \in [Node -> Int] /\ Kinds(e, h, p, f) /\ Exact(c, e, h, p, f)
    BY DEF Booked
  <1>2. f[t] \in Seq(Frame) /\ f \in [Thread -> Seq(Frame)] /\ DrainFrame \in Frame /\ DrainFrame.runs = "drain"
    BY <1>1 DEF Kinds, Frame, DrainFrame
  <1>3. Append(f[t], DrainFrame) \in Seq(Frame) /\ \A j \in Nat : Left(Append(f[t], DrainFrame), j) = Left(f[t], j)
    BY <1>2, LeftPushed
  <1>4. f2 \in [Thread -> Seq(Frame)] /\ \A u \in Thread, j \in Nat : Left(f2[u], j) = Left(f[u], j)
    BY <1>2, <1>3
  <1> HIDE DEF f2
  <1>5. Kinds(e, h, p, f2)
    BY <1>1, <1>4 DEF Kinds
  <1>6. Exact(c, e, h, p, f2)
    BY <1>1, <1>4, <1>5, Rests
  <1>7. QED
    BY <1>1, <1>5, <1>6 DEF Booked, f2

\* A frame that has nothing left returns.
LEMMA FramePopped ==
    ASSUME NEW c, NEW e, NEW h, NEW p, NEW f, Booked(c, e, h, p, f), NEW t \in Thread,
           f[t] # <<>>, Last(f[t]).runs = "drain" \/ Last(f[t]).left = <<>>
    PROVE  Booked(c, e, h, p, [f EXCEPT ![t] = Front(@)])
  <1> DEFINE f2 == [f EXCEPT ![t] = Front(@)]
             q == f[t]
  <1>1. c \in [Node -> Int] /\ Kinds(e, h, p, f) /\ Exact(c, e, h, p, f)
    BY DEF Booked
  <1>2. q \in Seq(Frame) /\ f \in [Thread -> Seq(Frame)] /\ q # <<>>
    BY <1>1 DEF Kinds
  <1>3. Front(q) \in Seq(Frame) /\ Last(q) \in Frame
    BY <1>2, FrontLastType
  <1>4. q = Append(Front(q), Last(q))
    BY <1>2, FrontAndLast
  <1>5. \A j \in Nat : Left(Front(q), j) = Left(q, j)
    <2>1. Last(q).runs = "drain" \/ Last(q).left = <<>>
      OBVIOUS
    <2> HIDE DEF q
    <2>2. /\ Left(Front(q), Len(Front(q)) + 1) = <<>> /\ Left(Append(Front(q), Last(q)), Len(Front(q)) + 1) = <<>>
          /\ \A j \in Nat : j # Len(Front(q)) + 1 => Left(Append(Front(q), Last(q)), j) = Left(Front(q), j)
      BY <1>3, <2>1, LeftPushed
    <2>3. QED
      BY <1>4, <2>2
  <1>6. f2 \in [Thread -> Seq(Frame)] /\ \A u \in Thread, j \in Nat : Left(f2[u], j) = Left(f[u], j)
    BY <1>2, <1>3, <1>5
  <1> HIDE DEF f2
  <1>7. Kinds(e, h, p, f2)
    BY <1>1, <1>6 DEF Kinds
  <1>8. Exact(c, e, h, p, f2)
    BY <1>1, <1>6, <1>7, Rests
  <1>9. QED
    BY <1>1, <1>7, <1>8 DEF Booked, f2

-----------------------------------------------------------------------------
(* Counts and states.                                                      *)

\* Each Drop on a stack is that of a node no edge leads to.
Dead(st, q) == \A j \in DOMAIN q : q[j].runs = "drop" => st[q[j].node] \in {"dying", "freed"}

States(c, st, f) ==
    /\ st \in [Node -> {"unborn", "live", "dying", "freed"}]
    /\ \A x \in Node : st[x] = "live" <=> c[x] > 0
    /\ \A u \in Thread : Dead(st, f[u])

CInv == Booked(strong, edges, held, pending, frames) /\ States(strong, state, frames)

\* The Drops on a stack with a frame more, a frame less, and a frame that has
\* given up an element.
LEMMA DeadPushed ==
    ASSUME NEW st, NEW q \in Seq(Frame), Dead(st, q), NEW r,
           r.runs = "drop" => st[r.node] \in {"dying", "freed"}
    PROVE  Dead(st, Append(q, r))
  BY DEF Dead

\* The Drops on a stack without its last frame.
LEMMA DeadFront ==
    ASSUME NEW st, NEW q \in Seq(Frame), Dead(st, q), q # <<>>
    PROVE  /\ Dead(st, Front(q)) /\ Front(q) \in Seq(Frame)
           /\ Last(q).runs = "drop" => st[Last(q).node] \in {"dying", "freed"}
  <1>1. Front(q) = RemoveAt(q, Len(q)) /\ Last(q) = q[Len(q)] /\ Len(q) \in DOMAIN q /\ Len(q) \in Nat
    BY FrontRemoves
  <1>2. /\ Front(q) \in Seq(Frame) /\ Len(Front(q)) = Len(q) - 1
        /\ \A j \in 1 .. Len(q) - 1 : Front(q)[j] = IF j < Len(q) THEN q[j] ELSE q[j + 1]
    BY <1>1, RemoveAtProperties
  <1>3. \A j \in DOMAIN Front(q) : j \in DOMAIN q /\ Front(q)[j] = q[j]
    BY <1>1, <1>2
  <1>4. QED
    BY <1>1, <1>2, <1>3 DEF Dead

\* Thread t gives up an edge to n, one of c[n]: the last begins n's Drop.
GivenUp(c, t, n, st, e, f, st2, e2, f2) ==
    IF c[n] = 1
    THEN /\ st2 = [st EXCEPT ![n] = "dying"] /\ e2 = [e EXCEPT ![n] = <<>>]
         /\ f2 = [f EXCEPT ![t] = Append(@, DropFrame(n, e[n]))]
    ELSE st2 = st /\ e2 = e /\ f2 = f

\* Counts and states after that.
LEMMA Dropped ==
    ASSUME NEW c \in [Node -> Int], NEW d, NEW st, NEW st2, NEW e, NEW e2, NEW h, NEW p, NEW f, NEW f2,
           NEW t \in Thread, NEW n \in Node, d = [c EXCEPT ![n] = @ - 1], c[n] >= 1,
           Booked(d, e, h, p, f), States(c, st, f),
           GivenUp(c, t, n, st, e, f, st2, e2, f2)
    PROVE  Booked(d, e2, h, p, f2) /\ States(d, st2, f2)
  <1>1. /\ st \in [Node -> {"unborn", "live", "dying", "freed"}] /\ \A x \in Node : st[x] = "live" <=> c[x] > 0
        /\ \A u \in Thread : Dead(st, f[u])
    BY DEF States
  <1>2. \A x \in Node : d[x] = IF x = n THEN c[x] - 1 ELSE c[x]
    OBVIOUS
  <1>3. CASE c[n] = 1
    <2>1. /\ st2 = [st EXCEPT ![n] = "dying"] /\ e2 = [e EXCEPT ![n] = <<>>]
          /\ f2 = [f EXCEPT ![t] = Append(@, DropFrame(n, e[n]))]
      BY <1>3 DEF GivenUp
    <2>2. Kinds(e, h, p, f)
      BY DEF Booked
    <2> DEFINE r == DropFrame(n, e[n])
    <2>3. r \in Frame /\ r.runs = "drop" /\ r.left = e[n] /\ r.node = n /\ f \in [Thread -> Seq(Frame)]
      BY <2>2 DEF DropFrame, Frame, Working, Kinds
    <2> HIDE DEF r
    <2>4. Booked(d, e2, h, p, f2)
      <3>1. Booked(d, [e EXCEPT ![n] = <<>>], h, p, [f EXCEPT ![t] = Append(@, r)])
        BY <2>3, ElementsTaken
      <3>2. QED
        BY <2>1, <3>1 DEF r
    <2>5. st2 \in [Node -> {"unborn", "live", "dying", "freed"}] /\ \A x \in Node : st2[x] = "live" <=> d[x] > 0
      BY <1>1, <1>2, <1>3, <2>1
    <2>6. \A x \in Node : st[x] \in {"dying", "freed"} => st2[x] \in {"dying", "freed"}
      BY <1>1, <2>1
    <2>7. ASSUME NEW u \in Thread PROVE Dead(st2, f[u])
      <3>1. ASSUME NEW j \in DOMAIN f[u], f[u][j].runs = "drop" PROVE f[u][j].node \in Node
        <4>1. f[u][j] \in Frame
          BY <2>3
        <4>2. QED
          BY <3>1, <4>1 DEF Frame, Working, DrainFrame
      <3>2. Dead(st, f[u])
        BY <1>1
      <3>3. QED
        BY <2>6, <3>1, <3>2 DEF Dead
    <2>8. ASSUME NEW u \in Thread PROVE Dead(st2, f2[u])
      <3>1. CASE u = t
        <4>1. f2[t] = Append(f[t], r) /\ f[t] \in Seq(Frame) /\ st2[r.node] = "dying"
          BY <1>1, <2>1, <2>3 DEF r
        <4>2. Dead(st2, Append(f[t], r))
          BY <2>7, <4>1, DeadPushed
        <4>3. QED
          BY <3>1, <4>1, <4>2
      <3>2. CASE u # t
        <4>1. f2[u] = f[u]
          BY <2>1, <2>3, <3>2
        <4>2. QED
          BY <2>7, <4>1
      <3>3. QED
        BY <3>1, <3>2
    <2>9. QED
      BY <2>4, <2>5, <2>8 DEF States
  <1>4. CASE c[n] # 1
    <2>1. st2 = st /\ e2 = e /\ f2 = f
      BY <1>4 DEF GivenUp
    <2>2. \A x \in Node : st[x] = "live" <=> d[x] > 0
      BY <1>1, <1>2, <1>4
    <2>3. QED
      BY <1>1, <2>1, <2>2 DEF States
  <1>5. QED
    BY <1>3, <1>4

\* DropEdge, with the stack that the frames below it make.
LEMMA DropEdgeCounts ==
    ASSUME CInv, NEW t \in Thread, NEW n \in Node, NEW fs, NEW h, NEW p, strong[n] >= 1, DropEdge(t, n, fs),
           Booked([strong EXCEPT ![n] = @ - 1], edges, h, p, [frames EXCEPT ![t] = fs]), Dead(state, fs),
           held' = h, pending' = p
    PROVE  CInv'
  <1> DEFINE f == [frames EXCEPT ![t] = fs]
             d == [strong EXCEPT ![n] = @ - 1]
  <1>1. strong \in [Node -> Int] /\ frames \in [Thread -> Seq(Frame)] /\ States(strong, state, frames)
    BY DEF CInv, Booked, Kinds
  <1>2. f[t] = fs /\ (\A u \in Thread : u # t => f[u] = frames[u])
        /\ \A q : [f EXCEPT ![t] = q] = [frames EXCEPT ![t] = q]
    BY <1>1
  <1>3. States(strong, state, f)
    BY <1>1, <1>2 DEF States
  <1>4. strong' = d /\ Booked(d, edges, h, p, f)
    BY DEF DropEdge
  <1>5. strong[n] = 1 => /\ state' = [state EXCEPT ![n] = "dying"] /\ edges' = [edges EXCEPT ![n] = <<>>]
                         /\ frames' = [frames EXCEPT ![t] = Append(fs, DropFrame(n, edges[n]))]
    BY DEF DropEdge
  <1>6. strong[n] # 1 => state' = state /\ edges' = edges /\ frames' = f
    BY DEF DropEdge
  <1>7. [f EXCEPT ![t] = Append(@, DropFrame(n, edges[n]))] = [frames EXCEPT ![t] = Append(fs, DropFrame(n, edges[n]))]
    BY <1>2
  <1> HIDE DEF f
  <1>8. Booked(d, edges', h, p, frames') /\ States(d, state', frames')
    <2>1. d = [strong EXCEPT ![n] = @ - 1]
      OBVIOUS
    <2>2. GivenUp(strong, t, n, state, edges, f, state', edges', frames')
      BY <1>5, <1>6, <1>7 DEF GivenUp
    <2> HIDE DEF d
    <2>3. QED
      BY <1>1, <1>3, <1>4, <2>1, <2>2, Dropped
  <1>9. QED
    BY <1>4, <1>8 DEF CInv

\* A count taken down and up again.
LEMMA DownAndUp ==
    ASSUME NEW c \in [Node -> Int], NEW y \in Node
    PROVE  [[c EXCEPT ![y] = @ - 1] EXCEPT ![y] = @ + 1] = c
  <1> DEFINE d == [[c EXCEPT ![y] = @ - 1] EXCEPT ![y] = @ + 1]
  <1>1. d \in [Node -> Int]
    OBVIOUS
  <1>2. \A x \in Node : d[x] = c[x]
    OBVIOUS
  <1> HIDE DEF d
  <1>3. d = c
    BY <1>1, <1>2
  <1>4. QED
    BY <1>3 DEF d

\* Operations of a thread at rest that release nothing.
LEMMA CreateCounts == ASSUME CInv, NEW t \in Thread, Create(t) PROVE CInv'
  <1> DEFINE n == CHOOSE m \in Node : state[m] = "unborn"
  <1>1. n \in Node /\ state[n] = "unborn"
    BY DEF Create
  <1>2. /\ state' = [state EXCEPT ![n] = "live"] /\ strong' = [strong EXCEPT ![n] = 1]
        /\ held' = [held EXCEPT ![t] = Append(@, n)] /\ edges' = edges /\ pending' = pending /\ frames' = frames
    BY DEF Create, release
  <1> HIDE DEF n
  <1>3. Booked(strong, edges, held, pending, frames) /\ States(strong, state, frames) /\ strong \in [Node -> Int]
    BY DEF CInv, Booked
  <1>4. strong[n] = 0
    <2>1. strong[n] <= 0
      BY <1>1, <1>3 DEF States
    <2>2. strong[n] = Cardinality(Places(Book(edges, held, pending, frames), n))
          /\ IsFiniteSet(Places(Book(edges, held, pending, frames), n))
      BY <1>1, <1>3 DEF Booked, Exact
    <2>3. strong[n] \in Nat
      BY <2>2, FS_CardinalityType
    <2>4. QED
      BY <2>1, <2>3
  <1>5. strong' = [strong EXCEPT ![n] = @ + 1]
    BY <1>2, <1>3, <1>4
  <1>6. Booked(strong', edges', held', pending', frames')
    <2>1. Booked([strong EXCEPT ![n] = @ + 1], edges, [held EXCEPT ![t] = Append(@, n)], pending, frames)
      BY <1>1, <1>3, HandleJoins
    <2>2. QED
      BY <1>2, <1>5, <2>1
  <1>7. States(strong', state', frames')
    <2>1. state' \in [Node -> {"unborn", "live", "dying", "freed"}] /\ \A x \in Node : state'[x] = "live" <=> strong'[x] > 0
      BY <1>1, <1>2, <1>3 DEF States
    <2>2. ASSUME NEW u \in Thread PROVE Dead(state', frames'[u])
      <3>1. Dead(state, frames[u]) /\ frames[u] \in Seq(Frame)
        BY <1>3 DEF States, Booked, Kinds
      <3>2. ASSUME NEW j \in DOMAIN frames[u], frames[u][j].runs = "drop" PROVE frames[u][j].node \in Node
        <4>1. frames[u][j] \in Frame
          BY <3>1
        <4>2. QED
          BY <3>2, <4>1 DEF Frame, Working, DrainFrame
      <3>3. \A x \in Node : state[x] \in {"dying", "freed"} => state'[x] \in {"dying", "freed"}
        BY <1>1, <1>2, <1>3 DEF States
      <3>4. QED
        BY <1>2, <3>1, <3>2, <3>3 DEF Dead
    <2>3. QED
      BY <2>1, <2>2 DEF States
  <1>8. QED
    BY <1>6, <1>7 DEF CInv

\* The states are in step with the counts, as long as neither is touched where
\* the other is not: a reference to a live node is cloned.
LEMMA Cloned ==
    ASSUME CInv, NEW y \in Node, strong[y] >= 1, strong' = [strong EXCEPT ![y] = @ + 1],
           state' = state, frames' = frames, Booked(strong', edges', held', pending', frames')
    PROVE  CInv'
  <1>1. strong \in [Node -> Int] /\ States(strong, state, frames)
    BY DEF CInv, Booked
  <1>2. States(strong', state', frames')
    BY <1>1 DEF States
  <1>3. QED
    BY <1>2 DEF CInv

\* A handle is cloned.
LEMMA CloneHandleCounts ==
    ASSUME CInv, NEW t \in Thread, NEW n \in Node, NEW u \in Thread, CloneHandle(t, n, u) PROVE CInv'
  <1>1. Booked(strong, edges, held, pending, frames)
    BY DEF CInv
  <1>2. \E i \in DOMAIN held[t] : held[t][i] = n
    <2>1. held[t] \in Seq(Node)
      BY <1>1 DEF Booked, Kinds
    <2>2. Contains(held[t], n)
      BY DEF CloneHandle, Holds
    <2>3. QED
      BY <2>1, <2>2 DEF Contains
  <1>3. strong[n] >= 1
    BY <1>1, <1>2, HandleLeaves
  <1>4. /\ strong' = [strong EXCEPT ![n] = @ + 1] /\ held' = [held EXCEPT ![u] = Append(@, n)]
        /\ state' = state /\ edges' = edges /\ pending' = pending /\ frames' = frames
    BY DEF CloneHandle, release
  <1>5. Booked(strong', edges', held', pending', frames')
    BY <1>1, <1>4, HandleJoins
  <1>6. QED
    BY <1>3, <1>4, <1>5, Cloned

\* An element is cloned out.
LEMMA GetCounts ==
    ASSUME CInv, NEW t \in Thread, NEW n \in Node, NEW i, Get(t, n, i) PROVE CInv'
  <1> DEFINE y == edges[n][i]
  <1>1. Booked(strong, edges, held, pending, frames)
    BY DEF CInv
  <1>2. y \in Node /\ strong[y] >= 1
    BY <1>1, ElementLeaves DEF Get
  <1>3. /\ strong' = [strong EXCEPT ![y] = @ + 1] /\ held' = [held EXCEPT ![t] = Append(@, y)]
        /\ state' = state /\ edges' = edges /\ pending' = pending /\ frames' = frames
    BY DEF Get, release
  <1> HIDE DEF y
  <1>4. Booked(strong', edges', held', pending', frames')
    BY <1>1, <1>2, <1>3, HandleJoins
  <1>5. QED
    BY <1>2, <1>3, <1>4, Cloned

\* A reference moves from a handle to an element.
LEMMA PushCounts ==
    ASSUME CInv, NEW t \in Thread, NEW n \in Node, NEW i, Push(t, n, i) PROVE CInv'
  <1> DEFINE y == held[t][i]
             d == [strong EXCEPT ![y] = @ - 1]
             h == [held EXCEPT ![t] = RemoveAt(@, i)]
  <1>1. Booked(strong, edges, held, pending, frames) /\ States(strong, state, frames) /\ strong \in [Node -> Int]
    BY DEF CInv, Booked
  <1>2. y \in Node /\ Booked(d, edges, h, pending, frames)
    BY <1>1, HandleLeaves DEF Push
  <1>3. [d EXCEPT ![y] = @ + 1] = strong
    BY <1>1, <1>2, DownAndUp
  <1>4. /\ edges' = [edges EXCEPT ![n] = Append(@, y)] /\ held' = h
        /\ strong' = strong /\ state' = state /\ pending' = pending /\ frames' = frames
    BY DEF Push, counts, release
  <1> HIDE DEF y, d, h
  <1>5. Booked([d EXCEPT ![y] = @ + 1], [edges EXCEPT ![n] = Append(@, y)], h, pending, frames)
    BY <1>2, ElementJoins
  <1>6. QED
    BY <1>1, <1>3, <1>4, <1>5 DEF CInv

\* A reference moves from an element to a handle.
LEMMA PopCounts ==
    ASSUME CInv, NEW t \in Thread, NEW n \in Node, Pop(t, n) PROVE CInv'
  <1> DEFINE i == Len(edges[n])
             y == edges[n][i]
             d == [strong EXCEPT ![y] = @ - 1]
             e == [edges EXCEPT ![n] = RemoveAt(@, i)]
  <1>1. Booked(strong, edges, held, pending, frames) /\ States(strong, state, frames) /\ strong \in [Node -> Int]
    BY DEF CInv, Booked
  <1>2. edges[n] \in Seq(Node) /\ edges[n] # <<>>
    BY <1>1 DEF Booked, Kinds, Pop
  <1>3. Front(edges[n]) = RemoveAt(edges[n], i) /\ Last(edges[n]) = y /\ i \in DOMAIN edges[n]
    BY <1>2, FrontRemoves
  <1>4. y \in Node /\ Booked(d, e, held, pending, frames)
    BY <1>1, <1>3, ElementLeaves
  <1>5. [d EXCEPT ![y] = @ + 1] = strong
    BY <1>1, <1>4, DownAndUp
  <1>6. /\ edges' = e /\ held' = [held EXCEPT ![t] = Append(@, y)]
        /\ strong' = strong /\ state' = state /\ pending' = pending /\ frames' = frames
    BY <1>3 DEF Pop, counts, release
  <1> HIDE DEF i, y, d, e
  <1>7. Booked([d EXCEPT ![y] = @ + 1], e, [held EXCEPT ![t] = Append(@, y)], pending, frames)
    BY <1>4, HandleJoins
  <1>8. QED
    BY <1>1, <1>5, <1>6, <1>7 DEF CInv

\* A handle is dropped.
LEMMA DropHandleCounts ==
    ASSUME CInv, NEW t \in Thread, NEW i, DropHandle(t, i) PROVE CInv'
  <1> DEFINE y == held[t][i]
             h == [held EXCEPT ![t] = RemoveAt(@, i)]
  <1>1. Booked(strong, edges, held, pending, frames) /\ frames \in [Thread -> Seq(Frame)]
    BY DEF CInv, Booked, Kinds
  <1>2. y \in Node /\ strong[y] >= 1 /\ Booked([strong EXCEPT ![y] = @ - 1], edges, h, pending, frames)
    BY <1>1, HandleLeaves DEF DropHandle
  <1>3. frames = [frames EXCEPT ![t] = <<>>]
    BY <1>1 DEF DropHandle, Idle
  <1>4. DropEdge(t, y, <<>>) /\ held' = h /\ pending' = pending
    BY DEF DropHandle
  <1>5. Dead(state, <<>>)
    BY DEF Dead
  <1> HIDE DEF y, h
  <1>6. Booked([strong EXCEPT ![y] = @ - 1], edges, h, pending, [frames EXCEPT ![t] = <<>>])
    BY <1>2, <1>3
  <1>7. QED
    BY <1>2, <1>4, <1>5, <1>6, DropEdgeCounts

\* The drain loop drops the latest edge of the worklist.
LEMMA DrainCounts ==
    ASSUME CInv, NEW t \in Thread, Drain(t) PROVE CInv'
  <1> DEFINE i == Len(pending[t])
             y == pending[t][i]
             p == [pending EXCEPT ![t] = RemoveAt(@, i)]
  <1>1. Booked(strong, edges, held, pending, frames) /\ frames \in [Thread -> Seq(Frame)] /\ States(strong, state, frames)
    BY DEF CInv, Booked, Kinds
  <1>2. pending[t] \in Seq(Node) /\ pending[t] # <<>>
    BY <1>1 DEF Booked, Kinds, Drain
  <1>3. Front(pending[t]) = RemoveAt(pending[t], i) /\ Last(pending[t]) = y /\ i \in DOMAIN pending[t]
    BY <1>2, FrontRemoves
  <1>4. y \in Node /\ strong[y] >= 1 /\ Booked([strong EXCEPT ![y] = @ - 1], edges, held, p, frames)
    BY <1>1, <1>3, ListedLeaves
  <1>5. frames = [frames EXCEPT ![t] = frames[t]]
    BY <1>1
  <1>6. DropEdge(t, y, frames[t]) /\ held' = held /\ pending' = p
    BY <1>3 DEF Drain
  <1>7. Dead(state, frames[t])
    BY <1>1 DEF States
  <1> HIDE DEF i, y, p
  <1>8. Booked([strong EXCEPT ![y] = @ - 1], edges, held, p, [frames EXCEPT ![t] = frames[t]])
    BY <1>4, <1>5
  <1>9. QED
    BY <1>4, <1>6, <1>7, <1>8, DropEdgeCounts

\* An element is overwritten, and the old one dropped.
LEMMA OverwriteCounts ==
    ASSUME CInv, NEW t \in Thread, NEW n \in Node, NEW i, Overwrite(t, n, i) PROVE CInv'
  <1> DEFINE m == edges[n][i]
             d == [strong EXCEPT ![m] = @ - 1]
             e == [edges EXCEPT ![n] = RemoveAt(@, i)]
  <1>1. /\ Booked(strong, edges, held, pending, frames) /\ States(strong, state, frames)
        /\ strong \in [Node -> Int] /\ Kinds(edges, held, pending, frames) /\ Exact(strong, edges, held, pending, frames)
    BY DEF CInv, Booked
  <1>2. edges \in [Node -> Seq(Node)] /\ frames \in [Thread -> Seq(Frame)] /\ held[t] \in Seq(Node)
    BY <1>1 DEF Kinds
  <1>3. i \in DOMAIN edges[n] /\ Contains(held[t], n) /\ frames[t] = <<>>
    BY DEF Overwrite, Holds, Idle
  <1>4. m \in Node /\ strong[m] >= 1 /\ Booked(d, e, held, pending, frames)
    BY <1>1, <1>3, ElementLeaves
  <1>5. strong[m] = 1 => m # n
    <2>1. PICK j \in DOMAIN held[t] : held[t][j] = n
      <3> DEFINE h == held[t]
      <3>1. \E j \in 1 .. Len(h) : h[j] = n
        BY <1>3 DEF Contains
      <3>2. h \in Seq(Node)
        BY <1>2
      <3> HIDE DEF h
      <3>3. \E j \in DOMAIN h : h[j] = n
        BY <3>1, <3>2
      <3> QED BY <3>3 DEF h
    <2>2. <<"elements", n>> \in Shelf /\ <<"handles", t>> \in Shelf /\ <<"elements", n>> # <<"handles", t>>
      BY Shelves
    <2>3. /\ Book(edges, held, pending, frames)[<<"elements", n>>] = edges[n]
          /\ Book(edges, held, pending, frames)[<<"handles", t>>] = held[t]
      BY BookAt
    <2>4. m = n => strong[m] >= 2
      <3> DEFINE B == Book(edges, held, pending, frames)
                 k == <<"elements", n>>
                 l == <<"handles", t>>
      <3>1. k \in Shelf /\ i \in DOMAIN B[k] /\ l \in Shelf /\ j \in DOMAIN B[l] /\ l # k
            /\ B[k][i] = m /\ B[l][j] = n
        BY <1>3, <2>1, <2>2, <2>3
      <3>2. \A x \in Shelf : \A y \in DOMAIN B[x] : x # k /\ B[x][y] = B[k][i] => strong[B[k][i]] >= 2
        <4> HIDE DEF k, m
        <4>1. QED
          BY <1>1, <3>1, EdgeCounts
      <3> HIDE DEF B, k, l, m
      <3>3. QED
        BY <3>1, <3>2
    <2>5. QED
      BY <1>1, <1>4, <2>4
  <1>6. strong' = d /\ held' = held /\ pending' = pending
    BY DEF Overwrite
  <1>7. strong[m] = 1 => /\ state' = [state EXCEPT ![m] = "dying"]
                         /\ edges' = [edges EXCEPT ![n] = RemoveAt(@, i), ![m] = <<>>]
                         /\ frames' = [frames EXCEPT ![t] = <<DropFrame(m, edges[m])>>]
    BY DEF Overwrite
  <1>8. strong[m] # 1 => state' = state /\ edges' = e /\ frames' = frames
    BY DEF Overwrite
  <1>9. strong[m] = 1 => /\ edges' = [e EXCEPT ![m] = <<>>]
                         /\ frames' = [frames EXCEPT ![t] = Append(@, DropFrame(m, e[m]))]
    <2>1. [edges EXCEPT ![n] = RemoveAt(@, i), ![m] = <<>>] = [e EXCEPT ![m] = <<>>]
      OBVIOUS
    <2>2. m # n => e[m] = edges[m]
      BY <1>2, <1>4
    <2>3. Append(frames[t], DropFrame(m, edges[m])) = <<DropFrame(m, edges[m])>>
      BY <1>3, AppendShort
    <2>4. QED
      BY <1>5, <1>7, <2>1, <2>2, <2>3
  <1> HIDE DEF m, e
  <1>11. GivenUp(strong, t, m, state, e, frames, state', edges', frames')
    BY <1>7, <1>8, <1>9 DEF GivenUp
  <1>12. Booked(d, edges', held, pending, frames') /\ States(d, state', frames')
    <2>1. d = [strong EXCEPT ![m] = @ - 1]
      OBVIOUS
    <2> HIDE DEF d
    <2>2. QED
      BY <1>1, <1>4, <1>11, <2>1, Dropped
  <1>13. QED
    BY <1>6, <1>12 DEF CInv

\* The frames change, and no Drop begins.
LEMMA SameDrops ==
    ASSUME CInv, NEW t \in Thread, NEW fs, frames' = [frames EXCEPT ![t] = fs], Dead(state', fs),
           strong' = strong, Booked(strong', edges', held', pending', frames'),
           state' \in [Node -> {"unborn", "live", "dying", "freed"}],
           \A x \in Node : /\ (state[x] = "live" <=> state'[x] = "live")
                           /\ (state[x] \in {"dying", "freed"} => state'[x] \in {"dying", "freed"})
    PROVE  CInv'
  <1>1. /\ States(strong, state, frames) /\ strong \in [Node -> Int] /\ frames \in [Thread -> Seq(Frame)]
    BY DEF CInv, Booked, Kinds
  <1>2. ASSUME NEW u \in Thread PROVE Dead(state', frames'[u])
    <2>1. CASE u = t
      BY <1>1, <2>1
    <2>2. CASE u # t
      <3>1. frames'[u] = frames[u] /\ Dead(state, frames[u]) /\ frames[u] \in Seq(Frame)
        BY <1>1, <2>2 DEF States
      <3>2. ASSUME NEW j \in DOMAIN frames[u], frames[u][j].runs = "drop" PROVE frames[u][j].node \in Node
        <4>1. frames[u][j] \in Frame
          BY <3>1
        <4>2. QED
          BY <3>2, <4>1 DEF Frame, Working, DrainFrame
      <3>3. QED
        BY <3>1, <3>2 DEF Dead
    <2>3. QED
      BY <2>1, <2>2
  <1>3. \A x \in Node : state'[x] = "live" <=> strong'[x] > 0
    BY <1>1 DEF States
  <1>4. QED
    BY <1>2, <1>3 DEF CInv, States

\* The elements of a live node are taken out.
LEMMA ClearCounts ==
    ASSUME CInv, NEW t \in Thread, NEW n \in Node, Clear(t, n) PROVE CInv'
  <1> DEFINE r == [runs |-> IF n \in PerlArrays THEN "erase" ELSE "clear", node |-> n, left |-> edges[n]]
  <1>1. /\ Booked(strong, edges, held, pending, frames) /\ States(strong, state, frames)
        /\ Kinds(edges, held, pending, frames)
    BY DEF CInv, Booked
  <1>2. r \in Frame /\ r.runs \in {"clear", "erase"} /\ r.left = edges[n]
    BY <1>1 DEF Kinds, Frame, Working
  <1>3. frames[t] = <<>> /\ edges' = [edges EXCEPT ![n] = <<>>] /\ frames' = [frames EXCEPT ![t] = <<r>>]
        /\ state' = state /\ strong' = strong /\ held' = held /\ pending' = pending
    BY DEF Clear, Idle, counts
  <1> HIDE DEF r
  <1>4. frames' = [frames EXCEPT ![t] = Append(@, r)]
    BY <1>3, AppendShort
  <1>5. Booked(strong, [edges EXCEPT ![n] = <<>>], held, pending, [frames EXCEPT ![t] = Append(@, r)])
    BY <1>1, <1>2, ElementsTaken
  <1>6. Booked(strong', edges', held', pending', frames')
    BY <1>3, <1>4, <1>5
  <1>7. Dead(state', <<r>>)
    BY <1>2 DEF Dead
  <1>8. state' \in [Node -> {"unborn", "live", "dying", "freed"}]
    BY <1>1, <1>3 DEF States
  <1>9. QED
    BY <1>3, <1>6, <1>7, <1>8, SameDrops

\* What the frame on top of a stack is, and the stack once it has given up an
\* element.
LEMMA RestCounts ==
    ASSUME CInv, NEW t \in Thread, Runs(t, {"drop", "clear", "erase"}), Top(t).left # <<>>
    PROVE  /\ Head(Top(t).left) \in Node /\ strong[Head(Top(t).left)] >= 1
           /\ Booked([strong EXCEPT ![Head(Top(t).left)] = @ - 1], edges, held, pending, [frames EXCEPT ![t] = Rest(t)])
           /\ Rest(t) \in Seq(Frame) /\ Dead(state, Rest(t))
  <1>1. /\ Booked(strong, edges, held, pending, frames) /\ States(strong, state, frames)
        /\ Kinds(edges, held, pending, frames)
    BY DEF CInv, Booked
  <1>2. frames[t] \in Seq(Frame) /\ frames[t] # <<>> /\ Last(frames[t]).runs # "drain" /\ Last(frames[t]).left # <<>>
    BY <1>1 DEF Kinds, Runs, Top
  <1>3. Rest(t) = Append(Front(frames[t]), [Last(frames[t]) EXCEPT !.left = Tail(@)])
    BY DEF Rest, Top
  <1>4. /\ Head(Top(t).left) \in Node /\ strong[Head(Top(t).left)] >= 1
        /\ Booked([strong EXCEPT ![Head(Top(t).left)] = @ - 1], edges, held, pending, [frames EXCEPT ![t] = Rest(t)])
    BY <1>1, <1>2, <1>3, TakenLeaves DEF Top
  <1>5. Dead(state, frames[t])
    BY <1>1 DEF States
  <1>6. /\ Dead(state, Front(frames[t])) /\ Front(frames[t]) \in Seq(Frame)
        /\ Last(frames[t]).runs = "drop" => state[Last(frames[t]).node] \in {"dying", "freed"}
    BY <1>2, <1>5, DeadFront
  <1> DEFINE q == Last(frames[t])
             r == [q EXCEPT !.left = Tail(@)]
  <1>7. q \in Working
    <2>1. q \in Frame
      BY <1>2, FrontLastType
    <2>2. QED
      BY <1>2, <2>1 DEF Frame, DrainFrame
  <1>8. r.runs = q.runs /\ r.node = q.node /\ r \in Frame
    <2>1. q.left \in Seq(Node) /\ q.left # <<>>
      BY <1>2, <1>7 DEF Working
    <2>2. Tail(q.left) \in Seq(Node)
      BY <2>1
    <2>3. r.runs = q.runs /\ r.node = q.node /\ r \in Working
      BY <1>7, <2>2 DEF Working
    <2>4. QED
      BY <2>3 DEF Frame
  <1>9. Rest(t) = Append(Front(frames[t]), r)
    BY <1>3
  <1>10. r.runs = "drop" => state[r.node] \in {"dying", "freed"}
    BY <1>6, <1>8
  <1> HIDE DEF q, r
  <1>11. Dead(state, Rest(t)) /\ Rest(t) \in Seq(Frame)
    BY <1>6, <1>8, <1>9, <1>10, DeadPushed
  <1>12. QED
    BY <1>4, <1>11

\* An element is dropped by plain glue.
LEMMA ReleaseUnlistedCounts ==
    ASSUME CInv, NEW t \in Thread, ReleaseUnlisted(t) PROVE CInv'
  <1>1. Runs(t, {"drop", "clear", "erase"}) /\ Top(t).left # <<>> /\ DropEdge(t, Head(Top(t).left), Rest(t))
        /\ held' = held /\ pending' = pending
    BY DEF ReleaseUnlisted, Runs
  <1> DEFINE y == Head(Top(t).left)
  <1>2. y \in Node /\ strong[y] >= 1 /\ Dead(state, Rest(t))
        /\ Booked([strong EXCEPT ![y] = @ - 1], edges, held, pending, [frames EXCEPT ![t] = Rest(t)])
    BY <1>1, RestCounts
  <1>3. DropEdge(t, y, Rest(t))
    BY <1>1
  <1> HIDE DEF y
  <1>4. QED
    BY <1>1, <1>2, <1>3, DropEdgeCounts

\* An element joins the worklist.
LEMMA ReleaseValueCounts ==
    ASSUME CInv, NEW t \in Thread, ReleaseValue(t) PROVE CInv'
  <1> DEFINE y == Head(Top(t).left)
             d == [strong EXCEPT ![y] = @ - 1]
             f == [frames EXCEPT ![t] = Rest(t)]
             p == [pending EXCEPT ![t] = Append(@, y)]
  <1>1. Runs(t, {"drop", "clear", "erase"}) /\ Top(t).left # <<>> /\ pending' = p
        /\ frames' = [frames EXCEPT ![t] = IF draining[t] THEN Rest(t) ELSE Append(Rest(t), DrainFrame)]
        /\ state' = state /\ strong' = strong /\ edges' = edges /\ held' = held
    BY DEF ReleaseValue, Runs, counts
  <1>2. y \in Node /\ Dead(state, Rest(t)) /\ Rest(t) \in Seq(Frame) /\ Booked(d, edges, held, pending, f)
    BY <1>1, RestCounts
  <1>3. strong \in [Node -> Int] /\ frames \in [Thread -> Seq(Frame)] /\ States(strong, state, frames)
    BY DEF CInv, Booked, Kinds
  <1>4. [d EXCEPT ![y] = @ + 1] = strong
    BY <1>2, <1>3, DownAndUp
  <1>5. f[t] = Rest(t) /\ [f EXCEPT ![t] = Append(@, DrainFrame)] = [frames EXCEPT ![t] = Append(Rest(t), DrainFrame)]
    BY <1>3
  <1> HIDE DEF y, d
  <1>6. Booked(strong, edges, held, p, f)
    <2>1. Booked([d EXCEPT ![y] = @ + 1], edges, held, [pending EXCEPT ![t] = Append(@, y)], f)
      BY <1>2, ListedJoins
    <2>2. QED
      BY <1>4, <2>1
  <1> HIDE DEF p, f
  <1>7. Booked(strong, edges, held, p, [f EXCEPT ![t] = Append(@, DrainFrame)])
    BY <1>6, FramePushed
  <1>8. state' \in [Node -> {"unborn", "live", "dying", "freed"}]
    BY <1>1, <1>3 DEF States
  <1>9. CASE draining[t]
    <2>1. frames' = f /\ frames' = [frames EXCEPT ![t] = Rest(t)]
      BY <1>1, <1>9 DEF f
    <2>2. Booked(strong', edges', held', pending', frames') /\ Dead(state', Rest(t))
      BY <1>1, <1>2, <1>6, <2>1
    <2>3. QED
      BY <1>1, <1>8, <2>1, <2>2, SameDrops
  <1>10. CASE ~draining[t]
    <2>1. frames' = [frames EXCEPT ![t] = Append(Rest(t), DrainFrame)]
      BY <1>1, <1>10
    <2>2. Booked(strong', edges', held', pending', frames')
      BY <1>1, <1>5, <1>7, <2>1
    <2>3. Dead(state, Append(Rest(t), DrainFrame))
      BY <1>2, DeadPushed DEF DrainFrame
    <2>4. Dead(state', Append(Rest(t), DrainFrame))
      BY <1>1, <2>3
    <2>5. QED
      BY <1>1, <1>8, <2>1, <2>2, <2>4, SameDrops
  <1>11. QED
    BY <1>9, <1>10

\* A Drop returns, and its node is freed; or a clear returns.
LEMMA ReturnCounts ==
    ASSUME CInv, NEW t \in Thread, Return(t) PROVE CInv'
  <1> DEFINE q == frames[t]
             n == Last(q).node
  <1>1. /\ q # <<>> /\ Last(q).runs \in {"drop", "clear", "erase"} /\ Last(q).left = <<>>
        /\ state' = [state EXCEPT ![n] = IF Last(q).runs = "drop" THEN "freed" ELSE @]
        /\ frames' = [frames EXCEPT ![t] = Front(q)]
        /\ strong' = strong /\ edges' = edges /\ held' = held /\ pending' = pending
    BY DEF Return, Runs, Top
  <1>2. /\ Booked(strong, edges, held, pending, frames) /\ States(strong, state, frames)
        /\ q \in Seq(Frame)
    BY DEF CInv, Booked, Kinds
  <1>3. state \in [Node -> {"unborn", "live", "dying", "freed"}] /\ Dead(state, q)
    BY <1>2 DEF States
  <1>4. /\ Dead(state, Front(q)) /\ Front(q) \in Seq(Frame)
        /\ Last(q).runs = "drop" => state[n] \in {"dying", "freed"}
    BY <1>1, <1>2, <1>3, DeadFront
  <1>5. Booked(strong, edges, held, pending, [frames EXCEPT ![t] = Front(@)])
    BY <1>1, <1>2, FramePopped
  <1>6. Booked(strong', edges', held', pending', frames')
    BY <1>1, <1>5
  <1> DEFINE drops == Last(q).runs = "drop"
  <1>7. \A x \in Node : state'[x] = IF drops /\ x = n THEN "freed" ELSE state[x]
    BY <1>1, <1>3
  <1>8. state' \in [Node -> {"unborn", "live", "dying", "freed"}]
    <2>1. DOMAIN state' = Node /\ \A x \in Node : state'[x] \in {"unborn", "live", "dying", "freed"}
      BY <1>1, <1>3, <1>7
    <2>2. state' = [x \in DOMAIN state' |-> state'[x]]
      BY <1>1
    <2>3. QED
      BY <2>1, <2>2
  <1>9. /\ \A x \in Node : (state[x] = "live" <=> state'[x] = "live")
        /\ \A x \in Node : state[x] \in {"dying", "freed"} => state'[x] \in {"dying", "freed"}
    BY <1>4, <1>7
  <1>10. Dead(state', Front(q))
    <2>1. ASSUME NEW j \in DOMAIN Front(q), Front(q)[j].runs = "drop" PROVE Front(q)[j].node \in Node
      <3>1. Front(q)[j] \in Frame
        BY <1>4
      <3>2. QED
        BY <2>1, <3>1 DEF Frame, Working, DrainFrame
    <2> HIDE DEF q
    <2>2. QED
      BY <1>4, <1>9, <2>1 DEF Dead
  <1>11. QED
    BY <1>1, <1>6, <1>8, <1>9, <1>10, SameDrops

\* The drain loop ends.
LEMMA DrainEndCounts ==
    ASSUME CInv, NEW t \in Thread, DrainEnd(t) PROVE CInv'
  <1>1. /\ frames[t] # <<>> /\ Last(frames[t]).runs = "drain"
        /\ frames' = [frames EXCEPT ![t] = Front(frames[t])]
        /\ state' = state /\ strong' = strong /\ edges' = edges /\ held' = held /\ pending' = pending
    BY DEF DrainEnd, Runs, Top, counts
  <1>2. /\ Booked(strong, edges, held, pending, frames) /\ States(strong, state, frames)
        /\ frames[t] \in Seq(Frame)
    BY DEF CInv, Booked, Kinds
  <1>3. state' \in [Node -> {"unborn", "live", "dying", "freed"}] /\ Dead(state, frames[t])
    BY <1>1, <1>2 DEF States
  <1>4. Dead(state', Front(frames[t]))
    BY <1>1, <1>2, <1>3, DeadFront
  <1>5. Booked(strong, edges, held, pending, [frames EXCEPT ![t] = Front(@)])
    BY <1>1, <1>2, FramePopped
  <1>6. Booked(strong', edges', held', pending', frames')
    BY <1>1, <1>5
  <1>7. QED
    BY <1>1, <1>3, <1>4, <1>6, SameDrops

\* Every step keeps counts and edges in step.
LEMMA StepCounts == ASSUME CInv, [Next]_vars PROVE CInv'
  <1>1. ASSUME NEW t \in Thread, Operate(t) PROVE CInv'
    <2>1. CASE TearDown(t)
      <3>1. /\ state' = state /\ strong' = strong /\ edges' = edges /\ held' = held /\ pending' = pending
            /\ frames' = frames
        BY <2>1 DEF TearDown, counts, release
      <3>2. QED
        BY <3>1 DEF CInv
    <2>2. ASSUME NEW n \in Node, Pop(t, n) \/ Clear(t, n) PROVE CInv'
      BY <2>2, PopCounts, ClearCounts
    <2>3. ASSUME NEW n \in Node, NEW u \in Thread, CloneHandle(t, n, u) PROVE CInv'
      BY <2>3, CloneHandleCounts
    <2>4. ASSUME NEW n \in Node, NEW i, Get(t, n, i) \/ Overwrite(t, n, i) PROVE CInv'
      BY <2>4, GetCounts, OverwriteCounts
    <2>5. ASSUME NEW n \in Node, NEW i, Push(t, n, i) PROVE CInv'
      BY <2>5, PushCounts
    <2>6. ASSUME NEW i, DropHandle(t, i) PROVE CInv'
      BY <2>6, DropHandleCounts
    <2>7. CASE Create(t)
      BY <2>7, CreateCounts
    <2>8. QED
      BY <1>1, <2>1, <2>2, <2>3, <2>4, <2>5, <2>6, <2>7 DEF Operate
  <1>2. ASSUME NEW t \in Thread, Releasing(t) PROVE CInv'
    BY <1>2, ReleaseValueCounts, ReleaseUnlistedCounts, ReturnCounts, DrainCounts, DrainEndCounts DEF Releasing
  <1>3. CASE UNCHANGED vars
    <2>1. /\ state' = state /\ strong' = strong /\ edges' = edges /\ held' = held /\ pending' = pending
          /\ frames' = frames
      BY <1>3 DEF vars, counts, release
    <2>2. QED
      BY <2>1 DEF CInv
  <1>4. QED
    BY <1>1, <1>2, <1>3 DEF Next

\* At the start there is no edge, and no node.
LEMMA InitCounts == ASSUME Init PROVE CInv
  <1> DEFINE B == Book(edges, held, pending, frames)
  <1>1. /\ state = [x \in Node |-> "unborn"] /\ strong = [x \in Node |-> 0]
        /\ edges = [x \in Node |-> <<>>] /\ held = [t \in Thread |-> <<>>]
        /\ pending = [t \in Thread |-> <<>>] /\ frames = [t \in Thread |-> <<>>]
    BY DEF Init
  <1>2. Kinds(edges, held, pending, frames) /\ strong \in [Node -> Int]
    BY <1>1 DEF Kinds
  <1>3. \A k \in Shelf : B[k] = <<>>
    <2>1. \A t \in Thread, j \in Nat : Left(frames[t], j) = <<>>
      BY <1>1 DEF Left
    <2>2. ASSUME NEW k \in Shelf PROVE B[k] = <<>>
      <3>1. ASSUME NEW m \in Node, k = <<"elements", m>> PROVE B[k] = <<>>
        BY <1>1, <3>1, BookAt
      <3>2. ASSUME NEW t \in Thread, k = <<"handles", t>> PROVE B[k] = <<>>
        BY <1>1, <3>2, BookAt
      <3>3. ASSUME NEW t \in Thread, k = <<"listed", t>> PROVE B[k] = <<>>
        BY <1>1, <3>3, BookAt
      <3>4. ASSUME NEW t \in Thread, NEW j \in Nat, k = <<"taken", <<t, j>>>> PROVE B[k] = <<>>
        BY <2>1, <3>4, BookAt
      <3>5. QED
        BY <3>1, <3>2, <3>3, <3>4, Shelves
    <2>3. QED
      BY <2>2
  <1> HIDE DEF B
  <1>4. \A x : Places(B, x) = {}
    BY <1>3 DEF Places
  <1>5. Exact(strong, edges, held, pending, frames)
    BY <1>1, <1>4, FS_EmptySet DEF Exact, B
  <1>6. States(strong, state, frames)
    BY <1>1 DEF States, Dead
  <1>7. QED
    BY <1>2, <1>5, <1>6 DEF CInv, Booked

\* At every step of every behaviour, for any number of threads and nodes and
\* any bounds: each node counts exactly the edges that lead to it, is alive as
\* long as there is one, and a thread at rest has nothing left to release.
THEOREM CountsAreExact == Spec => []StrongExact
  <1>1. Init => CInv
    BY InitCounts
  <1>2. CInv /\ [Next]_vars => CInv'
    BY StepCounts
  <1>3. CInv /\ Types /\ Settled => StrongExact
    <2>1. SUFFICES ASSUME CInv, Types, Settled PROVE StrongExact
      OBVIOUS
    <2>2. ASSUME NEW n \in Node
          PROVE  /\ strong[n] \in Nat /\ (state[n] = "live" <=> strong[n] > 0)
                 /\ strong[n] = Cardinality(EdgesTo(n))
      <3>1. /\ IsFiniteSet(Places(Book(edges, held, pending, frames), n))
            /\ strong[n] = Cardinality(Places(Book(edges, held, pending, frames), n))
        BY <2>1 DEF CInv, Booked, Exact
      <3>2. EdgesTo(n) = Places(Book(edges, held, pending, frames), n)
        BY <2>1, EdgesAreOnShelves
      <3>3. strong[n] \in Nat
        BY <3>1, FS_CardinalityType
      <3>4. state[n] = "live" <=> strong[n] > 0
        BY <2>1 DEF CInv, States
      <3>5. QED
        BY <3>1, <3>2, <3>3, <3>4
    <2>3. QED
      BY <2>1, <2>2 DEF StrongExact, TypeOK
  <1>4. IInv => Types
    BY DEF IInv
  <1>5. QED
    BY <1>1, <1>2, <1>3, <1>4, StackInvariant, WorklistIsDrained, PTL DEF Spec

=============================================================================
