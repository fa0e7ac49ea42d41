------------------------- MODULE SourceLinesProofs -------------------------
(***************************************************************************)
(* Proofs about SourceLines, for programs of any rows and any number of    *)
(* bodies.  Four inductive invariants, each over the one before:           *)
(*                                                                         *)
(* SourceInv says how the lines the lexer holds fit together: the lines to *)
(* come are rows of the text in its order, behind the current line; every  *)
(* line is cut at the bound of the body it is read in; a body ends within  *)
(* the one around it, unless that one has no line to come.                 *)
(*                                                                         *)
(* NumberInv: while no here-document has begun, rows and numbers differ by *)
(* the shift of the directives.  OrderInv: what a body has given comes     *)
(* before what it has still to give.  PlaceInv: every byte is in one       *)
(* place.                                                                  *)
(***************************************************************************)
EXTENDS SourceLines, SequenceTheorems, FiniteSetTheorems, NaturalsInduction,
    WellFoundedInduction, TLAPS

-----------------------------------------------------------------------------
(* Extremes of sets of numbers and of offsets.                             *)

\* A set of naturals has a least element.
LEMMA LeastIs ==
    ASSUME NEW T \in SUBSET Nat, T # {}
    PROVE  Min(T) \in T /\ \A y \in T : Min(T) <= y
<1>1. IsWellFoundedOn(OpToRel(<, Nat), Nat)
  BY NatLessThanWellFounded
<1>2. PICK x \in T : \A y \in T : ~(<<y, x>> \in OpToRel(<, Nat))
  BY <1>1, WFMin
<1>3. \A y \in T : ~(y < x)
  BY <1>2 DEF OpToRel
<1>4. \A y \in T : x <= y
  BY <1>3
<1> QED BY <1>4 DEF Min

\* A bounded one has a greatest.
LEMMA GreatestIs ==
    ASSUME NEW T \in SUBSET Nat, T # {}, NEW b \in Nat, \A x \in T : x <= b
    PROVE  Max(T) \in T /\ \A y \in T : y <= Max(T)
<1> DEFINE U == {b - x : x \in T}
<1>1. U \in SUBSET Nat /\ U # {}
  OBVIOUS
<1>2. Min(U) \in U /\ \A y \in U : Min(U) <= y
  BY <1>1, LeastIs
<1>3. PICK m \in T : Min(U) = b - m
  BY <1>2
<1>4. \A y \in T : m >= y
  <2> TAKE y \in T
  <2>1. b - m <= b - y
    BY <1>2, <1>3
  <2> QED BY <2>1
<1> QED BY <1>4 DEF Max

\* The number that is in the set and not below any of it is its greatest.
LEMMA GreatestOf ==
    ASSUME NEW T \in SUBSET Nat, NEW m \in T, \A x \in T : x <= m
    PROVE  Max(T) = m
<1>1. \A y \in T : m >= y
  OBVIOUS
<1> DEFINE x == Max(T)
<1>2. x \in T /\ \A y \in T : x >= y
  BY <1>1 DEF Max
<1> HIDE DEF x
<1>3. x \in Nat /\ m \in Nat /\ x <= m /\ x >= m
  BY <1>2
<1>4. x = m
  BY <1>3
<1> QED BY <1>4 DEF x

\* A set of offsets has a first one.
LEMMA FirstIs ==
    ASSUME NEW S \in SUBSET (Nat \X Nat), S # {}
    PROVE  First(S) \in S /\ \A p \in S : ~Before(p, First(S))
<1> DEFINE R == {o[1] : o \in S}
           r == Min(R)
           D == {o[2] : o \in {p \in S : p[1] = r}}
           d == Min(D)
<1>1. R \in SUBSET Nat /\ R # {}
  OBVIOUS
<1>2. r \in R /\ \A y \in R : r <= y
  BY <1>1, LeastIs
<1>3. D \in SUBSET Nat /\ D # {}
  BY <1>2
<1>4. d \in D /\ \A y \in D : d <= y
  BY <1>3, LeastIs
<1> HIDE DEF r, d
<1>5. PICK o \in S : o[1] = r /\ o[2] = d
  BY <1>4
<1>6. ASSUME NEW p \in S PROVE ~Before(p, o)
  <2>1. p[1] \in Nat /\ p[2] \in Nat /\ r \in Nat /\ d \in Nat /\ r <= p[1]
    BY <1>1, <1>2, <1>3, <1>4
  <2>2. p[1] = r => d <= p[2]
    BY <1>4
  <2> QED BY <1>5, <2>1, <2>2 DEF Before
<1> QED BY <1>6 DEF First

\* One with bounded rows, each with bounded columns, has a last.
LEMMA FinalIs ==
    ASSUME NEW S \in SUBSET (Nat \X Nat), S # {}, NEW a \in Nat, NEW b,
           \A o \in S : o[1] <= a /\ b[o[1]] \in Nat /\ o[2] <= b[o[1]]
    PROVE  Final(S) \in S /\ \A p \in S : ~Before(Final(S), p)
<1> DEFINE R == {o[1] : o \in S}
           r == Max(R)
           D == {o[2] : o \in {p \in S : p[1] = r}}
           d == Max(D)
<1>1. R \in SUBSET Nat /\ R # {} /\ \A x \in R : x <= a
  OBVIOUS
<1>2. r \in R /\ \A y \in R : y <= r
  BY <1>1, GreatestIs
<1>3. D \in SUBSET Nat /\ D # {} /\ b[r] \in Nat /\ \A x \in D : x <= b[r]
  BY <1>2
<1>4. d \in D /\ \A y \in D : y <= d
  BY <1>3, GreatestIs
<1> HIDE DEF r, d
<1>5. PICK o \in S : o[1] = r /\ o[2] = d
  BY <1>4
<1>6. ASSUME NEW p \in S PROVE ~Before(o, p)
  <2>1. p[1] \in Nat /\ p[2] \in Nat /\ r \in Nat /\ d \in Nat /\ p[1] <= r
    BY <1>1, <1>2, <1>3, <1>4
  <2>2. p[1] = r => p[2] <= d
    BY <1>4
  <2> QED BY <1>5, <2>1, <2>2 DEF Before
<1> QED BY <1>6 DEF Final

-----------------------------------------------------------------------------
(* Lines and their views, in a program.                                    *)

Program ==
    /\ text \in Seq([symbols : Seq(Symbol), terminated : BOOLEAN])
    /\ \A r \in DOMAIN text : Terminated(r) \/ r = Len(text)

\* A bound that can be: no bound, or a place in the text.
BoundOK(b) ==
    \/ b = Nothing
    \/ b \in BoundRecord /\ b.row \in DOMAIN text /\ b.col <= Len(Symbols(b.row))

\* The bound b lets row r, and column d of row r, be seen.
Reaches(b, r) == b = Nothing \/ r <= b.row
Shown(b, r, d) == b = Nothing \/ r < b.row \/ (r = b.row /\ d < b.col)

LEMMA NothingIsNone ==
    /\ Nothing \notin LineRecord /\ Nothing \notin BoundRecord
    /\ Nothing \notin Symbol /\ Nothing # "\n"
  BY SourceLinesAssumption

LEMMA RowsAre ==
    ASSUME Program, NEW r \in DOMAIN text
    PROVE  /\ Symbols(r) \in Seq(Symbol) /\ Len(Symbols(r)) \in Nat /\ Terminated(r) \in BOOLEAN
           /\ r \in Nat /\ 1 <= r /\ r <= Len(text) /\ Len(text) \in Nat
<1>1. text \in Seq([symbols : Seq(Symbol), terminated : BOOLEAN])
  BY DEF Program
<1>2. r \in 1 .. Len(text) /\ Len(text) \in Nat
  BY <1>1, LenProperties
<1>3. text[r] \in [symbols : Seq(Symbol), terminated : BOOLEAN]
  BY <1>1, <1>2, ElementOfSeq
<1>4. Symbols(r) \in Seq(Symbol) /\ Terminated(r) \in BOOLEAN
  BY <1>3 DEF Symbols, Terminated
<1> QED BY <1>2, <1>4

\* What set_eof does to a line.
LEMMA SetEofIs ==
    ASSUME Program, NEW l \in LineRecord, l.row \in DOMAIN text, NEW b, BoundOK(b)
    PROVE  LET s == SetEof(l, b) IN
           /\ s \in LineRecord
           /\ s.row = l.row /\ s.number = l.number /\ s.indent = l.indent /\ s.pos = l.pos
           /\ s.len = IF b = Nothing \/ b.row > l.row THEN Len(Symbols(l.row))
                      ELSE IF b.row = l.row THEN b.col ELSE 0
           /\ s.terminated = ((b = Nothing \/ b.row > l.row) /\ Terminated(l.row))
<1>1. Len(Symbols(l.row)) \in Nat /\ Terminated(l.row) \in BOOLEAN /\ l.row \in Nat
  BY RowsAre
<1>2. CASE b = Nothing
  BY <1>1, <1>2 DEF SetEof, LineRecord
<1>3. CASE b # Nothing
  <2>1. b \in BoundRecord /\ b.row \in Nat /\ b.col \in Nat
    BY <1>3 DEF BoundOK, BoundRecord
  <2>2. CASE b.row > l.row
    BY <1>1, <1>3, <2>1, <2>2 DEF SetEof, LineRecord
  <2>3. CASE b.row = l.row
    BY <1>1, <1>3, <2>1, <2>3 DEF SetEof, LineRecord
  <2>4. CASE b.row < l.row
    BY <1>1, <1>3, <2>1, <2>4 DEF SetEof, LineRecord
  <2> QED BY <1>1, <2>1, <2>2, <2>3, <2>4
<1> QED BY <1>2, <1>3

\* Lines with the same fields are the same.
LEMMA LineExtensional ==
    ASSUME NEW l \in LineRecord, NEW m \in LineRecord,
           l.row = m.row, l.number = m.number, l.indent = m.indent, l.pos = m.pos,
           l.len = m.len, l.terminated = m.terminated
    PROVE  l = m
  BY DEF LineRecord

\* A line that is cut at a bound stays the same when it is cut there again,
\* whatever its cursor and its number are set to.
LEMMA CutStays ==
    ASSUME Program, NEW l \in LineRecord, l.row \in DOMAIN text, NEW b, BoundOK(b)
    PROVE  SetEof(SetEof(l, b), b) = SetEof(l, b)
<1> DEFINE s == SetEof(l, b)
<1>1. s \in LineRecord /\ s.row = l.row
  BY SetEofIs
<1>2. BoundOK(b) /\ s.row \in DOMAIN text
  BY <1>1
<1> DEFINE t == SetEof(s, b)
<1>3. t \in LineRecord
  BY <1>1, <1>2, SetEofIs
<1>4. t.row = s.row /\ t.number = s.number /\ t.indent = s.indent /\ t.pos = s.pos
  BY <1>1, <1>2, SetEofIs
<1>5. t.len = s.len /\ t.terminated = s.terminated
  BY <1>1, <1>2, SetEofIs
<1> HIDE DEF s, t
<1>6. t = s
  BY <1>1, <1>3, <1>4, <1>5, LineExtensional
<1> QED BY <1>6 DEF s, t

LEMMA CutMoves ==
    ASSUME Program, NEW l \in LineRecord, l.row \in DOMAIN text, NEW b, BoundOK(b),
           l = SetEof(l, b), NEW m \in LineRecord,
           m.row = l.row, m.len = l.len, m.terminated = l.terminated
    PROVE  m = SetEof(m, b)
<1>1. m.row \in DOMAIN text
  OBVIOUS
<1> DEFINE s == SetEof(l, b)
           t == SetEof(m, b)
<1>2. t \in LineRecord /\ t.row = m.row /\ t.number = m.number /\ t.indent = m.indent /\ t.pos = m.pos
  BY <1>1, SetEofIs
<1>3. t.len = s.len /\ t.terminated = s.terminated
  BY <1>1, SetEofIs
<1>4. s = l
  OBVIOUS
<1> HIDE DEF s, t
<1>5. m = t
  BY <1>2, <1>3, <1>4, LineExtensional
<1> QED BY <1>5 DEF t

\* What a line has ahead under a bound, byte by byte.
LEMMA AheadIs ==
    ASSUME Program, NEW l \in LineRecord, l.row \in DOMAIN text, NEW b, BoundOK(b), l = SetEof(l, b)
    PROVE  Ahead(l) = {<<l.row, d>> : d \in {e \in Columns(l.row) : l.pos <= e /\ Shown(b, l.row, e)}}
<1> DEFINE n == Len(Symbols(l.row))
           A == {d \in l.pos .. l.len : d < l.len \/ l.terminated}
           B == {e \in Columns(l.row) : l.pos <= e /\ Shown(b, l.row, e)}
<1>1. n \in Nat /\ Terminated(l.row) \in BOOLEAN /\ l.row \in Nat /\ l.pos \in Nat /\ l.len \in Nat
  BY RowsAre DEF LineRecord
<1>2. /\ l.len = IF b = Nothing \/ b.row > l.row THEN n ELSE IF b.row = l.row THEN b.col ELSE 0
      /\ l.terminated = ((b = Nothing \/ b.row > l.row) /\ Terminated(l.row))
  BY SetEofIs
<1>3. Columns(l.row) = {c \in 0 .. n : c < n \/ Terminated(l.row)}
  BY DEF Columns
<1>4. b # Nothing => b.row \in Nat /\ b.col \in Nat /\ (b.row = l.row => b.col <= n)
  BY DEF BoundOK, BoundRecord
<1> HIDE DEF n
<1>5. \A d : d \in A <=> d \in B
  <2>1. CASE b = Nothing \/ b.row > l.row
    BY <1>1, <1>2, <1>3, <1>4, <2>1 DEF Shown
  <2>2. CASE b # Nothing /\ b.row = l.row
    <3>1. l.len = b.col
      BY <1>1, <1>2, <1>4, <2>2
    <3>2. ~(b = Nothing \/ b.row > l.row)
      BY <1>1, <1>4, <2>2
    <3>3. ~l.terminated
      BY <1>2, <3>2, Zenon
    <3> QED BY <1>1, <1>3, <1>4, <2>2, <3>1, <3>3 DEF Shown
  <2>3. CASE b # Nothing /\ b.row < l.row
    <3>1. l.len = 0
      BY <1>1, <1>2, <1>4, <2>3
    <3>2. ~(b = Nothing \/ b.row > l.row)
      BY <1>1, <1>4, <2>3
    <3>3. ~l.terminated
      BY <1>2, <3>2, Zenon
    <3> QED BY <1>1, <1>3, <1>4, <2>3, <3>1, <3>3 DEF Shown
  <2> QED BY <1>1, <1>4, <2>1, <2>2, <2>3
<1>6. A = B
  BY <1>5
<1> QED BY <1>6 DEF Ahead

-----------------------------------------------------------------------------
(* The lines to come, and the open bodies.                                 *)

Upcoming == [row : Nat, indent : Nat]
Frame == [line : LineRecord, bound : BoundRecord]

\* Every row of the stream is after row r.
Past(r, c) == \A i \in DOMAIN c : r < c[i].row

\* The lines to come are rows of the text in its order.
Stream(c) ==
    /\ c \in Seq(Upcoming)
    /\ \A i \in DOMAIN c : c[i].row \in DOMAIN text /\ c[i].indent <= Len(Symbols(c[i].row))
    /\ \A i, j \in DOMAIN c : i < j => c[i].row < c[j].row

\* A line is in the text, under the bound b.
Held(l, b) == l \in LineRecord /\ l.row \in DOMAIN text /\ l = SetEof(l, b) /\ Reaches(b, l.row)

\* The bound under which body i was begun.
Outer(st, i) == IF i = 1 THEN Nothing ELSE st[i - 1].bound

\* A body ends in the text, at or after the line that resumes behind it.  Its
\* end is within the body around it, unless that one has no line to come.
Body(st, i, c) ==
    /\ BoundOK(st[i].bound)
    /\ Held(st[i].line, Outer(st, i)) /\ st[i].line.row <= st[i].bound.row
    /\ \A x \in DOMAIN c : c[x].row = st[i].bound.row => c[x].indent <= st[i].bound.col
    /\ \A j \in 1 .. (i - 1) : st[i].bound.row <= st[j].bound.row \/ Past(st[j].bound.row, c)

Bodies(st, c) == st \in Seq(Frame) /\ \A i \in DOMAIN st : Body(st, i, c)

\* The lines the lexer holds and the lines to come fit together.
Fits(l, c, st) ==
    /\ Stream(c) /\ Bodies(st, c)
    /\ l # Nothing => Held(l, Bound(st)) /\ Past(l.row, c)

\* The variables the lines to come are made of.
Sourced == Program /\ unread \in 1 .. (Len(text) + 1) /\ queue \in Seq(Upcoming)

LEMMA ComingIs ==
    ASSUME Sourced
    PROVE  /\ Coming \in Seq(Upcoming) /\ Len(Coming) = Len(queue) + (Len(text) + 1 - unread)
           /\ \A i \in 1 .. Len(queue) : Coming[i] = queue[i]
           /\ \A i \in 1 .. (Len(text) + 1 - unread) :
                Coming[Len(queue) + i] = [row |-> unread + i - 1, indent |-> 0]
<1> DEFINE m == Len(text) + 1 - unread
           rest == [i \in 1 .. m |-> [row |-> unread + i - 1, indent |-> 0]]
<1>1. Len(text) \in Nat /\ unread \in Nat /\ m \in Nat /\ queue \in Seq(Upcoming) /\ Len(queue) \in Nat
  BY LenProperties DEF Sourced, Program
<1>2. \A i \in 1 .. m : [row |-> unread + i - 1, indent |-> 0] \in Upcoming
  BY <1>1 DEF Upcoming
<1>a. rest \in [1 .. m -> Upcoming]
  BY <1>2, Zenon
<1> HIDE DEF m, rest
<1>3. rest \in Seq(Upcoming) /\ Len(rest) = m
  BY <1>1, <1>a
<1>4. Coming = queue \o rest
  BY DEF Coming, m, rest
<1>5. Coming \in Seq(Upcoming) /\ Len(Coming) = Len(queue) + m
  BY <1>1, <1>3, <1>4, ConcatProperties
<1>6. \A i \in 1 .. Len(queue) : Coming[i] = queue[i]
  BY <1>1, <1>3, <1>4, ConcatProperties
<1>7. ASSUME NEW i \in 1 .. m
      PROVE  Coming[Len(queue) + i] = [row |-> unread + i - 1, indent |-> 0]
  <2>1. Len(queue) + i \in 1 .. (Len(queue) + m) /\ Len(queue) + i > Len(queue)
    BY <1>1
  <2>2. Coming[Len(queue) + i] = rest[(Len(queue) + i) - Len(queue)]
    BY <1>1, <1>3, <1>4, <2>1, ConcatProperties
  <2>3. (Len(queue) + i) - Len(queue) = i
    BY <1>1
  <2> QED BY <2>2, <2>3 DEF rest
<1> QED BY <1>5, <1>6, <1>7 DEF m

Rest(c, k) == SubSeq(c, k + 1, Len(c))

LEMMA RestIs ==
    ASSUME NEW S, NEW c \in Seq(S), NEW k \in 0 .. Len(c)
    PROVE  /\ Rest(c, k) \in Seq(S) /\ Len(Rest(c, k)) = Len(c) - k
           /\ \A i \in 1 .. (Len(c) - k) : Rest(c, k)[i] = c[k + i]
<1>1. Len(c) \in Nat /\ k \in Nat
  BY LenProperties
<1>2. \A i \in (k + 1) .. Len(c) : c[i] \in S
  BY <1>1, ElementOfSeq
<1>3. /\ Rest(c, k) \in Seq(S)
      /\ Len(Rest(c, k)) = IF k + 1 <= Len(c) THEN Len(c) - (k + 1) + 1 ELSE 0
      /\ \A i \in 1 .. (Len(c) - (k + 1) + 1) : Rest(c, k)[i] = c[k + 1 + i - 1]
  BY <1>1, <1>2, SubSeqProperties DEF Rest
<1>4. ASSUME NEW i \in 1 .. (Len(c) - k) PROVE Rest(c, k)[i] = c[k + i]
  <2>1. i \in 1 .. (Len(c) - (k + 1) + 1) /\ k + 1 + i - 1 = k + i
    BY <1>1
  <2> QED BY <1>3, <2>1
<1>5. Len(Rest(c, k)) = Len(c) - k
  BY <1>1, <1>3
<1> QED BY <1>3, <1>4, <1>5

\* What taking k lines and putting qs back leaves to come.
LEMMA TakeIs ==
    ASSUME Sourced, NEW k \in 0 .. Len(Coming), NEW qs \in Seq(Upcoming), Take(k, qs), text' = text
    PROVE  /\ unread' \in 1 .. (Len(text) + 1) /\ queue' \in Seq(Upcoming)
           /\ Coming' = qs \o Rest(Coming, k)
<1> DEFINE n == Len(queue)
           m == Len(text) + 1 - unread
           j == IF k > n THEN k - n ELSE 0
           q == Rest(queue, k)
           r == Rest(Coming, k)
           rest == [i \in 1 .. (m - j) |-> [row |-> unread' + i - 1, indent |-> 0]]
<1>1. /\ Len(text) \in Nat /\ unread \in Nat /\ m \in Nat /\ queue \in Seq(Upcoming) /\ n \in Nat
      /\ unread \in 1 .. (Len(text) + 1)
  BY LenProperties DEF Sourced, Program
<1>2. /\ Coming \in Seq(Upcoming) /\ Len(Coming) = n + m
      /\ \A i \in 1 .. n : Coming[i] = queue[i]
      /\ \A i \in 1 .. m : Coming[n + i] = [row |-> unread + i - 1, indent |-> 0]
  BY ComingIs
<1>3. k \in Nat /\ k <= n + m
  BY <1>1, <1>2
<1>4. j \in Nat /\ m - j \in Nat /\ (k > n => j = k - n) /\ (k <= n => j = 0)
  BY <1>1, <1>3
<1>5. queue' = qs \o q /\ unread' = unread + j
  BY DEF Take, Rest
<1>6. unread' \in 1 .. (Len(text) + 1) /\ Len(text) + 1 - unread' = m - j
  BY <1>1, <1>3, <1>4, <1>5
<1>7. Coming' = (qs \o q) \o rest
  BY <1>5, <1>6 DEF Coming
<1>8. \A i \in 1 .. (m - j) : rest[i] = [row |-> unread' + i - 1, indent |-> 0]
  OBVIOUS
<1>9. /\ q \in Seq(Upcoming) /\ Len(q) \in Nat
      /\ Len(q) = (IF k > n THEN 0 ELSE n - k)
      /\ \A i \in 1 .. (n - k) : q[i] = queue[k + i]
  <2>1. CASE k <= n
    BY <1>1, <1>3, <2>1, RestIs
  <2>2. CASE k > n
    <3>1. q = <<>>
      BY <1>1, <1>3, <2>2, SubSeqProperties, EmptySeq DEF Rest
    <3> QED BY <1>1, <1>3, <2>2, <3>1
  <2> QED BY <1>1, <1>3, <2>1, <2>2
<1>10. rest = [i \in 1 .. (m - j) |-> [row |-> unread' + i - 1, indent |-> 0]]
  OBVIOUS
<1> HIDE DEF n, m, j, q, rest
<1>11. rest \in Seq(Upcoming) /\ Len(rest) = m - j
  <2>1. ASSUME NEW i \in 1 .. (m - j) PROVE [row |-> unread' + i - 1, indent |-> 0] \in Upcoming
    <3>1. i \in Nat /\ 1 <= i /\ i - 1 \in Nat /\ unread' \in Nat
      BY <1>1, <1>4, <1>6
    <3>2. \A a, b \in Nat : 1 <= a => b + a - 1 \in Nat
      OBVIOUS
    <3>3. unread' + i - 1 \in Nat
      BY <3>1, <3>2
    <3> QED BY <3>3 DEF Upcoming
  <2>2. rest \in [1 .. (m - j) -> Upcoming]
    BY <1>10, <2>1, Zenon
  <2> QED BY <1>4, <2>2
<1>12. r \in Seq(Upcoming) /\ Len(r) = Len(Coming) - k /\ \A i \in 1 .. (Len(Coming) - k) : r[i] = Coming[k + i]
  BY <1>2, RestIs
<1>13. r \in Seq(Upcoming) /\ Len(r) = n + m - k /\ \A i \in 1 .. (n + m - k) : r[i] = Coming[k + i]
  <2>1. Len(Coming) - k = n + m - k
    BY <1>1, <1>2, <1>3
  <2> QED BY <1>12, <2>1
<1> HIDE DEF r
<1>14. queue' \in Seq(Upcoming)
  BY <1>5, <1>9, ConcatProperties
<1>15. (qs \o q) \o rest = qs \o (q \o rest)
  BY <1>9, <1>11, ConcatAssociative
<1>16. /\ q \o rest \in Seq(Upcoming) /\ Len(q \o rest) = Len(q) + Len(rest)
       /\ \A i \in 1 .. (Len(q) + Len(rest)) :
            (q \o rest)[i] = IF i <= Len(q) THEN q[i] ELSE rest[i - Len(q)]
  BY <1>9, <1>11, ConcatProperties
<1>17. Len(q) + Len(rest) = n + m - k
  BY <1>1, <1>3, <1>4, <1>9, <1>11
<1>18. ASSUME NEW i \in 1 .. (n + m - k) PROVE (q \o rest)[i] = r[i]
  <2>1. r[i] = Coming[k + i] /\ i \in 1 .. (Len(q) + Len(rest)) /\ i \in Nat /\ 1 <= i /\ i <= n + m - k
    BY <1>1, <1>3, <1>13, <1>17
  <2>2. CASE i <= Len(q)
    <3>1. k <= n
      BY <1>1, <1>3, <1>9, <2>1, <2>2
    <3>2. i \in 1 .. (n - k) /\ k + i \in 1 .. n
      BY <1>1, <1>3, <1>9, <2>1, <2>2, <3>1
    <3>3. (q \o rest)[i] = q[i]
      BY <1>16, <2>1, <2>2
    <3> QED BY <1>2, <1>9, <2>1, <3>2, <3>3
  <2>3. CASE ~(i <= Len(q))
    <3> DEFINE x == i - Len(q)
               y == k + i - n
    <3>1. x \in 1 .. (m - j) /\ x \in Int /\ y \in Int
      <4>1. CASE k > n
        <5>1. Len(q) = 0 /\ j = k - n
          BY <1>4, <1>9, <4>1, SMT
        <5> QED BY <1>1, <1>3, <2>1, <5>1
      <4>2. CASE k <= n
        <5>1. Len(q) = n - k /\ j = 0
          BY <1>1, <1>3, <1>4, <1>9, <4>2
        <5> QED BY <1>1, <1>3, <2>1, <2>3, <4>2, <5>1
      <4> QED BY <1>1, <1>3, <4>1, <4>2
    <3>2. y \in 1 .. m /\ n + y = k + i
      <4>1. 1 <= k + i - n
        <5>1. CASE k > n
          BY <1>1, <1>3, <2>1, <5>1
        <5>2. CASE k <= n
          <6>1. Len(q) = n - k
            BY <1>1, <1>3, <1>9, <5>2
          <6> QED BY <1>1, <1>3, <2>1, <2>3, <6>1
        <5> QED BY <1>1, <1>3, <5>1, <5>2
      <4> QED BY <1>1, <1>3, <2>1, <4>1
    <3>3. j + x = y
      <4>1. CASE k > n
        <5>1. Len(q) = 0 /\ j = k - n
          BY <1>4, <1>9, <4>1, SMT
        <5> QED BY <1>1, <1>3, <2>1, <5>1
      <4>2. CASE k <= n
        <5>1. Len(q) = n - k /\ j = 0
          BY <1>1, <1>3, <1>4, <1>9, <4>2
        <5> QED BY <1>1, <1>3, <2>1, <5>1
      <4> QED BY <1>1, <1>3, <4>1, <4>2
    <3>4. (q \o rest)[i] = rest[x]
      BY <1>16, <2>1, <2>3
    <3> HIDE DEF x, y
    <3>5. unread' + x - 1 = unread + y - 1
      BY <1>1, <1>4, <1>5, <3>1, <3>3
    <3>6. Coming[n + y] = [row |-> unread + y - 1, indent |-> 0]
      BY <1>2, <3>2
    <3>7. rest[x] = [row |-> unread' + x - 1, indent |-> 0]
      BY <1>8, <3>1 DEF rest
    <3> QED BY <2>1, <3>2, <3>4, <3>5, <3>6, <3>7
  <2> QED BY <2>2, <2>3
<1>19. q \o rest = r
  BY <1>13, <1>16, <1>17, <1>18, SeqEqual
<1> QED BY <1>6, <1>7, <1>14, <1>15, <1>19 DEF r

-----------------------------------------------------------------------------
(* What next_line delivers, and under which bound.                         *)

LEMMA BoundsAreOK ==
    ASSUME Program, NEW st, NEW c, Bodies(st, c)
    PROVE  /\ BoundOK(Bound(st))
           /\ \A i \in DOMAIN st : BoundOK(st[i].bound) /\ BoundOK(Outer(st, i)) /\ st[i].bound \in BoundRecord
           /\ Len(st) \in Nat /\ DOMAIN st = 1 .. Len(st)
           /\ st # <<>> => Len(st) \in DOMAIN st /\ Bound(st) = st[Len(st)].bound
<1>1. st \in Seq(Frame) /\ Len(st) \in Nat /\ DOMAIN st = 1 .. Len(st)
  BY LenProperties DEF Bodies
<1>2. ASSUME NEW i \in DOMAIN st PROVE BoundOK(st[i].bound) /\ st[i].bound \in BoundRecord
  <2>1. st[i] \in Frame
    BY <1>1, ElementOfSeq
  <2> QED BY <2>1 DEF Bodies, Body, Frame
<1>3. \A i \in DOMAIN st : BoundOK(Outer(st, i))
  <2> TAKE i \in DOMAIN st
  <2>1. CASE i = 1
    BY <2>1 DEF Outer, BoundOK
  <2>2. CASE i # 1
    <3>1. i - 1 \in DOMAIN st
      BY <1>1, <2>2
    <3> QED BY <1>2, <2>2, <3>1 DEF Outer
  <2> QED BY <2>1, <2>2
<1>4. st # <<>> => Len(st) \in DOMAIN st /\ Bound(st) = st[Len(st)].bound
  BY <1>1, EmptySeq DEF Bound, Last
<1>5. BoundOK(Bound(st))
  <2>1. CASE st = <<>>
    BY <2>1 DEF Bound, BoundOK
  <2>2. CASE st # <<>>
    BY <1>2, <1>4, <2>2
  <2> QED BY <2>1, <2>2
<1> QED BY <1>1, <1>2, <1>3, <1>4, <1>5

\* Facts about the positions of a stream.
LEMMA StreamIs ==
    ASSUME Program, NEW c, Stream(c)
    PROVE  /\ c \in Seq(Upcoming) /\ Len(c) \in Nat /\ DOMAIN c = 1 .. Len(c)
           /\ \A i \in DOMAIN c : /\ c[i] \in Upcoming /\ c[i].row \in DOMAIN text
                                  /\ c[i].row \in Nat /\ c[i].indent \in Nat
                                  /\ c[i].indent <= Len(Symbols(c[i].row))
<1>1. c \in Seq(Upcoming) /\ Len(c) \in Nat /\ DOMAIN c = 1 .. Len(c)
  BY LenProperties DEF Stream
<1>2. \A i \in DOMAIN c : c[i] \in Upcoming
  BY <1>1, ElementOfSeq
<1> QED BY <1>1, <1>2 DEF Stream, Upcoming

LEMMA ReachIs ==
    ASSUME Program, Stream(Coming), NEW b, BoundOK(b)
    PROVE  /\ Reach(b) \in 0 .. Len(Coming)
           /\ \A i \in DOMAIN Coming : i <= Reach(b) <=> Reaches(b, Coming[i].row)
<1> DEFINE n == Len(Coming)
           T == {k \in 0 .. n : \A i \in 1 .. k : b = Nothing \/ Coming[i].row <= b.row}
           m == Max(T)
<1>1. n \in Nat /\ DOMAIN Coming = 1 .. n /\ \A i \in DOMAIN Coming : Coming[i].row \in Nat
  BY StreamIs
<1>2. \A i, j \in DOMAIN Coming : i < j => Coming[i].row < Coming[j].row
  BY DEF Stream
<1>3. b # Nothing => b.row \in Nat
  BY DEF BoundOK, BoundRecord
<1>4. Reach(b) = m
  BY DEF Reach
<1> HIDE DEF n
<1>5. T \in SUBSET Nat /\ 0 \in T /\ \A x \in T : x <= n
  BY <1>1
<1>6. m \in T /\ \A y \in T : y <= m
  BY <1>1, <1>5, GreatestIs
<1> HIDE DEF m
<1>7. m \in 0 .. n /\ \A i \in 1 .. m : b = Nothing \/ Coming[i].row <= b.row
  BY <1>6
<1>8. ASSUME NEW i \in DOMAIN Coming, m < i, Reaches(b, Coming[i].row) PROVE FALSE
  <2>1. \A j \in 1 .. i : b = Nothing \/ Coming[j].row <= b.row
    <3> TAKE j \in 1 .. i
    <3>1. j \in DOMAIN Coming /\ (j < i \/ j = i)
      BY <1>1
    <3>2. Coming[j].row <= Coming[i].row /\ Coming[j].row \in Nat /\ Coming[i].row \in Nat
      BY <1>1, <1>2, <3>1
    <3> QED BY <1>3, <1>8, <3>2 DEF Reaches
  <2>2. i \in T
    BY <1>1, <2>1
  <2> QED BY <1>1, <1>6, <1>7, <1>8, <2>2
<1>9. ASSUME NEW i \in DOMAIN Coming PROVE i <= m <=> Reaches(b, Coming[i].row)
  <2>1. CASE i <= m
    BY <1>1, <1>7, <2>1 DEF Reaches
  <2>2. CASE m < i
    BY <1>1, <1>7, <1>8, <2>2
  <2> QED BY <1>1, <1>7, <2>1, <2>2
<1> QED BY <1>4, <1>7, <1>9 DEF n

LEMMA LineAtIs ==
    ASSUME Program, Stream(Coming), number \in Nat, NEW b, BoundOK(b),
           NEW i \in DOMAIN Coming, Reaches(b, Coming[i].row)
    PROVE  LET l == LineAt(i, b) IN
           /\ Held(l, b)
           /\ l.row = Coming[i].row /\ l.number = number + i - 1
           /\ l.indent = Coming[i].indent /\ l.pos = Coming[i].indent
<1> DEFINE r == [row |-> Coming[i].row, number |-> number + i - 1, indent |-> Coming[i].indent,
                 pos |-> Coming[i].indent, len |-> 0, terminated |-> FALSE]
           l == SetEof(r, b)
<1>1. /\ Coming[i].row \in DOMAIN text /\ Coming[i].row \in Nat /\ Coming[i].indent \in Nat
      /\ Len(Coming) \in Nat /\ DOMAIN Coming = 1 .. Len(Coming)
  BY StreamIs
<1>2. number + i - 1 \in Nat
  <2>1. \A x, y \in Nat : 1 <= y => x + y - 1 \in Nat
    OBVIOUS
  <2> QED BY <1>1, <2>1
<1>3. r \in LineRecord
  BY <1>1, <1>2 DEF LineRecord
<1>4. /\ r.row = Coming[i].row /\ r.number = number + i - 1 /\ r.indent = Coming[i].indent
      /\ r.pos = Coming[i].indent
  OBVIOUS
<1> HIDE DEF r
<1>5. l \in LineRecord /\ l.row = r.row /\ l.number = r.number /\ l.indent = r.indent /\ l.pos = r.pos
  BY <1>1, <1>3, <1>4, SetEofIs
<1>6. l = SetEof(l, b)
  BY <1>1, <1>3, <1>4, CutStays
<1>7. Held(l, b)
  BY <1>1, <1>4, <1>5, <1>6 DEF Held
<1>8. LineAt(i, b) = l
  BY DEF LineAt, r
<1> HIDE DEF l
<1> QED BY <1>4, <1>5, <1>7, <1>8

\* The bound under which a row is read.
ReaderIn(st, r) ==
    LET over == {i \in DOMAIN st : st[i].bound.row >= r}
    IN  IF over = {} THEN Nothing ELSE st[Max(over)].bound

LEMMA ReaderTop ==
    ASSUME Program, NEW st, NEW c, Bodies(st, c), NEW r \in Nat, Reaches(Bound(st), r)
    PROVE  ReaderIn(st, r) = Bound(st)
<1> DEFINE over == {i \in DOMAIN st : st[i].bound.row >= r}
<1>1. /\ Len(st) \in Nat /\ DOMAIN st = 1 .. Len(st)
      /\ st # <<>> => Len(st) \in DOMAIN st /\ Bound(st) = st[Len(st)].bound
      /\ \A i \in DOMAIN st : st[i].bound \in BoundRecord
  BY BoundsAreOK
<1>2. CASE st = <<>>
  <2>1. over = {}
    BY <1>2
  <2> QED BY <1>2, <2>1 DEF ReaderIn, Bound
<1>3. CASE st # <<>>
  <2>1. Bound(st) # Nothing /\ r <= Bound(st).row
    BY <1>1, <1>3, NothingIsNone DEF Reaches
  <2>2. Bound(st).row \in Nat
    BY <1>1, <1>3 DEF BoundRecord
  <2>3. Len(st) \in over
    BY <1>1, <1>3, <2>1, <2>2
  <2>4. \A x \in over : x <= Len(st)
    BY <1>1
  <2>5. Max(over) = Len(st) /\ over # {}
    BY <1>1, <2>3, <2>4, GreatestOf
  <2> QED BY <1>1, <1>3, <2>5 DEF ReaderIn
<1> QED BY <1>2, <1>3

\* In general: the innermost body that reaches the row.
LEMMA ReaderAt ==
    ASSUME Program, NEW st, NEW c, Bodies(st, c), NEW r \in Nat, NEW h \in 0 .. Len(st),
           h # 0 => r <= st[h].bound.row,
           \A i \in DOMAIN st : h < i => st[i].bound.row < r
    PROVE  ReaderIn(st, r) = IF h = 0 THEN Nothing ELSE st[h].bound
<1> DEFINE over == {i \in DOMAIN st : st[i].bound.row >= r}
<1>1. /\ Len(st) \in Nat /\ DOMAIN st = 1 .. Len(st)
      /\ \A i \in DOMAIN st : st[i].bound \in BoundRecord
  BY BoundsAreOK
<1>2. \A i \in DOMAIN st : st[i].bound.row \in Nat
  BY <1>1 DEF BoundRecord
<1>3. CASE h = 0
  <2>1. over = {}
    BY <1>1, <1>2, <1>3
  <2> QED BY <1>3, <2>1 DEF ReaderIn
<1>4. CASE h # 0
  <2>1. h \in over
    BY <1>1, <1>2, <1>4
  <2>2. \A x \in over : x <= h
    BY <1>1, <1>2
  <2>3. over \in SUBSET Nat /\ over # {}
    BY <1>1, <2>1
  <2>4. Max(over) = h
    BY <2>1, <2>2, <2>3, GreatestOf
  <2> QED BY <1>4, <2>3, <2>4 DEF ReaderIn
<1> QED BY <1>3, <1>4

\* Beginning a body changes the reader of the rows it reaches, and no other.
LEMMA ReaderPushed ==
    ASSUME Program, NEW st, NEW c, Bodies(st, c), NEW f \in Frame, NEW r \in Nat
    PROVE  ReaderIn(Append(st, f), r) = IF r <= f.bound.row THEN f.bound ELSE ReaderIn(st, r)
<1> DEFINE n == Len(st)
           s == Append(st, f)
           over == {i \in DOMAIN st : st[i].bound.row >= r}
           more == {i \in DOMAIN s : s[i].bound.row >= r}
<1>1. /\ n \in Nat /\ DOMAIN st = 1 .. n /\ st \in Seq(Frame)
      /\ \A i \in DOMAIN st : st[i].bound \in BoundRecord
  BY BoundsAreOK DEF Bodies
<1>2. /\ s \in Seq(Frame) /\ Len(s) = n + 1 /\ DOMAIN s = 1 .. (n + 1)
      /\ \A i \in 1 .. n : s[i] = st[i]
      /\ s[n + 1] = f
  BY <1>1, AppendProperties
<1>3. f.bound.row \in Nat
  BY DEF Frame, BoundRecord
<1> HIDE DEF s, n
<1>4. CASE r <= f.bound.row
  <2>1. n + 1 \in more /\ more \in SUBSET Nat
    BY <1>1, <1>2, <1>3, <1>4
  <2>2. \A x \in more : x <= n + 1
    BY <1>1, <1>2
  <2>3. Max(more) = n + 1 /\ more # {}
    BY <2>1, <2>2, GreatestOf
  <2>4. ReaderIn(s, r) = s[n + 1].bound
    BY <2>3 DEF ReaderIn
  <2> QED BY <1>2, <1>4, <2>4 DEF s
<1>5. CASE ~(r <= f.bound.row)
  <2>1. ASSUME NEW i PROVE i \in more <=> i \in over
    <3>1. CASE i \in 1 .. n
      BY <1>1, <1>2, <3>1
    <3>2. CASE i = n + 1
      BY <1>1, <1>2, <1>3, <1>5, <3>2
    <3> QED BY <1>1, <1>2, <3>1, <3>2
  <2>2. more = over
    BY <2>1
  <2>3. CASE over = {}
    BY <1>5, <2>2, <2>3 DEF ReaderIn, s
  <2>4. CASE over # {}
    <3> DEFINE m == Max(over)
    <3>1. over \in SUBSET Nat /\ \A x \in over : x <= n
      BY <1>1
    <3>2. m \in over
      BY <1>1, <2>4, <3>1, GreatestIs
    <3>3. s[m] = st[m]
      BY <1>1, <1>2, <3>2
    <3>4. ReaderIn(s, r) = s[m].bound /\ ReaderIn(st, r) = st[m].bound
      BY <2>2, <2>4 DEF ReaderIn
    <3> QED BY <1>5, <3>3, <3>4 DEF s
  <2> QED BY <2>3, <2>4
<1> QED BY <1>4, <1>5

LEMMA FrontIs ==
    ASSUME NEW S, NEW c \in Seq(S), c # <<>>
    PROVE  /\ Front(c) \in Seq(S) /\ Len(Front(c)) = Len(c) - 1
           /\ DOMAIN Front(c) = 1 .. (Len(c) - 1)
           /\ \A i \in 1 .. (Len(c) - 1) : Front(c)[i] = c[i]
<1> DEFINE k == Len(c) - 1
           s == Front(c)
<1>1. k \in Nat /\ k + 1 = Len(c)
  BY EmptySeq, LenProperties
<1>2. \A i \in 1 .. k : c[i] \in S
  BY <1>1, ElementOfSeq
<1>3. s = SubSeq(c, 1, k)
  BY DEF Front
<1> HIDE DEF s, k
<1>4. /\ s \in Seq(S) /\ Len(s) = IF 1 <= k THEN k - 1 + 1 ELSE 0
      /\ \A i \in 1 .. (k - 1 + 1) : s[i] = c[1 + i - 1]
  BY <1>1, <1>2, <1>3, SubSeqProperties
<1>5. Len(s) = k /\ k - 1 + 1 = k
  BY <1>1, <1>4
<1>6. DOMAIN s = 1 .. k
  BY <1>4, <1>5, LenProperties
<1>7. ASSUME NEW i \in 1 .. k PROVE s[i] = c[i]
  <2>1. 1 + i - 1 = i
    BY <1>1
  <2> QED BY <1>4, <1>5, <2>1
<1> QED BY <1>4, <1>5, <1>6, <1>7 DEF k, s

\* Leaving one does not change the reader of a row it does not reach.
LEMMA ReaderPopped ==
    ASSUME Program, NEW st, NEW c, Bodies(st, c), st # <<>>, NEW r \in Nat, ~Reaches(Bound(st), r)
    PROVE  ReaderIn(Front(st), r) = ReaderIn(st, r)
<1> DEFINE n == Len(st)
           s == Front(st)
           over == {i \in DOMAIN st : st[i].bound.row >= r}
           less == {i \in DOMAIN s : s[i].bound.row >= r}
<1>1. /\ n \in Nat /\ n # 0 /\ DOMAIN st = 1 .. n /\ st \in Seq(Frame)
      /\ Bound(st) = st[n].bound
      /\ \A i \in DOMAIN st : st[i].bound \in BoundRecord
  BY BoundsAreOK, EmptySeq DEF Bodies
<1>3. /\ s \in Seq(Frame) /\ Len(s) = n - 1 /\ DOMAIN s = 1 .. (n - 1)
      /\ \A i \in 1 .. (n - 1) : s[i] = st[i]
  BY <1>1, FrontIs
<1>4. ~(r <= st[n].bound.row) /\ \A i \in DOMAIN st : st[i].bound.row \in Nat
  BY <1>1 DEF Reaches, BoundRecord
<1> HIDE DEF s, n
<1>5. ASSUME NEW i PROVE i \in less <=> i \in over
  <2>1. CASE i \in 1 .. (n - 1)
    BY <1>1, <1>3, <2>1
  <2>2. CASE i = n
    BY <1>1, <1>3, <1>4, <2>2
  <2> QED BY <1>1, <1>3, <2>1, <2>2
<1>6. less = over
  BY <1>5
<1>7. CASE over = {}
  BY <1>6, <1>7 DEF ReaderIn, s
<1>8. CASE over # {}
  <2> DEFINE m == Max(over)
  <2>1. over \in SUBSET Nat /\ \A x \in over : x <= n
    BY <1>1
  <2>2. m \in over
    BY <1>1, <1>8, <2>1, GreatestIs
  <2>3. s[m] = st[m]
    BY <1>1, <1>3, <1>6, <2>2
  <2>4. ReaderIn(s, r) = s[m].bound /\ ReaderIn(st, r) = st[m].bound
    BY <1>6, <1>8 DEF ReaderIn
  <2> QED BY <2>3, <2>4 DEF s
<1> QED BY <1>7, <1>8

-----------------------------------------------------------------------------
(* The lines fit together, whatever is taken, put back, begun and ended.   *)

LEMMA PastBefore ==
    ASSUME Program, NEW c, Stream(c), NEW r \in Nat, NEW s \in Nat, r <= s, Past(s, c)
    PROVE  Past(r, c)
  BY StreamIs DEF Past

\* The rows of d are rows of c.
Within(d, c) == \A x \in DOMAIN d : \E y \in DOMAIN c : d[x].row = c[y].row

LEMMA PastWithin ==
    ASSUME NEW c, NEW d, Within(d, c), NEW r, Past(r, c)
    PROVE  Past(r, d)
  BY DEF Past, Within

LEMMA BodiesWithin ==
    ASSUME NEW c, NEW d, NEW st, Bodies(st, c), Within(d, c),
           \A x \in DOMAIN d, i \in DOMAIN st : d[x].row = st[i].bound.row => d[x].indent <= st[i].bound.col
    PROVE  Bodies(st, d)
<1> SUFFICES ASSUME NEW i \in DOMAIN st PROVE Body(st, i, d)
  BY DEF Bodies
<1>1. Body(st, i, c)
  BY DEF Bodies
<1>2. \A j \in 1 .. (i - 1) : Past(st[j].bound.row, c) => Past(st[j].bound.row, d)
  BY PastWithin
<1> QED BY <1>1, <1>2 DEF Body

LEMMA RestFits ==
    ASSUME Program, NEW c, Stream(c), NEW st, Bodies(st, c), NEW k \in 0 .. Len(c)
    PROVE  /\ Stream(Rest(c, k)) /\ Bodies(st, Rest(c, k)) /\ Within(Rest(c, k), c)
           /\ \A i \in 1 .. k : Past(c[i].row, Rest(c, k))
<1> DEFINE d == Rest(c, k)
<1>1. c \in Seq(Upcoming) /\ Len(c) \in Nat /\ DOMAIN c = 1 .. Len(c)
  BY StreamIs
<1>2. d \in Seq(Upcoming) /\ Len(d) = Len(c) - k /\ \A i \in 1 .. (Len(c) - k) : d[i] = c[k + i]
  BY <1>1, RestIs
<1> HIDE DEF d
<1>3. DOMAIN d = 1 .. (Len(c) - k)
  BY <1>2, LenProperties
<1>4. ASSUME NEW x \in DOMAIN d PROVE k + x \in DOMAIN c /\ d[x] = c[k + x] /\ k \in Nat /\ x \in Nat
  BY <1>1, <1>2, <1>3
<1>5. Stream(d)
  <2>1. \A i \in DOMAIN d : d[i].row \in DOMAIN text /\ d[i].indent <= Len(Symbols(d[i].row))
    BY <1>4 DEF Stream
  <2>2. ASSUME NEW i \in DOMAIN d, NEW j \in DOMAIN d, i < j PROVE d[i].row < d[j].row
    <3>1. k + i < k + j /\ k + i \in DOMAIN c /\ k + j \in DOMAIN c /\ d[i] = c[k + i] /\ d[j] = c[k + j]
      BY <1>4, <2>2
    <3>2. c[k + i].row < c[k + j].row
      BY <3>1 DEF Stream
    <3> QED BY <3>1, <3>2
  <2> QED BY <1>2, <2>1, <2>2 DEF Stream
<1>6. Within(d, c)
  BY <1>4 DEF Within
<1>7. \A x \in DOMAIN d, i \in DOMAIN st : d[x].row = st[i].bound.row => d[x].indent <= st[i].bound.col
  BY <1>4 DEF Bodies, Body
<1>8. Bodies(st, d)
  BY <1>6, <1>7, BodiesWithin
<1>9. ASSUME NEW i \in 1 .. k PROVE Past(c[i].row, d)
  <2> SUFFICES ASSUME NEW x \in DOMAIN d PROVE c[i].row < d[x].row
    BY DEF Past
  <2>1. i \in DOMAIN c /\ k + x \in DOMAIN c /\ i < k + x /\ d[x] = c[k + x]
    BY <1>1, <1>3, <1>4
  <2>2. c[i].row < c[k + x].row
    BY <2>1 DEF Stream
  <2> QED BY <2>1, <2>2
<1> QED BY <1>5, <1>6, <1>8, <1>9 DEF d

LEMMA PushFits ==
    ASSUME Program, NEW st, NEW c, Bodies(st, c), NEW f \in Frame,
           BoundOK(f.bound), Held(f.line, Bound(st)), f.line.row <= f.bound.row,
           \A x \in DOMAIN c : c[x].row = f.bound.row => c[x].indent <= f.bound.col,
           \A j \in DOMAIN st : f.bound.row <= st[j].bound.row \/ Past(st[j].bound.row, c)
    PROVE  Bodies(Append(st, f), c) /\ Bound(Append(st, f)) = f.bound
<1> DEFINE n == Len(st)
           s == Append(st, f)
<1>1. /\ n \in Nat /\ DOMAIN st = 1 .. n /\ st \in Seq(Frame)
      /\ st # <<>> => Bound(st) = st[n].bound
  BY BoundsAreOK DEF Bodies
<1>2. /\ s \in Seq(Frame) /\ Len(s) = n + 1 /\ DOMAIN s = 1 .. (n + 1)
      /\ \A i \in 1 .. n : s[i] = st[i]
      /\ s[n + 1] = f
  BY <1>1, AppendProperties
<1> HIDE DEF s, n
<1>3. ASSUME NEW i \in 1 .. n PROVE Body(s, i, c)
  <2>1. s[i] = st[i] /\ Body(st, i, c) /\ i \in DOMAIN st
    BY <1>1, <1>2 DEF Bodies
  <2>2. Outer(s, i) = Outer(st, i)
    <3>1. i # 1 => i - 1 \in 1 .. n
      BY <1>1
    <3> QED BY <1>2, <3>1 DEF Outer
  <2>3. \A j \in 1 .. (i - 1) : s[j] = st[j]
    <3>1. \A j \in 1 .. (i - 1) : j \in 1 .. n
      BY <1>1
    <3> QED BY <1>2, <3>1
  <2> QED BY <2>1, <2>2, <2>3 DEF Body
<1>4. Outer(s, n + 1) = Bound(st)
  <2>1. CASE n = 0
    <3>1. st = <<>>
      BY <1>1, <2>1, EmptySeq DEF n
    <3> QED BY <2>1, <3>1 DEF Outer, Bound
  <2>2. CASE n # 0
    <3>1. st # <<>>
      BY <2>2 DEF n
    <3>2. n + 1 # 1 /\ n + 1 - 1 = n /\ n \in 1 .. n
      BY <1>1, <2>2
    <3> QED BY <1>1, <1>2, <3>1, <3>2 DEF Outer
  <2> QED BY <2>1, <2>2
<1>5. Body(s, n + 1, c)
  <2>1. (n + 1) - 1 = n
    BY <1>1
  <2>2. \A j \in 1 .. n : f.bound.row <= s[j].bound.row \/ Past(s[j].bound.row, c)
    BY <1>1, <1>2
  <2>3. \A j \in 1 .. ((n + 1) - 1) : f.bound.row <= s[j].bound.row \/ Past(s[j].bound.row, c)
    BY <2>1, <2>2
  <2>4. /\ BoundOK(f.bound)
        /\ Held(f.line, Outer(s, n + 1)) /\ f.line.row <= f.bound.row
        /\ \A x \in DOMAIN c : c[x].row = f.bound.row => c[x].indent <= f.bound.col
    BY <1>4
  <2>5. s[n + 1] = f
    BY <1>2
  <2> QED BY <2>3, <2>4, <2>5 DEF Body
<1>6. \A i \in DOMAIN s : i \in 1 .. n \/ i = n + 1
  BY <1>1, <1>2
<1>7. Bodies(s, c)
  BY <1>2, <1>3, <1>5, <1>6 DEF Bodies
<1>8. Bound(s) = f.bound
  <2>1. s # <<>>
    BY <1>1, <1>2, EmptySeq
  <2> QED BY <1>2, <2>1 DEF Bound, Last
<1> QED BY <1>7, <1>8 DEF s

LEMMA PopFits ==
    ASSUME Program, NEW st, NEW c, Bodies(st, c), st # <<>>
    PROVE  /\ Bodies(Front(st), c) /\ Bound(Front(st)) = Outer(st, Len(st))
           /\ Last(st) = st[Len(st)] /\ Body(st, Len(st), c)
           /\ \A i \in DOMAIN Front(st) : Outer(Front(st), i) = Outer(st, i) /\ Front(st)[i] = st[i]
<1> DEFINE n == Len(st)
           s == Front(st)
<1>1. /\ n \in Nat /\ n # 0 /\ DOMAIN st = 1 .. n /\ st \in Seq(Frame)
  BY BoundsAreOK, EmptySeq DEF Bodies
<1>2. /\ s \in Seq(Frame) /\ Len(s) = n - 1 /\ DOMAIN s = 1 .. (n - 1)
      /\ \A i \in 1 .. (n - 1) : s[i] = st[i]
  BY <1>1, FrontIs
<1>3. Last(st) = st[n] /\ Body(st, n, c)
  BY <1>1 DEF Last, Bodies
<1> HIDE DEF s, n
<1>4. ASSUME NEW i \in 1 .. (n - 1) PROVE Outer(s, i) = Outer(st, i)
  <2>1. i # 1 => i - 1 \in 1 .. (n - 1)
    BY <1>1
  <2> QED BY <1>2, <2>1 DEF Outer
<1>5. ASSUME NEW i \in 1 .. (n - 1) PROVE Body(s, i, c)
  <2>1. Body(st, i, c) /\ s[i] = st[i]
    BY <1>1, <1>2 DEF Bodies
  <2>2. \A j \in 1 .. (i - 1) : s[j] = st[j]
    BY <1>1, <1>2
  <2> QED BY <1>4, <2>1, <2>2 DEF Body
<1>6. Bodies(s, c)
  BY <1>2, <1>5 DEF Bodies
<1>7. Bound(s) = Outer(st, n)
  <2>1. CASE n = 1
    <3>1. s = <<>>
      BY <1>2, <2>1, EmptySeq
    <3> QED BY <2>1, <3>1 DEF Outer, Bound
  <2>2. CASE n # 1
    <3>1. s # <<>> /\ n - 1 \in 1 .. (n - 1)
      BY <1>1, <1>2, <2>2, EmptySeq
    <3> QED BY <1>2, <2>2, <3>1 DEF Outer, Bound, Last
  <2> QED BY <2>1, <2>2
<1> QED BY <1>2, <1>3, <1>4, <1>6, <1>7 DEF n, s

\* Here-document bodies are looked for past every body that has no line to come.
LEMMA HostIs ==
    ASSUME Program, Fits(line, Coming, stack), line # Nothing
    PROVE  \E h \in 0 .. Len(stack) :
            /\ HostBound = IF h = 0 THEN Nothing ELSE stack[h].bound
            /\ \A i \in DOMAIN stack : h < i => Past(stack[i].bound.row, Coming)
<1> DEFINE n == Len(stack)
           current(i) == IF i = n THEN line ELSE stack[i + 1].line
           hosts == {i \in 1 .. n : current(i).terminated}
           h == IF hosts = {} THEN 0 ELSE Max(hosts)
<1>1. /\ n \in Nat /\ DOMAIN stack = 1 .. n /\ Stream(Coming) /\ Bodies(stack, Coming)
      /\ \A i \in DOMAIN stack : BoundOK(stack[i].bound) /\ stack[i].bound \in BoundRecord
      /\ stack # <<>> => Bound(stack) = stack[n].bound
  BY BoundsAreOK DEF Fits
<1>2. HostBound = IF hosts = {} THEN Nothing ELSE stack[Max(hosts)].bound
  BY DEF HostBound
<1> HIDE DEF n
<1>3. h \in 0 .. n /\ (hosts = {} <=> h = 0) /\ \A i \in hosts : i <= h
  <2>1. CASE hosts = {}
    <3>1. h = 0
      BY <2>1
    <3>2. \A i \in hosts : i <= h
      BY <2>1
    <3>3. 0 \in 0 .. n
      BY <1>1
    <3> HIDE DEF h, hosts
    <3> QED BY <2>1, <3>1, <3>2, <3>3
  <2>2. CASE hosts # {}
    <3>1. hosts \in SUBSET Nat /\ \A i \in hosts : i <= n
      BY <1>1
    <3>2. Max(hosts) \in hosts /\ \A i \in hosts : i <= Max(hosts)
      BY <1>1, <2>2, <3>1, GreatestIs
    <3>3. h = Max(hosts)
      BY <2>2
    <3>4. Max(hosts) \in 1 .. n
      BY <3>2
    <3> HIDE DEF h, hosts
    <3>5. h \in 1 .. n
      BY <3>3, <3>4
    <3> QED BY <1>1, <2>2, <3>2, <3>3, <3>5
  <2> QED BY <2>1, <2>2
<1>4. HostBound = IF h = 0 THEN Nothing ELSE stack[h].bound
  BY <1>2, <1>3
<1> DEFINE b(i) == stack[i].bound.row
<1>5. ASSUME NEW i \in 1 .. n, h < i
      PROVE  /\ b(i) <= current(i).row /\ b(i) \in Nat /\ current(i).row \in Nat
             /\ i = n => Past(current(i).row, Coming)
             /\ i # n => i + 1 \in 1 .. n /\ current(i).row <= b(i + 1)
  <2>1. ~current(i).terminated
    <3>1. i \in hosts => i <= h
      BY <1>3
    <3>2. i \in Nat /\ h \in Nat
      <4> HIDE DEF h, hosts
      <4> QED BY <1>1, <1>3
    <3>3. i \notin hosts
      <4> HIDE DEF h, hosts
      <4> QED BY <1>5, <3>1, <3>2
    <3> QED BY <3>3
  <2>2. Held(current(i), stack[i].bound) /\ BoundOK(stack[i].bound) /\ stack[i].bound \in BoundRecord
    <3>1. CASE i = n
      <4>1. stack # <<>>
        BY <1>1, <3>1 DEF n
      <4> QED BY <1>1, <3>1, <4>1 DEF Fits
    <3>2. CASE i # n
      <4>1. i + 1 \in DOMAIN stack /\ i + 1 # 1 /\ i + 1 - 1 = i /\ i \in DOMAIN stack
        BY <1>1, <3>2
      <4>2. Held(stack[i + 1].line, Outer(stack, i + 1))
        BY <1>1, <4>1 DEF Bodies, Body
      <4>3. Outer(stack, i + 1) = stack[i].bound
        BY <4>1 DEF Outer
      <4> QED BY <1>1, <3>2, <4>1, <4>2, <4>3
    <3> QED BY <3>1, <3>2
  <2> DEFINE l == current(i)
             c == stack[i].bound
  <2> HIDE DEF l, c
  <2>3. l \in LineRecord /\ l.row \in DOMAIN text /\ l = SetEof(l, c) /\ c # Nothing /\ c \in BoundRecord
    BY <2>2, NothingIsNone DEF Held, l, c
  <2>4. l.row \in Nat /\ l.row <= Len(text) /\ Len(text) \in Nat /\ Terminated(l.row) \in BOOLEAN
    BY <2>3, RowsAre
  <2>5. c.row \in Nat /\ c.row <= Len(text)
    <3>1. c.row \in DOMAIN text
      BY <2>2, <2>3 DEF BoundOK, c
    <3> QED BY <3>1, RowsAre
  <2>6. l.terminated = ((c = Nothing \/ c.row > l.row) /\ Terminated(l.row))
    BY <2>2, <2>3, SetEofIs DEF c
  <2>7. ~(c.row > l.row) \/ ~Terminated(l.row)
    BY <2>1, <2>6 DEF l
  <2>8. ~Terminated(l.row) => l.row = Len(text)
    BY <2>3 DEF Program
  <2>9. c.row <= l.row
    BY <2>4, <2>5, <2>7, <2>8
  <2>10. i = n => Past(l.row, Coming)
    BY DEF Fits, l
  <2>11. i # n => i + 1 \in 1 .. n /\ l.row <= b(i + 1)
    <3>1. i # n => i + 1 \in 1 .. n /\ i + 1 \in DOMAIN stack
      BY <1>1
    <3> QED BY <1>1, <3>1 DEF l, Bodies, Body
  <2> QED BY <2>4, <2>5, <2>9, <2>10, <2>11 DEF l, c
<1> DEFINE G == {i \in 1 .. n : h < i /\ ~Past(b(i), Coming)}
<1>6. G = {}
  <2> SUFFICES ASSUME G # {} PROVE FALSE
    OBVIOUS
  <2>1. G \in SUBSET Nat /\ \A i \in G : i <= n
    BY <1>1
  <2> DEFINE g == Max(G)
  <2>2. g \in G /\ \A i \in G : i <= g
    BY <1>1, <2>1, GreatestIs
  <2> HIDE DEF g
  <2>3. g \in 1 .. n /\ h < g /\ ~Past(b(g), Coming)
    BY <2>2
  <2>4. b(g) <= current(g).row /\ b(g) \in Nat /\ current(g).row \in Nat
    BY <1>5, <2>3
  <2>5. CASE g = n
    BY <1>1, <1>5, <2>3, <2>4, <2>5, PastBefore
  <2>6. CASE g # n
    <3>1. g + 1 \in 1 .. n /\ current(g).row <= b(g + 1)
      BY <1>5, <2>3, <2>6
    <3>2. h < g + 1 /\ ~(g + 1 <= g)
      <4>1. g \in Nat /\ h \in Nat /\ h < g
        <5> HIDE DEF h, G
        <5> QED BY <1>1, <1>3, <2>3
      <4> HIDE DEF h, G
      <4> QED BY <4>1
    <3>3. Past(b(g + 1), Coming) /\ b(g + 1) \in Nat
      BY <1>5, <2>2, <3>1, <3>2
    <3> QED BY <1>1, <2>3, <2>4, <3>1, <3>3, PastBefore
  <2> QED BY <2>5, <2>6
<1>7. \A i \in DOMAIN stack : h < i => Past(stack[i].bound.row, Coming)
  BY <1>1, <1>6
<1> HIDE DEF h
<1> QED BY <1>3, <1>4, <1>7 DEF n

-----------------------------------------------------------------------------
(* What the lexer sees under its cursor.                                   *)

\* The line l, read under the bound b, still has the byte at <<r, d>> to give.
Gives(l, b, r, d) == l # Nothing /\ l.row = r /\ l.pos <= d /\ Shown(b, r, d)

LEMMA HeldIs ==
    ASSUME Program, NEW l, NEW b, BoundOK(b), Held(l, b)
    PROVE  /\ l \in LineRecord /\ l # Nothing /\ l.row \in DOMAIN text /\ l.row \in Nat
           /\ l.number \in Nat /\ l.indent \in Nat /\ l.pos \in Nat /\ l.len \in Nat
           /\ l.terminated \in BOOLEAN /\ l.len <= Len(Symbols(l.row))
<1>1. l \in LineRecord /\ l.row \in DOMAIN text /\ l = SetEof(l, b)
  BY DEF Held
<1>2. l.len = IF b = Nothing \/ b.row > l.row THEN Len(Symbols(l.row))
              ELSE IF b.row = l.row THEN b.col ELSE 0
  BY <1>1, SetEofIs
<1>3. Len(Symbols(l.row)) \in Nat /\ l.row \in Nat
  BY <1>1, RowsAre
<1>4. l.len <= Len(Symbols(l.row))
  BY <1>2, <1>3 DEF BoundOK, BoundRecord
<1> QED BY <1>1, <1>3, <1>4, NothingIsNone DEF LineRecord

LEMMA AheadGives ==
    ASSUME Program, NEW l, NEW b, BoundOK(b), Held(l, b)
    PROVE  /\ \A r \in DOMAIN text : \A d \in Columns(r) : <<r, d>> \in Ahead(l) <=> Gives(l, b, r, d)
           /\ \A o \in Ahead(l) : o[1] \in DOMAIN text /\ o[2] \in Columns(o[1]) /\ o = <<o[1], o[2]>>
<1>1. Ahead(l) = {<<l.row, d>> : d \in {e \in Columns(l.row) : l.pos <= e /\ Shown(b, l.row, e)}}
  BY AheadIs, HeldIs DEF Held
<1>2. l.row \in DOMAIN text /\ l # Nothing
  BY HeldIs
<1> QED BY <1>1, <1>2 DEF Gives

\* peek_byte_at answers just where the line has something ahead.
LEMMA PeekIs ==
    ASSUME Program, NEW l, NEW b, BoundOK(b), Held(l, b), NEW d \in Nat, l.pos <= d
    PROVE  /\ PeekAt(l, d) # Nothing <=> <<l.row, d>> \in Ahead(l)
           /\ PeekAt(l, d) \in Symbol => d < l.len
           /\ d < l.len => d \in Columns(l.row) /\ d < Len(Symbols(l.row))
<1>1. /\ l.row \in DOMAIN text /\ l.row \in Nat /\ l.pos \in Nat /\ l.len \in Nat
      /\ l.terminated \in BOOLEAN /\ l.len <= Len(Symbols(l.row))
  BY HeldIs
<1>2. Symbols(l.row) \in Seq(Symbol) /\ Len(Symbols(l.row)) \in Nat
  BY <1>1, RowsAre
<1>3. d < l.len => Symbols(l.row)[d + 1] \in Symbol
  <2>1. d < l.len => d + 1 \in 1 .. Len(Symbols(l.row))
    BY <1>1, <1>2
  <2> QED BY <1>2, <2>1, ElementOfSeq
<1>4. <<l.row, d>> \in Ahead(l) <=> d < l.len \/ (d = l.len /\ l.terminated)
  <2>1. <<l.row, d>> \in Ahead(l) <=> d \in {e \in l.pos .. l.len : e < l.len \/ l.terminated}
    BY DEF Ahead
  <2> QED BY <1>1, <2>1
<1>5. CASE d < l.len
  BY <1>1, <1>2, <1>3, <1>4, <1>5, NothingIsNone DEF PeekAt, Columns
<1>6. CASE ~(d < l.len) /\ d = l.len /\ l.terminated
  <2>1. PeekAt(l, d) = "\n"
    BY <1>6 DEF PeekAt
  <2>2. "\n" \notin Symbol
    BY DEF Symbol
  <2> QED BY <1>4, <1>6, <2>1, <2>2, NothingIsNone
<1>7. CASE ~(d < l.len) /\ ~(d = l.len /\ l.terminated)
  <2>1. PeekAt(l, d) = Nothing
    BY <1>7 DEF PeekAt
  <2> QED BY <1>4, <1>7, <2>1, NothingIsNone
<1> QED BY <1>5, <1>6, <1>7

-----------------------------------------------------------------------------
(* The source: what every step leaves.                                     *)

SourceInv == Sourced /\ number \in Nat /\ Fits(line, Coming, stack)

Kept ==
    /\ text' = text /\ unread' \in 1 .. (Len(text) + 1) /\ queue' \in Seq(Upcoming) /\ number' \in Nat
    /\ Fits(line', Coming', stack')

LEMMA FitsCarried ==
    ASSUME text' = text
    PROVE  Fits(line, Coming, stack)' <=> Fits(line', Coming', stack')
<1>1. \A l, b : SetEof(l, b)' = SetEof(l, b)
  BY DEF SetEof, Symbols, Terminated
<1>2. SetEof(line, Bound(stack))' = SetEof(line', Bound(stack'))
  BY DEF SetEof, Symbols, Terminated, Bound
<1>3. \A i : SetEof(stack[i].line, Outer(stack, i))' = SetEof(stack'[i].line, Outer(stack', i))
  BY DEF SetEof, Symbols, Terminated, Outer
<1>4. \A b : BoundOK(b)' <=> BoundOK(b)
  BY DEF BoundOK, Symbols
<1> QED BY <1>2, <1>3 DEF Fits, Stream, Bodies, Body, Held, BoundOK, Past, Outer, Bound, Symbols, Reaches

LEMMA SourceKept ==
    ASSUME SourceInv, Kept
    PROVE  SourceInv'
<1>1. Program'
  BY DEF SourceInv, Sourced, Kept, Program, Terminated
<1>2. Fits(line, Coming, stack)'
  BY FitsCarried DEF Kept
<1> QED BY <1>1, <1>2 DEF SourceInv, Sourced, Kept

\* Facts about a state of the source.
LEMMA SourceIs ==
    ASSUME SourceInv
    PROVE  /\ Program /\ Sourced /\ number \in Nat
           /\ Fits(line, Coming, stack) /\ Stream(Coming) /\ Bodies(stack, Coming)
           /\ BoundOK(Bound(stack))
           /\ line # Nothing => Held(line, Bound(stack)) /\ Past(line.row, Coming)
           /\ Reach(Bound(stack)) \in 0 .. Len(Coming) /\ Len(Coming) \in Nat
           /\ DOMAIN Coming = 1 .. Len(Coming) /\ Coming \in Seq(Upcoming)
           /\ \A i \in DOMAIN Coming : i <= Reach(Bound(stack)) <=> Reaches(Bound(stack), Coming[i].row)
  BY BoundsAreOK, ReachIs, StreamIs DEF SourceInv, Sourced, Fits

\* The byte the cursor is at is one the line has to give.
LEMMA AtIs ==
    ASSUME SourceInv, NEW S \in SUBSET Symbol, At(S)
    PROVE  /\ line # Nothing /\ Held(line, Bound(stack)) /\ line.pos < line.len
           /\ line.pos \in Columns(line.row) /\ <<line.row, line.pos>> \in Ahead(line)
           /\ line.pos \in Nat /\ line.row \in DOMAIN text
<1>1. line # Nothing /\ PeekAt(line, line.pos) \in S
  BY DEF At
<1>2. Program /\ BoundOK(Bound(stack)) /\ Held(line, Bound(stack))
  BY <1>1, SourceIs
<1>3. line.pos \in Nat /\ line.pos <= line.pos /\ line.row \in DOMAIN text
  BY <1>2, HeldIs
<1>4. PeekAt(line, line.pos) \in Symbol /\ PeekAt(line, line.pos) # Nothing
  BY <1>1, NothingIsNone
<1> QED BY <1>1, <1>2, <1>3, <1>4, PeekIs

\* Moving the cursor, or the number, of a line keeps it in its place.
LEMMA MovedHeld ==
    ASSUME Program, NEW l, NEW b, BoundOK(b), Held(l, b), NEW p \in Nat
    PROVE  /\ Held([l EXCEPT !.pos = p], b) /\ Held([l EXCEPT !.number = p], b)
           /\ [l EXCEPT !.pos = p] = SetEof([l EXCEPT !.pos = p], b)
<1>1. l \in LineRecord /\ l.row \in DOMAIN text
  BY HeldIs
<1> DEFINE m == [l EXCEPT !.pos = p]
           k == [l EXCEPT !.number = p]
<1>2. m \in LineRecord /\ m.row = l.row /\ m.len = l.len /\ m.terminated = l.terminated
  BY <1>1 DEF LineRecord
<1>3. k \in LineRecord /\ k.row = l.row /\ k.len = l.len /\ k.terminated = l.terminated
  BY <1>1 DEF LineRecord
<1> HIDE DEF m, k
<1>4. m = SetEof(m, b)
  BY <1>1, <1>2, CutMoves DEF Held
<1>5. k = SetEof(k, b)
  BY <1>1, <1>3, CutMoves DEF Held
<1>6. Held(m, b) /\ Held(k, b)
  BY <1>1, <1>2, <1>3, <1>4, <1>5 DEF Held
<1> QED BY <1>4, <1>6 DEF m, k

LEMMA Rejoined ==
    ASSUME NEW S, NEW c \in Seq(S), NEW k \in 0 .. Len(c)
    PROVE  /\ SubSeq(c, 1, k) \in Seq(S) /\ SubSeq(c, 1, k) \o Rest(c, k) = c
           /\ <<>> \o Rest(c, k) = Rest(c, k)
<1> DEFINE s == SubSeq(c, 1, k)
           r == Rest(c, k)
<1>1. Len(c) \in Nat /\ k \in Nat /\ k <= Len(c)
  BY LenProperties
<1>2. \A i \in 1 .. k : c[i] \in S
  BY <1>1, ElementOfSeq
<1>3. /\ s \in Seq(S) /\ Len(s) = (IF 1 <= k THEN k - 1 + 1 ELSE 0)
      /\ \A i \in 1 .. (k - 1 + 1) : s[i] = c[1 + i - 1]
  BY <1>1, <1>2, SubSeqProperties
<1>4. r \in Seq(S) /\ Len(r) = Len(c) - k /\ \A i \in 1 .. (Len(c) - k) : r[i] = c[k + i]
  BY RestIs
<1> HIDE DEF s, r
<1>5. Len(s) = k /\ k - 1 + 1 = k
  BY <1>1, <1>3
<1>6. \A i \in 1 .. k : s[i] = c[i]
  <2> TAKE i \in 1 .. k
  <2>1. 1 + i - 1 = i
    BY <1>1
  <2> QED BY <1>3, <1>5, <2>1
<1>7. /\ s \o r \in Seq(S) /\ Len(s \o r) = Len(s) + Len(r)
      /\ \A i \in 1 .. (Len(s) + Len(r)) : (s \o r)[i] = IF i <= Len(s) THEN s[i] ELSE r[i - Len(s)]
  BY <1>3, <1>4, ConcatProperties
<1>8. Len(s) + Len(r) = Len(c)
  BY <1>1, <1>4, <1>5
<1>9. ASSUME NEW i \in 1 .. Len(c) PROVE (s \o r)[i] = c[i]
  <2>1. CASE i <= k
    BY <1>1, <1>5, <1>6, <1>7, <1>8, <2>1
  <2>2. CASE ~(i <= k)
    <3>1. i - k \in 1 .. (Len(c) - k) /\ k + (i - k) = i
      BY <1>1, <2>2
    <3>2. (s \o r)[i] = r[i - k]
      BY <1>5, <1>7, <1>8, <2>2
    <3> QED BY <1>4, <3>1, <3>2
  <2> QED BY <2>1, <2>2
<1>10. s \o r = c
  BY <1>7, <1>8, <1>9, SeqEqual
<1>11. <<>> \o r = r
  BY <1>4, ConcatSimplifications
<1> QED BY <1>3, <1>10, <1>11 DEF s, r

-----------------------------------------------------------------------------
(* The steps, as they move the lines.                                      *)

\* The lines to come and the bodies stay, and the cursor moves on its line.
Stays == stack' = stack /\ Coming' = Coming

LEMMA CursorKept ==
    ASSUME SourceInv, line # Nothing, UNCHANGED <<text, unread, queue, stack>>, NEW p \in Nat,
           line' = [line EXCEPT !.pos = p], number' \in Nat
    PROVE  Kept /\ Stays
<1>1. /\ Program /\ BoundOK(Bound(stack)) /\ Held(line, Bound(stack)) /\ Past(line.row, Coming)
      /\ Stream(Coming) /\ Bodies(stack, Coming)
  BY SourceIs
<1>2. Coming' = Coming
  BY DEF Coming
<1>3. Held(line', Bound(stack))
  BY <1>1, MovedHeld
<1>4. line'.row = line.row
  BY <1>1, HeldIs DEF LineRecord
<1>5. Fits(line', Coming', stack')
  BY <1>1, <1>2, <1>3, <1>4 DEF Fits
<1> QED BY <1>2, <1>5 DEF Kept, Stays, SourceInv, Sourced

LEMMA ByteIs ==
    ASSUME SourceInv, Byte
    PROVE  /\ Kept /\ Stays /\ line # Nothing /\ number' = number
           /\ Held(line, Bound(stack)) /\ <<line.row, line.pos>> \in Ahead(line)
           /\ line' = [line EXCEPT !.pos = line.pos + 1]
<1>1. line # Nothing /\ PeekAt(line, line.pos) # Nothing
  BY DEF Byte, Exhausted
<1>2. Program /\ BoundOK(Bound(stack)) /\ Held(line, Bound(stack))
  BY <1>1, SourceIs
<1>3. line.pos \in Nat /\ line.pos + 1 \in Nat
  BY <1>2, HeldIs
<1>4. <<line.row, line.pos>> \in Ahead(line)
  BY <1>1, <1>2, <1>3, PeekIs
<1>5. number' \in Nat /\ line' = [line EXCEPT !.pos = line.pos + 1]
      /\ UNCHANGED <<text, unread, queue, stack, number>>
  BY DEF Byte, SourceInv
<1> QED BY <1>1, <1>2, <1>3, <1>4, <1>5, CursorKept

\* A lookahead ends where it began.
LEMMA RewoundIs ==
    ASSUME SourceInv, line # Nothing, UNCHANGED <<text, stack>>, NEW p \in Nat, NEW k \in 0 .. Len(Coming),
           Rewind([line EXCEPT !.pos = p], k, SubSeq(Coming, 1, k))
    PROVE  /\ Kept /\ Stays /\ line' = [line EXCEPT !.pos = p] /\ number' = line.number + 1
<1>1. /\ Program /\ BoundOK(Bound(stack)) /\ Held(line, Bound(stack)) /\ Past(line.row, Coming)
      /\ Stream(Coming) /\ Bodies(stack, Coming) /\ Sourced /\ Coming \in Seq(Upcoming)
  BY SourceIs
<1>2. /\ line' = SetEof([line EXCEPT !.pos = p], Bound(stack)) /\ Take(k, SubSeq(Coming, 1, k))
      /\ number' = [line EXCEPT !.pos = p].number + 1
  BY DEF Rewind
<1>3. line' = [line EXCEPT !.pos = p] /\ Held(line', Bound(stack))
  <2> DEFINE m == [line EXCEPT !.pos = p]
  <2>1. Held(m, Bound(stack)) /\ m = SetEof(m, Bound(stack))
    BY <1>1, MovedHeld
  <2>2. line' = SetEof(m, Bound(stack))
    BY <1>2
  <2> HIDE DEF m
  <2>3. line' = m
    BY <2>1, <2>2
  <2> QED BY <2>1, <2>3 DEF m
<1>4. line'.row = line.row /\ number' = line.number + 1 /\ number' \in Nat
  <2>1. line \in LineRecord /\ line.number \in Nat
    BY <1>1, HeldIs
  <2>2. line'.row = line.row /\ [line EXCEPT !.pos = p].number = line.number
    BY <1>3, <2>1 DEF LineRecord
  <2>3. number' = line.number + 1
    BY <1>2, <2>2
  <2> QED BY <2>1, <2>2, <2>3
<1>5. SubSeq(Coming, 1, k) \in Seq(Upcoming) /\ SubSeq(Coming, 1, k) \o Rest(Coming, k) = Coming
  BY <1>1, Rejoined
<1>6. unread' \in 1 .. (Len(text) + 1) /\ queue' \in Seq(Upcoming) /\ Coming' = Coming
  BY <1>1, <1>2, <1>5, TakeIs
<1>7. Fits(line', Coming', stack')
  BY <1>1, <1>3, <1>4, <1>6 DEF Fits
<1> QED BY <1>3, <1>4, <1>6, <1>7 DEF Kept, Stays

LEMMA WordIs ==
    ASSUME SourceInv, Word
    PROVE  /\ Kept /\ Stays /\ line # Nothing /\ number' = line.number + 1
           /\ Held(line, Bound(stack)) /\ <<line.row, line.pos>> \in Ahead(line)
           /\ line' = [line EXCEPT !.pos = line.pos + 1]
<1> DEFINE b == Bound(stack)
           found == {k \in 1 .. Reach(b) : ~Blank(LineAt(k, b), LineAt(k, b).pos)}
           crossed == CASE ~Blank(line, line.pos + 1) -> 0
                        [] found # {} -> Min(found)
                        [] OTHER -> Reach(b)
<1>1. {"w", "e", "T"} \in SUBSET Symbol
  BY DEF Symbol
<1>2. At({"w", "e", "T"})
  BY DEF Word
<1>3. /\ line # Nothing /\ Held(line, Bound(stack)) /\ <<line.row, line.pos>> \in Ahead(line)
      /\ line.pos \in Nat
  BY <1>1, <1>2, AtIs
<1>4. Rewind([line EXCEPT !.pos = @ + 1], crossed, SubSeq(Coming, 1, crossed))
  BY DEF Word
<1>5. Reach(b) \in 0 .. Len(Coming) /\ Len(Coming) \in Nat
  BY SourceIs
<1> DEFINE r == Reach(b)
<1>6. found \in SUBSET Nat /\ found \in SUBSET (1 .. r)
  BY <1>5
<1>7. found # {} => Min(found) \in found
  BY <1>6, LeastIs
<1>8. crossed \in {0, Min(found), r} /\ (crossed = Min(found) => found # {} \/ crossed \in {0, r})
  OBVIOUS
<1> HIDE DEF r, found, crossed
<1>9. crossed \in 0 .. Len(Coming)
  BY <1>5, <1>6, <1>7, <1>8 DEF r
<1>10. line.pos + 1 \in Nat /\ UNCHANGED <<text, stack>>
  BY <1>3 DEF Word
<1> QED BY <1>3, <1>4, <1>9, <1>10, RewoundIs

\* The next line becomes the current one.
LEMMA AdvancedKept ==
    ASSUME SourceInv, Reach(Bound(stack)) > 0, UNCHANGED <<text, stack>>, Take(1, <<>>),
           Held(line', Bound(stack)), line'.row = Coming[1].row, number' \in Nat
    PROVE  Kept /\ Coming' = Rest(Coming, 1)
<1>1. /\ Program /\ BoundOK(Bound(stack)) /\ Stream(Coming) /\ Bodies(stack, Coming) /\ Sourced
      /\ Coming \in Seq(Upcoming)
  BY SourceIs
<1>2. 1 \in 0 .. Len(Coming)
  BY SourceIs
<1>3. <<>> \in Seq(Upcoming) /\ <<>> \o Rest(Coming, 1) = Rest(Coming, 1)
  BY <1>1, <1>2, Rejoined, EmptySeq
<1>4. unread' \in 1 .. (Len(text) + 1) /\ queue' \in Seq(Upcoming) /\ Coming' = Rest(Coming, 1)
  BY <1>1, <1>2, <1>3, TakeIs
<1>5. /\ Stream(Rest(Coming, 1)) /\ Bodies(stack, Rest(Coming, 1))
      /\ Past(Coming[1].row, Rest(Coming, 1))
  BY <1>1, <1>2, RestFits
<1>6. Fits(line', Coming', stack')
  BY <1>4, <1>5 DEF Fits
<1> QED BY <1>4, <1>6 DEF Kept

LEMMA FirstReached ==
    ASSUME SourceInv, Reach(Bound(stack)) > 0
    PROVE  /\ 1 \in DOMAIN Coming /\ Reaches(Bound(stack), Coming[1].row)
           /\ LET l == LineAt(1, Bound(stack)) IN
              /\ Held(l, Bound(stack)) /\ l.row = Coming[1].row /\ l.number = number
              /\ l.indent = Coming[1].indent /\ l.pos = Coming[1].indent
<1>1. 1 \in DOMAIN Coming /\ Reaches(Bound(stack), Coming[1].row)
  BY SourceIs
<1>2. number + 1 - 1 = number
  BY SourceIs
<1> QED BY <1>1, <1>2, SourceIs, LineAtIs

LEMMA LoadLineIs ==
    ASSUME SourceInv, LoadLine
    PROVE  /\ Kept /\ stack' = stack /\ Coming' = Rest(Coming, 1) /\ Reach(Bound(stack)) > 0
           /\ line' = LineAt(1, Bound(stack)) /\ number' = number + 1
<1>1. /\ Reach(Bound(stack)) > 0 /\ UNCHANGED <<text, stack>> /\ Take(1, <<>>)
      /\ line' = LineAt(1, Bound(stack)) /\ number' = number + 1
  BY DEF LoadLine, NextLine
<1>2. Held(line', Bound(stack)) /\ line'.row = Coming[1].row /\ number' \in Nat
  BY <1>1, FirstReached, SourceIs
<1> QED BY <1>1, <1>2, AdvancedKept

\* A directive numbers the next line.
Tells == At({"#line"}) /\ line.pos = line.indent
NextNumber == IF Tells THEN Told ELSE number

LEMMA CommentIs ==
    ASSUME SourceInv, Comment
    PROVE  /\ Kept /\ stack' = stack /\ line # Nothing /\ Held(line, Bound(stack))
           /\ line.pos < line.len
           /\ shift' = (IF Tells /\ Reach(Bound(stack)) > 0 THEN Told - Coming[1].row ELSE shift)
           /\ \/ /\ Reach(Bound(stack)) > 0 /\ Coming' = Rest(Coming, 1)
                 /\ line' = [LineAt(1, Bound(stack)) EXCEPT !.number = NextNumber]
                 /\ number' = NextNumber + 1
              \/ /\ Reach(Bound(stack)) = 0 /\ Coming' = Coming
                 /\ line' = [line EXCEPT !.pos = line.len + (IF line.terminated THEN 1 ELSE 0)]
                 /\ number' = NextNumber
<1>1. {"#", "#line"} \in SUBSET Symbol
  BY DEF Symbol
<1>2. At({"#", "#line"})
  BY DEF Comment
<1>3. line # Nothing /\ Held(line, Bound(stack)) /\ line.pos < line.len
  BY <1>1, <1>2, AtIs
<1>4. NextNumber \in Nat /\ number \in Nat
  BY SourceLinesAssumption DEF NextNumber, SourceInv
<1>5. shift' = (IF Tells /\ Reach(Bound(stack)) > 0 THEN Told - Coming[1].row ELSE shift)
      /\ UNCHANGED <<text, stack>>
  BY DEF Comment, Tells
<1>6. CASE Reach(Bound(stack)) > 0
  <2>1. /\ line' = [LineAt(1, Bound(stack)) EXCEPT !.number = NextNumber]
        /\ number' = NextNumber + 1 /\ Take(1, <<>>)
    BY <1>6 DEF Comment, Tells, NextNumber
  <2>2. Held(LineAt(1, Bound(stack)), Bound(stack)) /\ LineAt(1, Bound(stack)).row = Coming[1].row
    BY <1>6, FirstReached
  <2>3. Held(line', Bound(stack))
    BY <1>4, <2>1, <2>2, MovedHeld, SourceIs
  <2>4. LineAt(1, Bound(stack)) \in LineRecord
    BY <2>2 DEF Held
  <2>5. line'.row = Coming[1].row /\ number' \in Nat
    BY <1>4, <2>1, <2>2, <2>4 DEF LineRecord
  <2> QED BY <1>3, <1>5, <1>6, <2>1, <2>3, <2>5, AdvancedKept
<1>7. CASE ~(Reach(Bound(stack)) > 0)
  <2>1. Reach(Bound(stack)) = 0
    BY <1>7, SourceIs
  <2>2. /\ line' = [line EXCEPT !.pos = line.len + (IF line.terminated THEN 1 ELSE 0)]
        /\ number' = NextNumber /\ UNCHANGED <<unread, queue>>
    BY <1>7 DEF Comment, Tells, NextNumber
  <2>3. line.len + (IF line.terminated THEN 1 ELSE 0) \in Nat
    BY <1>3, HeldIs, SourceIs
  <2>4. Kept /\ Stays
    BY <1>3, <1>4, <1>5, <2>2, <2>3, CursorKept
  <2> QED BY <1>3, <1>5, <2>1, <2>2, <2>4 DEF Stays
<1> QED BY <1>6, <1>7

LEMMA PodIs ==
    ASSUME SourceInv, Pod
    PROVE  /\ Kept /\ stack' = stack /\ line # Nothing /\ line' = Nothing
           /\ Held(line, Bound(stack)) /\ line.pos < line.len
           /\ \E k \in 0 .. Reach(Bound(stack)) :
                /\ Coming' = Rest(Coming, k) /\ number' = number + k
                /\ Give(Ahead(line) \cup UNION {Ahead(LineAt(i, Bound(stack))) : i \in 1 .. k})
<1> DEFINE b == Bound(stack)
           cuts == {k \in 1 .. Reach(b) : PeekAt(LineAt(k, b), Coming[k].indent) = "=cut"}
           k == IF cuts # {} THEN Min(cuts) ELSE Reach(b)
<1>1. {"=pod"} \in SUBSET Symbol
  BY DEF Symbol
<1>2. At({"=pod"})
  BY DEF Pod
<1>3. line # Nothing /\ Held(line, Bound(stack)) /\ line.pos < line.len
  BY <1>1, <1>2, AtIs
<1>4. /\ Take(k, <<>>) /\ number' = number + k /\ line' = Nothing /\ UNCHANGED <<text, stack>>
      /\ Give(Ahead(line) \cup UNION {Ahead(LineAt(i, b)) : i \in 1 .. k})
  BY DEF Pod
<1>5. /\ Reach(b) \in 0 .. Len(Coming) /\ Len(Coming) \in Nat /\ Sourced /\ Coming \in Seq(Upcoming)
      /\ Program /\ Stream(Coming) /\ Bodies(stack, Coming) /\ number \in Nat
  BY SourceIs
<1>6. k \in 0 .. Reach(b)
  <2>1. cuts \in SUBSET Nat
    BY <1>5
  <2>2. cuts # {} => Min(cuts) \in cuts
    BY <2>1, LeastIs
  <2> QED BY <1>5, <2>2
<1> HIDE DEF k, b
<1>7. k \in 0 .. Len(Coming) /\ number' \in Nat
  BY <1>4, <1>5, <1>6
<1>8. <<>> \in Seq(Upcoming) /\ <<>> \o Rest(Coming, k) = Rest(Coming, k)
  BY <1>5, <1>7, Rejoined, EmptySeq
<1>9. unread' \in 1 .. (Len(text) + 1) /\ queue' \in Seq(Upcoming) /\ Coming' = Rest(Coming, k)
  BY <1>4, <1>5, <1>7, <1>8, TakeIs
<1>10. Stream(Rest(Coming, k)) /\ Bodies(stack, Rest(Coming, k))
  BY <1>5, <1>7, RestFits
<1>11. Fits(line', Coming', stack')
  BY <1>4, <1>9, <1>10 DEF Fits
<1>12. Kept
  BY <1>4, <1>7, <1>9, <1>11 DEF Kept
<1> QED BY <1>3, <1>4, <1>6, <1>9, <1>12 DEF b

LEMMA EndBodyIs ==
    ASSUME SourceInv, EndBody
    PROVE  /\ Kept /\ Coming' = Coming /\ stack # <<>> /\ stack' = Front(stack)
           /\ Exhausted /\ Reach(Bound(stack)) = 0 /\ number' = number
           /\ line' = stack[Len(stack)].line /\ Held(line', Outer(stack, Len(stack)))
           /\ Bound(stack') = Outer(stack, Len(stack)) /\ last' = Front(last)
<1>1. /\ stack # <<>> /\ stack' = Front(stack) /\ Exhausted /\ Reach(Bound(stack)) = 0
      /\ line' = SetEof(Last(stack).line, Bound(Front(stack))) /\ last' = Front(last)
      /\ UNCHANGED <<text, unread, queue, number>>
  BY DEF EndBody
<1>2. /\ Program /\ Stream(Coming) /\ Bodies(stack, Coming) /\ number \in Nat /\ BoundOK(Bound(stack))
      /\ DOMAIN Coming = 1 .. Len(Coming) /\ Len(Coming) \in Nat
      /\ \A i \in DOMAIN Coming : i <= Reach(Bound(stack)) <=> Reaches(Bound(stack), Coming[i].row)
  BY SourceIs
<1>3. /\ Bodies(Front(stack), Coming) /\ Bound(Front(stack)) = Outer(stack, Len(stack))
      /\ Last(stack) = stack[Len(stack)] /\ Body(stack, Len(stack), Coming)
  BY <1>1, <1>2, PopFits
<1> DEFINE f == stack[Len(stack)]
<1>4. Held(f.line, Outer(stack, Len(stack))) /\ f.line.row <= f.bound.row /\ BoundOK(f.bound)
  BY <1>3 DEF Body
<1>5. line' = f.line
  BY <1>1, <1>3, <1>4 DEF Held
<1>6. Coming' = Coming
  BY <1>1 DEF Coming
<1>7. Bound(stack) = f.bound /\ f.bound \in BoundRecord /\ Len(stack) \in DOMAIN stack
  BY <1>1, <1>2, BoundsAreOK
<1>8. Past(f.line.row, Coming)
  <2> SUFFICES ASSUME NEW i \in DOMAIN Coming PROVE f.line.row < Coming[i].row
    BY DEF Past
  <2>1. ~(Coming[i].row <= f.bound.row)
    BY <1>1, <1>2, <1>7 DEF Reaches
  <2>2. Coming[i].row \in Nat /\ f.bound.row \in Nat
    BY <1>2, <1>7, StreamIs DEF BoundRecord
  <2>3. f.line.row \in Nat
    BY <1>2, <1>4, RowsAre DEF Held
  <2> QED BY <1>4, <2>1, <2>2, <2>3
<1>9. Fits(line', Coming', stack')
  BY <1>1, <1>2, <1>3, <1>4, <1>5, <1>6, <1>8 DEF Fits
<1>10. Kept
  BY <1>1, <1>2, <1>6, <1>9 DEF Kept, SourceInv, Sourced
<1> QED BY <1>1, <1>3, <1>4, <1>5, <1>6, <1>10

LEMMA LeadingIs ==
    ASSUME Program, NEW l, NEW b, BoundOK(b), Held(l, b), l.pos <= l.len
    PROVE  Leading(l) \in Nat /\ Leading(l) <= l.len - l.pos
<1> DEFINE T == {n \in 0 .. (l.len - l.pos) : \A c \in 1 .. n : Symbols(l.row)[l.pos + c] = " "}
<1>1. l.pos \in Nat /\ l.len \in Nat /\ l.len - l.pos \in Nat
  BY HeldIs
<1>2. T \in SUBSET Nat /\ 0 \in T /\ \A n \in T : n <= l.len - l.pos
  <2>1. 0 \in 0 .. (l.len - l.pos) /\ \A n \in 0 .. (l.len - l.pos) : n \in Nat /\ n <= l.len - l.pos
    BY <1>1
  <2>2. 1 .. 0 = {}
    OBVIOUS
  <2> QED BY <2>1, <2>2
<1>3. Max(T) \in T
  BY <1>1, <1>2, GreatestIs
<1>4. Leading(l) = Max(T)
  BY DEF Leading
<1> QED BY <1>2, <1>3, <1>4

\* What a here-document takes from the stream: lines up to the terminator, the
\* k-th, of which those before it come back with their indents.
Stamped(qs, c, k) ==
    /\ k \in DOMAIN c /\ qs \in Seq(Upcoming) /\ Len(qs) = k - 1
    /\ \A i \in 1 .. (k - 1) : qs[i].row = c[i].row /\ c[i].indent <= qs[i].indent
                               /\ qs[i].indent <= Len(Symbols(c[i].row))

\* What is then to come.
AfterStamping(d, qs, c, k) ==
    /\ Stream(d) /\ Within(d, c) /\ DOMAIN d = 1 .. (Len(c) - 1)
    /\ \A i \in 1 .. (k - 1) : d[i] = qs[i]
    /\ \A i \in k .. (Len(c) - 1) : d[i] = c[i + 1]
    /\ \A i \in DOMAIN d : i < k => i \in DOMAIN c
    /\ \A i \in DOMAIN d : ~(i < k) => i + 1 \in DOMAIN c
    /\ \A i \in DOMAIN d : d[i].row # c[k].row

LEMMA StampedIs ==
    ASSUME Program, NEW c, Stream(c), NEW k, NEW qs, Stamped(qs, c, k),
           NEW d, d = qs \o Rest(c, k)
    PROVE  AfterStamping(d, qs, c, k)
<1> DEFINE r == Rest(c, k)
           n == Len(c)
<1>0. d = qs \o r
  OBVIOUS
<1>1. /\ c \in Seq(Upcoming) /\ n \in Nat /\ DOMAIN c = 1 .. n /\ k \in 1 .. n
      /\ \A i \in DOMAIN c : c[i].row \in DOMAIN text /\ c[i].row \in Nat
  BY StreamIs DEF Stamped
<1>2. qs \in Seq(Upcoming) /\ Len(qs) = k - 1
  BY DEF Stamped
<1>3. r \in Seq(Upcoming) /\ Len(r) = n - k /\ \A i \in 1 .. (n - k) : r[i] = c[k + i]
  <2>1. k \in 0 .. Len(c)
    BY <1>1
  <2> QED BY <1>1, <2>1, RestIs
<1> HIDE DEF r, n
<1>4. /\ d \in Seq(Upcoming) /\ Len(d) = Len(qs) + Len(r)
      /\ \A i \in 1 .. (Len(qs) + Len(r)) : d[i] = IF i <= Len(qs) THEN qs[i] ELSE r[i - Len(qs)]
  <2>1. /\ qs \o r \in Seq(Upcoming) /\ Len(qs \o r) = Len(qs) + Len(r)
        /\ \A i \in 1 .. (Len(qs) + Len(r)) : (qs \o r)[i] = IF i <= Len(qs) THEN qs[i] ELSE r[i - Len(qs)]
    BY <1>2, <1>3, ConcatProperties
  <2> QED BY <1>0, <2>1
<1>5. Len(qs) + Len(r) = n - 1
  BY <1>1, <1>2, <1>3
<1>6. DOMAIN d = 1 .. (n - 1)
  BY <1>4, <1>5, LenProperties
<1>7. ASSUME NEW i \in DOMAIN d, i < k PROVE i \in 1 .. (k - 1) /\ i \in DOMAIN c /\ d[i] = qs[i]
  BY <1>1, <1>2, <1>4, <1>5, <1>6, <1>7
<1>8. ASSUME NEW i \in DOMAIN d, ~(i < k) PROVE i + 1 \in DOMAIN c /\ d[i] = c[i + 1] /\ k < i + 1
  <2>1. i - Len(qs) \in 1 .. (n - k) /\ k + (i - Len(qs)) = i + 1 /\ ~(i <= Len(qs))
    BY <1>1, <1>2, <1>6, <1>8
  <2>2. d[i] = r[i - Len(qs)]
    BY <1>4, <1>5, <1>6, <2>1
  <2> QED BY <1>1, <1>3, <1>6, <1>8, <2>1, <2>2
<1>9. ASSUME NEW i \in DOMAIN d, i < k
      PROVE  d[i].row = c[i].row /\ d[i].indent <= Len(Symbols(d[i].row)) /\ i \in DOMAIN c /\ i < k
  BY <1>7, <1>9 DEF Stamped
<1>10. \A i \in DOMAIN d : \E j \in DOMAIN c :
          /\ d[i].row = c[j].row /\ (i < k => j = i) /\ (~(i < k) => j = i + 1) /\ j # k
  <2> TAKE i \in DOMAIN d
  <2>1. CASE i < k
    BY <1>1, <1>9, <2>1
  <2>2. CASE ~(i < k)
    BY <1>1, <1>8, <2>2
  <2> QED BY <2>1, <2>2
<1>11. Within(d, c)
  BY <1>10 DEF Within
<1>12. ASSUME NEW i \in DOMAIN d, NEW j \in DOMAIN d, i < j PROVE d[i].row < d[j].row
  <2>1. PICK x \in DOMAIN c : d[i].row = c[x].row /\ (i < k => x = i) /\ (~(i < k) => x = i + 1)
    BY <1>10
  <2>2. PICK y \in DOMAIN c : d[j].row = c[y].row /\ (j < k => y = j) /\ (~(j < k) => y = j + 1)
    BY <1>10
  <2>3. x < y
    BY <1>1, <1>6, <1>12, <2>1, <2>2
  <2>4. c[x].row < c[y].row
    BY <2>3 DEF Stream
  <2> QED BY <2>1, <2>2, <2>4
<1>13. \A i \in DOMAIN d : d[i].row \in DOMAIN text /\ d[i].indent <= Len(Symbols(d[i].row))
  <2> TAKE i \in DOMAIN d
  <2>1. CASE i < k
    BY <1>1, <1>9, <2>1
  <2>2. CASE ~(i < k)
    BY <1>8, <2>2 DEF Stream
  <2> QED BY <2>1, <2>2
<1>14. Stream(d)
  BY <1>4, <1>12, <1>13 DEF Stream
<1>15. \A i \in DOMAIN d : d[i].row # c[k].row
  <2> TAKE i \in DOMAIN d
  <2>1. PICK j \in DOMAIN c : d[i].row = c[j].row /\ j # k
    BY <1>10
  <2>2. k \in DOMAIN c /\ (j < k \/ k < j)
    BY <1>1, <2>1
  <2>3. c[j].row < c[k].row \/ c[k].row < c[j].row
    BY <2>2 DEF Stream
  <2> QED BY <1>1, <2>1, <2>2, <2>3
<1>16. \A i \in 1 .. (k - 1) : i \in DOMAIN d /\ i < k
  BY <1>1, <1>6
<1>17. \A i \in k .. (n - 1) : i \in DOMAIN d /\ ~(i < k)
  BY <1>1, <1>6
<1> QED BY <1>6, <1>7, <1>8, <1>11, <1>14, <1>15, <1>16, <1>17 DEF AfterStamping, r, n

\* The line of a row that is read to its end under a bound.
LEMMA WholeLine ==
    ASSUME SourceInv, NEW b, BoundOK(b), NEW i \in DOMAIN Coming, Reaches(b, Coming[i].row),
           b # Nothing /\ Coming[i].row = b.row => Coming[i].indent <= b.col
    PROVE  LET l == LineAt(i, b) IN
           /\ Held(l, b) /\ l.row = Coming[i].row /\ l.pos = Coming[i].indent /\ l.pos <= l.len
           /\ Leading(l) \in Nat /\ Leading(l) <= l.len - l.pos
           /\ l.pos \in Nat /\ l.len \in Nat /\ l.len <= Len(Symbols(Coming[i].row))
<1> DEFINE l == LineAt(i, b)
<1>1. Program /\ Stream(Coming) /\ number \in Nat
  BY SourceIs
<1>2. Held(l, b) /\ l.row = Coming[i].row /\ l.pos = Coming[i].indent
  BY <1>1, LineAtIs
<1> HIDE DEF l
<1>3. l \in LineRecord /\ l.row \in DOMAIN text /\ l = SetEof(l, b)
  BY <1>2 DEF Held
<1>4. l.len = IF b = Nothing \/ b.row > l.row THEN Len(Symbols(l.row))
              ELSE IF b.row = l.row THEN b.col ELSE 0
  BY <1>1, <1>3, SetEofIs
<1>5. /\ Coming[i].indent \in Nat /\ Coming[i].indent <= Len(Symbols(l.row)) /\ l.row \in Nat
      /\ Len(Symbols(l.row)) \in Nat
  BY <1>1, <1>2, StreamIs, RowsAre
<1>6. b # Nothing => b.row \in Nat /\ b.col \in Nat /\ l.row <= b.row
  BY <1>2 DEF Reaches, BoundOK, BoundRecord
<1>7. l.pos <= l.len
  BY <1>2, <1>4, <1>5, <1>6
<1>8. Leading(l) \in Nat /\ Leading(l) <= l.len - l.pos
  BY <1>1, <1>2, <1>7, LeadingIs
<1>9. l.pos \in Nat /\ l.len \in Nat /\ l.len <= Len(Symbols(l.row))
  BY <1>1, <1>2, HeldIs
<1> QED BY <1>2, <1>7, <1>8, <1>9 DEF l

\* The columns that stamping takes from row i of the body.
Margin(qs, c, i) == {<<c[i].row, d>> : d \in c[i].indent .. (qs[i].indent - 1)}

\* A here-document has begun.
HeredocBegun(h, k, qs) ==
    LET b == IF h = 0 THEN Nothing ELSE stack[h].bound
        f == [line |-> [line EXCEPT !.pos = line.pos + 1], bound |-> [row |-> Coming[k].row, col |-> 0]]
    IN  /\ h \in 0 .. Len(stack)
        /\ \A i \in DOMAIN stack : h < i => Past(stack[i].bound.row, Coming)
        /\ Reaches(b, Coming[k].row) /\ BoundOK(b)
        /\ Stamped(qs, Coming, k) /\ Coming' = qs \o Rest(Coming, k)
        /\ line' = Nothing /\ stack' = Append(stack, f) /\ f \in Frame /\ BoundOK(f.bound)
        /\ Held(f.line, Bound(stack)) /\ f.line.row = line.row
        /\ number' = line.number + 1 /\ ~steady'
        /\ last' = Append([last EXCEPT ![Len(last)] = <<line.row, line.pos>>], <<0, 0>>)
        /\ delivered' = delivered \cup {<<line.row, line.pos>>}
        /\ passed' = passed \cup Ahead(LineAt(k, b)) \cup UNION {Margin(qs, Coming, i) : i \in 1 .. (k - 1)}

LEMMA StartHeredocIs ==
    ASSUME SourceInv, StartHeredoc, status' # "error"
    PROVE  /\ Kept /\ line # Nothing /\ Held(line, Bound(stack)) /\ line.pos < line.len
           /\ \E h, k, qs : HeredocBegun(h, k, qs)
<1> DEFINE indented == At({"<<~"})
           b == HostBound
           ends == {k \in 1 .. Reach(b) : TerminatorMatches(LineAt(k, b), indented)}
           k == Min(ends)
           end == LineAt(k, b)
           indent == IF indented THEN Leading(end) ELSE 0
           body == SubSeq(Coming, 1, k - 1)
           empty(i) == LineAt(i, b).pos = LineAt(i, b).len
           qs == [i \in 1 .. (k - 1) |-> IF empty(i) THEN body[i] ELSE [body[i] EXCEPT !.indent = @ + indent]]
           f == [line |-> [line EXCEPT !.pos = line.pos + 1], bound |-> [row |-> Coming[k].row, col |-> 0]]
<1>1. {"<<", "<<~"} \in SUBSET Symbol
  BY DEF Symbol
<1>2. At({"<<", "<<~"})
  BY DEF StartHeredoc
<1>3. /\ line # Nothing /\ Held(line, Bound(stack)) /\ line.pos < line.len
      /\ line.pos \in Nat /\ line.row \in DOMAIN text
  BY <1>1, <1>2, AtIs
<1>4. /\ ends # {}
      /\ ~ \E i \in 1 .. (k - 1) : ~empty(i) /\ Leading(LineAt(i, b)) < indent
      /\ Take(k, qs)
      /\ number' = line.number + 1 /\ line' = Nothing /\ steady' = FALSE
      /\ Push(SetEof([line EXCEPT !.pos = @ + 1], Bound(stack)), [row |-> end.row, col |-> 0])
      /\ passed' = passed \cup Ahead(end)
            \cup UNION {{<<body[i].row, c>> : c \in body[i].indent .. (qs[i].indent - 1)} : i \in 1 .. (k - 1)}
  BY DEF StartHeredoc, Unterminated
<1>5. /\ Program /\ Sourced /\ Stream(Coming) /\ Bodies(stack, Coming) /\ BoundOK(Bound(stack))
      /\ Fits(line, Coming, stack) /\ Past(line.row, Coming)
      /\ Len(Coming) \in Nat /\ DOMAIN Coming = 1 .. Len(Coming) /\ Coming \in Seq(Upcoming)
  BY <1>3, SourceIs
<1>6. PICK h \in 0 .. Len(stack) :
        /\ b = IF h = 0 THEN Nothing ELSE stack[h].bound
        /\ \A i \in DOMAIN stack : h < i => Past(stack[i].bound.row, Coming)
  BY <1>3, <1>5, HostIs
<1>7. /\ DOMAIN stack = 1 .. Len(stack) /\ Len(stack) \in Nat
      /\ \A i \in DOMAIN stack : BoundOK(stack[i].bound) /\ stack[i].bound \in BoundRecord
  BY <1>5, BoundsAreOK
<1>8. h # 0 => h \in DOMAIN stack
  BY <1>6, <1>7
<1>9. BoundOK(b)
  BY <1>6, <1>7, <1>8 DEF BoundOK
<1> HIDE DEF b
<1>10. /\ Reach(b) \in 0 .. Len(Coming)
       /\ \A i \in DOMAIN Coming : i <= Reach(b) <=> Reaches(b, Coming[i].row)
  BY <1>5, <1>9, ReachIs
<1>11. k \in 1 .. Reach(b)
  <2>1. ends \in SUBSET Nat
    BY <1>10
  <2>2. k \in ends
    BY <1>4, <2>1, LeastIs
  <2> QED BY <2>2
<1> HIDE DEF k, ends
<1>12. k \in DOMAIN Coming /\ k \in Nat /\ 1 <= k /\ Reaches(b, Coming[k].row)
  BY <1>5, <1>10, <1>11
<1>13. ASSUME NEW i \in DOMAIN Coming
       PROVE  b # Nothing /\ Coming[i].row = b.row => Coming[i].indent <= b.col
  BY <1>5, <1>6, <1>8 DEF Bodies, Body
<1>14. /\ Held(end, b) /\ end.row = Coming[k].row /\ Leading(end) \in Nat
  BY <1>9, <1>12, <1>13, WholeLine
<1>15. indent \in Nat
  BY <1>14
<1> HIDE DEF indented, end, indent
<1>16. \A i \in 1 .. (k - 1) : body[i] = Coming[i]
  <2>1. (k - 1) \in Int /\ 1 \in Int /\ \A i \in 1 .. (k - 1) : Coming[i] \in Upcoming
    BY <1>5, <1>12, StreamIs
  <2>2. \A i \in 1 .. ((k - 1) - 1 + 1) : body[i] = Coming[1 + i - 1]
    BY <2>1, SubSeqProperties
  <2>3. ASSUME NEW i \in 1 .. (k - 1) PROVE body[i] = Coming[i]
    <3>1. i \in 1 .. ((k - 1) - 1 + 1) /\ 1 + i - 1 = i
      BY <1>12
    <3> QED BY <2>2, <3>1
  <2> QED BY <2>3
<1> HIDE DEF body
<1>17. ASSUME NEW i \in 1 .. (k - 1)
       PROVE  /\ i \in DOMAIN Coming /\ Coming[i] \in Upcoming /\ qs[i] \in Upcoming
              /\ qs[i].row = Coming[i].row /\ Coming[i].indent <= qs[i].indent
              /\ qs[i].indent <= Len(Symbols(Coming[i].row))
  <2>1. i \in DOMAIN Coming /\ i <= Reach(b)
    BY <1>5, <1>10, <1>11, <1>12
  <2>2. /\ Coming[i] \in Upcoming /\ Coming[i].row \in Nat /\ Coming[i].indent \in Nat
        /\ Coming[i].row \in DOMAIN text /\ Coming[i].indent <= Len(Symbols(Coming[i].row))
    BY <1>5, <2>1, StreamIs
  <2> DEFINE l == LineAt(i, b)
  <2>3. /\ l.pos = Coming[i].indent /\ Leading(l) \in Nat /\ Leading(l) <= l.len - l.pos
        /\ l.pos \in Nat /\ l.len \in Nat /\ l.len <= Len(Symbols(Coming[i].row))
    BY <1>9, <1>10, <1>13, <2>1, WholeLine
  <2>4. ~empty(i) => ~(Leading(l) < indent)
    BY <1>4
  <2>5. qs[i] = IF l.pos = l.len THEN Coming[i] ELSE [Coming[i] EXCEPT !.indent = @ + indent]
    BY <1>16
  <2>6. Len(Symbols(Coming[i].row)) \in Nat
    BY <1>5, <2>2, RowsAre
  <2>7. CASE l.pos = l.len
    BY <2>1, <2>2, <2>5, <2>7
  <2>8. CASE l.pos # l.len
    <3> HIDE DEF l
    <3>1. indent <= l.len - l.pos
      BY <1>15, <2>3, <2>4, <2>8 DEF l
    <3>2. qs[i] = [Coming[i] EXCEPT !.indent = Coming[i].indent + indent]
      BY <2>5, <2>8
    <3>3. /\ Coming[i].indent + indent \in Nat /\ Coming[i].indent <= Coming[i].indent + indent
          /\ Coming[i].indent + indent <= Len(Symbols(Coming[i].row))
      BY <1>15, <2>2, <2>3, <2>6, <3>1
    <3> HIDE DEF qs
    <3> QED BY <2>1, <2>2, <3>2, <3>3 DEF Upcoming
  <2> QED BY <2>7, <2>8
<1>18. qs \in Seq(Upcoming) /\ Len(qs) = k - 1
  <2>1. DOMAIN qs = 1 .. (k - 1) /\ qs = [i \in 1 .. (k - 1) |-> qs[i]]
    OBVIOUS
  <2> HIDE DEF qs
  <2>2. qs \in [1 .. (k - 1) -> Upcoming]
    BY <1>17, <2>1, Zenon
  <2>3. k - 1 \in Nat
    BY <1>12
  <2> QED BY <2>2, <2>3
<1> HIDE DEF qs
<1>19. Stamped(qs, Coming, k)
  BY <1>12, <1>17, <1>18 DEF Stamped
<1> DEFINE d == qs \o Rest(Coming, k)
<1>20. /\ Stream(d) /\ Within(d, Coming) /\ DOMAIN d = 1 .. (Len(Coming) - 1)
       /\ \A i \in 1 .. (k - 1) : d[i] = qs[i]
       /\ \A i \in k .. (Len(Coming) - 1) : d[i] = Coming[i + 1]
       /\ \A i \in DOMAIN d : i < k => i \in DOMAIN Coming
       /\ \A i \in DOMAIN d : ~(i < k) => i + 1 \in DOMAIN Coming
       /\ \A i \in DOMAIN d : d[i].row # Coming[k].row
  <2> HIDE DEF d
  <2>1. d = qs \o Rest(Coming, k)
    BY DEF d
  <2>2. AfterStamping(d, qs, Coming, k)
    BY <1>5, <1>19, <2>1, StampedIs
  <2> QED BY <2>2 DEF AfterStamping
<1>21. unread' \in 1 .. (Len(text) + 1) /\ queue' \in Seq(Upcoming) /\ Coming' = d /\ text' = text
  <2>1. k \in 0 .. Len(Coming) /\ text' = text
    BY <1>4, <1>5, <1>12 DEF Push
  <2> QED BY <1>4, <1>5, <1>18, <2>1, TakeIs
<1> HIDE DEF d
<1>22. ASSUME NEW x \in DOMAIN d, NEW i \in DOMAIN stack, d[x].row = stack[i].bound.row
       PROVE  d[x].indent <= stack[i].bound.col
  <2>1. \A y \in DOMAIN Coming : Coming[y].row = stack[i].bound.row => Coming[y].indent <= stack[i].bound.col
    BY <1>5 DEF Bodies, Body
  <2>2. CASE ~(x < k)
    <3>1. x \in k .. (Len(Coming) - 1)
      BY <1>5, <1>12, <1>20, <2>2
    <3>2. x + 1 \in DOMAIN Coming /\ d[x] = Coming[x + 1]
      BY <1>20, <2>2, <3>1
    <3> QED BY <1>22, <2>1, <3>2
  <2>3. CASE x < k
    <3>1. x \in 1 .. (k - 1) /\ x \in DOMAIN Coming
      BY <1>12, <1>20, <2>3
    <3>2. d[x].row = Coming[x].row
      BY <1>17, <1>20, <3>1
    <3>3. Coming[x].row < Coming[k].row
      BY <1>5, <1>12, <2>3, <3>1 DEF Stream
    <3>4. Coming[x].row \in Nat /\ Coming[k].row \in Nat
      BY <1>5, <1>12, <3>1, StreamIs
    <3>5. ~Past(stack[i].bound.row, Coming)
      BY <1>22, <3>1, <3>2, <3>4 DEF Past
    <3>6. ~(h < i)
      BY <1>6, <3>5
    <3>7. h # 0 /\ h \in DOMAIN stack /\ h \in Nat /\ i \in Nat /\ i <= h
      BY <1>6, <1>7, <3>6
    <3>8. stack[h].bound \in BoundRecord /\ stack[h].bound.row \in Nat /\ Coming[k].row <= stack[h].bound.row
      BY <1>6, <1>7, <1>12, <3>7, NothingIsNone DEF Reaches, BoundRecord
    <3>9. CASE i = h
      <4>1. d[x].row = stack[h].bound.row
        BY <1>22, <3>9
      <4>2. Coming[x].row < stack[h].bound.row
        BY <3>3, <3>4, <3>8
      <4> QED BY <3>2, <3>4, <3>8, <4>1, <4>2
    <3>10. CASE i # h
      <4>1. i \in 1 .. (h - 1)
        BY <1>7, <3>7, <3>10
      <4>2. Body(stack, h, Coming)
        BY <1>5, <3>7 DEF Bodies
      <4>3. stack[h].bound.row <= stack[i].bound.row
        BY <3>5, <4>1, <4>2 DEF Body
      <4> QED BY <1>22, <3>2, <3>3, <3>4, <3>8, <4>3
    <3> QED BY <3>9, <3>10
  <2> QED BY <2>2, <2>3
<1>23. Bodies(stack, d)
  BY <1>5, <1>20, <1>22, BodiesWithin
<1>24. /\ f \in Frame /\ f.line = [line EXCEPT !.pos = line.pos + 1]
       /\ f.bound = [row |-> Coming[k].row, col |-> 0] /\ f.bound.row = Coming[k].row /\ f.bound.col = 0
       /\ Held(f.line, Bound(stack)) /\ f.line.row = line.row /\ BoundOK(f.bound)
       /\ f.line = SetEof([line EXCEPT !.pos = line.pos + 1], Bound(stack))
  <2> DEFINE m == [line EXCEPT !.pos = line.pos + 1]
  <2>1. line.pos + 1 \in Nat /\ line \in LineRecord
    BY <1>3, <1>5, HeldIs
  <2>2. Held(m, Bound(stack)) /\ m = SetEof(m, Bound(stack)) /\ m.row = line.row
    BY <1>3, <1>5, <2>1, MovedHeld DEF LineRecord
  <2> HIDE DEF m
  <2>3. m \in LineRecord
    BY <2>2 DEF Held
  <2>4. Coming[k].row \in Nat /\ Coming[k].row \in DOMAIN text /\ Len(Symbols(Coming[k].row)) \in Nat
    BY <1>5, <1>12, StreamIs, RowsAre
  <2>5. f = [line |-> m, bound |-> [row |-> Coming[k].row, col |-> 0]]
    BY DEF m
  <2> HIDE DEF f
  <2>6. f \in Frame /\ f.bound \in BoundRecord
    BY <2>3, <2>4, <2>5 DEF Frame, BoundRecord
  <2>7. f.line = m /\ f.bound = [row |-> Coming[k].row, col |-> 0] /\ f.bound.row = Coming[k].row /\ f.bound.col = 0
    BY <2>5
  <2>8. BoundOK(f.bound)
    BY <2>4, <2>6, <2>7 DEF BoundOK
  <2> QED BY <2>2, <2>6, <2>7, <2>8 DEF m
<1>25. ASSUME NEW j \in DOMAIN stack
       PROVE  Coming[k].row <= stack[j].bound.row \/ Past(stack[j].bound.row, d)
  <2>1. Coming[k].row \in Nat /\ stack[j].bound \in BoundRecord /\ stack[j].bound.row \in Nat
    BY <1>5, <1>7, <1>12, StreamIs DEF BoundRecord
  <2>2. CASE h < j
    BY <1>6, <1>20, <2>2, PastWithin
  <2>3. CASE ~(h < j)
    <3>1. h # 0 /\ h \in DOMAIN stack /\ (j = h \/ j \in 1 .. (h - 1))
      BY <1>6, <1>7, <2>3
    <3>2. stack[h].bound \in BoundRecord /\ stack[h].bound.row \in Nat /\ Coming[k].row <= stack[h].bound.row
      BY <1>6, <1>7, <1>12, <3>1, NothingIsNone DEF Reaches, BoundRecord
    <3>3. j # h => stack[h].bound.row <= stack[j].bound.row \/ Past(stack[j].bound.row, d)
      <4>1. Body(stack, h, d)
        BY <1>23, <3>1 DEF Bodies
      <4> QED BY <3>1, <4>1 DEF Body
    <3> QED BY <2>1, <3>1, <3>2, <3>3
  <2> QED BY <2>2, <2>3
<1>26. stack' = Append(stack, f)
  BY <1>4, <1>14, <1>24 DEF Push
<1>27. f.line.row <= f.bound.row
  <2>1. line.row < Coming[k].row
    BY <1>5, <1>12 DEF Past
  <2>2. line.row \in Nat /\ Coming[k].row \in Nat
    BY <1>3, <1>5, <1>12, StreamIs, RowsAre
  <2> QED BY <1>24, <2>1, <2>2
<1> HIDE DEF f
<1>28. Bodies(Append(stack, f), d)
  <2>1. \A x \in DOMAIN d : d[x].row = f.bound.row => d[x].indent <= f.bound.col
    BY <1>20, <1>24
  <2>2. \A j \in DOMAIN stack : f.bound.row <= stack[j].bound.row \/ Past(stack[j].bound.row, d)
    BY <1>24, <1>25
  <2> QED BY <1>5, <1>23, <1>24, <1>27, <2>1, <2>2, PushFits
<1>29. Fits(line', Coming', stack')
  BY <1>4, <1>20, <1>21, <1>26, <1>28 DEF Fits
<1>30. number' \in Nat /\ line.number \in Nat
  BY <1>3, <1>4, <1>5, HeldIs
<1>31. Kept
  BY <1>21, <1>29, <1>30 DEF Kept
<1>32. passed' = passed \cup Ahead(end) \cup UNION {Margin(qs, Coming, i) : i \in 1 .. (k - 1)}
  <2>1. \A i \in 1 .. (k - 1) :
            {<<body[i].row, c>> : c \in body[i].indent .. (qs[i].indent - 1)} = Margin(qs, Coming, i)
    <3> SUFFICES ASSUME NEW i \in 1 .. (k - 1)
                 PROVE  {<<body[i].row, c>> : c \in body[i].indent .. (qs[i].indent - 1)} = Margin(qs, Coming, i)
      OBVIOUS
    <3>1. body[i] = Coming[i]
      BY <1>16
    <3> QED BY <3>1 DEF Margin
  <2>2. {{<<body[i].row, c>> : c \in body[i].indent .. (qs[i].indent - 1)} : i \in 1 .. (k - 1)}
            = {Margin(qs, Coming, i) : i \in 1 .. (k - 1)}
    <3> DEFINE F(i) == {<<body[i].row, c>> : c \in body[i].indent .. (qs[i].indent - 1)}
               M(i) == Margin(qs, Coming, i)
    <3>1. \A i \in 1 .. (k - 1) : F(i) = M(i)
      BY <2>1
    <3> HIDE DEF F, M
    <3>2. {F(i) : i \in 1 .. (k - 1)} = {M(i) : i \in 1 .. (k - 1)}
      BY <3>1
    <3> QED BY <3>2 DEF F, M
  <2> QED BY <1>4, <2>2
<1>33. /\ last' = Append([last EXCEPT ![Len(last)] = <<line.row, line.pos>>], <<0, 0>>)
       /\ delivered' = delivered \cup {<<line.row, line.pos>>}
  BY <1>4 DEF Push
<1>34. HeredocBegun(h, k, qs)
  BY <1>4, <1>6, <1>9, <1>12, <1>19, <1>21, <1>24, <1>26, <1>32, <1>33 DEF HeredocBegun, d, f, end
<1> QED BY <1>3, <1>31, <1>34

\* The lines a scan walks over, and the delimiters it finds.
LEMMA ScanLineIs ==
    ASSUME SourceInv, line # Nothing, NEW k \in 0 .. Reach(Bound(stack))
    PROVE  /\ Held(ScanLine(k), Bound(stack))
           /\ k = 0 => ScanLine(k) = [line EXCEPT !.pos = line.pos + 1] /\ ScanLine(k).row = line.row
                       /\ ScanLine(k).pos = line.pos + 1
           /\ k # 0 => /\ k \in DOMAIN Coming /\ ScanLine(k) = LineAt(k, Bound(stack))
                       /\ ScanLine(k).row = Coming[k].row /\ ScanLine(k).pos = Coming[k].indent
<1>1. /\ Program /\ Stream(Coming) /\ number \in Nat /\ BoundOK(Bound(stack)) /\ Held(line, Bound(stack))
      /\ Reach(Bound(stack)) \in 0 .. Len(Coming) /\ Len(Coming) \in Nat /\ DOMAIN Coming = 1 .. Len(Coming)
      /\ \A i \in DOMAIN Coming : i <= Reach(Bound(stack)) <=> Reaches(Bound(stack), Coming[i].row)
  BY SourceIs
<1>2. CASE k = 0
  <2>1. line \in LineRecord /\ line.pos + 1 \in Nat
    BY <1>1, HeldIs
  <2>2. ScanLine(k) = [line EXCEPT !.pos = line.pos + 1]
    BY <1>2 DEF ScanLine
  <2>3. Held([line EXCEPT !.pos = line.pos + 1], Bound(stack))
    BY <1>1, <2>1, MovedHeld
  <2> QED BY <1>2, <2>1, <2>2, <2>3 DEF LineRecord
<1>3. CASE k # 0
  <2>1. k \in DOMAIN Coming /\ Reaches(Bound(stack), Coming[k].row)
    BY <1>1, <1>3
  <2>2. ScanLine(k) = LineAt(k, Bound(stack))
    BY <1>3 DEF ScanLine
  <2>3. /\ Held(LineAt(k, Bound(stack)), Bound(stack)) /\ LineAt(k, Bound(stack)).row = Coming[k].row
        /\ LineAt(k, Bound(stack)).pos = Coming[k].indent
    BY <1>1, <2>1, LineAtIs
  <2> QED BY <1>3, <2>1, <2>2, <2>3
<1> QED BY <1>2, <1>3

LEMMA ClosersAre ==
    ASSUME SourceInv, line # Nothing, NEW open, NEW close \in Symbol
    PROVE  /\ Closers(open, close) \in SUBSET (Nat \X Nat)
           /\ \A p \in Closers(open, close) :
                /\ p[1] \in 0 .. Reach(Bound(stack)) /\ p[2] \in Nat
                /\ ScanLine(p[1]).pos <= p[2] /\ p[2] < ScanLine(p[1]).len
<1> DEFINE b == Bound(stack)
<1>1. Program /\ BoundOK(b) /\ Reach(b) \in Nat
  BY SourceIs
<1>2. ASSUME NEW p \in Closers(open, close)
      PROVE  p \in Walked /\ PeekAt(ScanLine(p[1]), p[2]) = close
  BY DEF Closers
<1>3. ASSUME NEW p \in Closers(open, close)
      PROVE  /\ p \in Nat \X Nat /\ p[1] \in 0 .. Reach(b) /\ p[2] \in Nat
             /\ ScanLine(p[1]).pos <= p[2] /\ p[2] < ScanLine(p[1]).len
  <2>1. PICK k \in 0 .. Reach(b) : p \in {<<k, o[2]>> : o \in Ahead(ScanLine(k))}
    BY <1>2, <1>3 DEF Walked
  <2>2. PICK o \in Ahead(ScanLine(k)) : p = <<k, o[2]>>
    BY <2>1
  <2>3. Held(ScanLine(k), b)
    BY ScanLineIs
  <2>4. /\ o[1] \in DOMAIN text /\ o[2] \in Columns(o[1]) /\ o = <<o[1], o[2]>>
        /\ Gives(ScanLine(k), b, o[1], o[2])
    BY <1>1, <2>3, AheadGives
  <2>5. o[2] \in Nat /\ ScanLine(k).pos <= o[2]
    BY <2>4 DEF Columns, Gives
  <2>6. p[1] = k /\ p[2] = o[2] /\ k \in Nat
    BY <1>1, <2>2
  <2>7. PeekAt(ScanLine(k), o[2]) \in Symbol
    BY <1>2, <1>3, <2>6
  <2>8. o[2] < ScanLine(k).len
    BY <1>1, <2>3, <2>5, <2>7, PeekIs
  <2> QED BY <2>2, <2>5, <2>6, <2>8
<1> QED BY <1>3

\* A delimited body has begun.
DelimitedBegun(k, col) ==
    LET ends == ScanLine(k)
        bound == [row |-> ends.row, col |-> col]
        f == [line |-> [ends EXCEPT !.pos = col + 1], bound |-> bound]
    IN  /\ k \in 0 .. Reach(Bound(stack)) /\ Held(ends, Bound(stack))
        /\ col \in Nat /\ ends.pos <= col /\ col < ends.len
        /\ BoundOK(bound) /\ f \in Frame /\ Held(f.line, Bound(stack)) /\ f.line.row = ends.row
        /\ Coming' = Coming /\ stack' = Append(stack, f)
        /\ line' = SetEof([line EXCEPT !.pos = line.pos + 1], bound) /\ Held(line', bound)
        /\ line'.row = line.row /\ line'.pos = line.pos + 1 /\ line'.number = line.number
        /\ line.row <= bound.row
        /\ number' = line.number + 1 /\ steady' = steady
        /\ last' = Append([last EXCEPT ![Len(last)] = <<line.row, line.pos>>], <<0, 0>>)
        /\ delivered' = delivered \cup {<<line.row, line.pos>>}
        /\ passed' = passed \cup {<<ends.row, col>>}

LEMMA StartDelimitedBodyIs ==
    ASSUME SourceInv, StartDelimitedBody, status' # "error"
    PROVE  /\ Kept /\ line # Nothing /\ Held(line, Bound(stack)) /\ line.pos < line.len
           /\ \E k, col : DelimitedBegun(k, col)
<1> DEFINE open == PeekAt(line, line.pos)
           close == IF open = "(" THEN ")" ELSE open
           closers == Closers(open, close)
           closer == First(closers)
           k == closer[1]
           col == closer[2]
           ends == ScanLine(k)
           bound == [row |-> ends.row, col |-> col]
           e == [ends EXCEPT !.pos = col + 1]
           f == [line |-> e, bound |-> bound]
           m == [line EXCEPT !.pos = line.pos + 1]
<1>1. {"(", "quote"} \in SUBSET Symbol /\ ")" \in Symbol
  BY DEF Symbol
<1>2. At({"(", "quote"})
  BY DEF StartDelimitedBody
<1>3. /\ line # Nothing /\ Held(line, Bound(stack)) /\ line.pos < line.len
      /\ line.pos \in Nat /\ line.row \in DOMAIN text
  BY <1>1, <1>2, AtIs
<1>4. close \in Symbol
  BY <1>1, <1>2 DEF At
<1>5. /\ closers # {}
      /\ Take(k, SubSeq(Coming, 1, k))
      /\ number' = line.number + 1
      /\ line' = SetEof([line EXCEPT !.pos = @ + 1], bound)
      /\ Push([ends EXCEPT !.pos = closer[2] + 1], bound)
      /\ passed' = passed \cup {<<bound.row, bound.col>>}
      /\ steady' = steady
  BY DEF StartDelimitedBody, Unterminated
<1> HIDE DEF open, close
<1>6. closers \in SUBSET (Nat \X Nat)
  BY <1>3, <1>4, ClosersAre
<1>7. closer \in closers
  <2> HIDE DEF closers
  <2> QED BY <1>5, <1>6, FirstIs
<1>8. /\ k \in 0 .. Reach(Bound(stack)) /\ col \in Nat
      /\ ends.pos <= col /\ col < ends.len
  BY <1>3, <1>4, <1>7, ClosersAre
<1> HIDE DEF closers, closer, k, col
<1>9. /\ Held(ends, Bound(stack))
      /\ k = 0 => ends.row = line.row
      /\ k # 0 => k \in DOMAIN Coming /\ ends.row = Coming[k].row /\ ends.pos = Coming[k].indent
  BY <1>3, <1>8, ScanLineIs
<1> HIDE DEF ends
<1>10. /\ Program /\ Sourced /\ Stream(Coming) /\ Bodies(stack, Coming) /\ BoundOK(Bound(stack))
       /\ Past(line.row, Coming)
       /\ Reach(Bound(stack)) \in 0 .. Len(Coming)
       /\ Len(Coming) \in Nat /\ DOMAIN Coming = 1 .. Len(Coming) /\ Coming \in Seq(Upcoming)
  BY <1>3, SourceIs
<1>11. /\ ends \in LineRecord /\ ends.row \in DOMAIN text /\ ends.row \in Nat /\ ends.len \in Nat
       /\ ends.pos \in Nat /\ ends.len <= Len(Symbols(ends.row)) /\ Len(Symbols(ends.row)) \in Nat
       /\ line \in LineRecord /\ line.row \in Nat /\ line.number \in Nat
  BY <1>3, <1>9, <1>10, HeldIs, RowsAre
<1>12. /\ bound \in BoundRecord /\ BoundOK(bound) /\ bound.row = ends.row /\ bound.col = col
       /\ bound # Nothing
  BY <1>8, <1>11, NothingIsNone DEF BoundRecord, BoundOK
<1>13. Held(e, Bound(stack)) /\ e.row = ends.row /\ e \in LineRecord
  <2>1. col + 1 \in Nat
    BY <1>8
  <2>2. Held(e, Bound(stack)) /\ e.row = ends.row
    BY <1>9, <1>10, <1>11, <2>1, MovedHeld DEF LineRecord
  <2> QED BY <2>2 DEF Held
<1> HIDE DEF bound, e
<1>14. f \in Frame /\ f.line = e /\ f.bound = bound
  BY <1>12, <1>13 DEF Frame
<1>15. Coming' = Coming /\ text' = text /\ unread' \in 1 .. (Len(text) + 1) /\ queue' \in Seq(Upcoming)
  <2>1. k \in 0 .. Len(Coming) /\ text' = text
    BY <1>5, <1>8, <1>10 DEF Push
  <2>2. SubSeq(Coming, 1, k) \in Seq(Upcoming) /\ SubSeq(Coming, 1, k) \o Rest(Coming, k) = Coming
    BY <1>10, <2>1, Rejoined
  <2> QED BY <1>5, <1>10, <2>1, <2>2, TakeIs
<1>16. stack' = Append(stack, f)
  BY <1>5 DEF Push, e, col
<1> HIDE DEF f
<1>17. ASSUME NEW x \in DOMAIN Coming, Coming[x].row = bound.row
       PROVE  Coming[x].indent <= bound.col
  <2>1. \A y \in DOMAIN Coming : Coming[y].row \in Nat
    BY <1>10, StreamIs
  <2>2. CASE k = 0
    BY <1>9, <1>11, <1>12, <1>17, <2>1, <2>2, <1>10 DEF Past
  <2>3. CASE k # 0
    <3>1. k \in DOMAIN Coming /\ Coming[x].row = Coming[k].row
      BY <1>9, <1>12, <1>17, <2>3
    <3>2. ~(x < k) /\ ~(k < x)
      BY <1>10, <2>1, <3>1 DEF Stream
    <3>3. x = k
      BY <1>10, <3>1, <3>2
    <3> QED BY <1>8, <1>9, <1>12, <2>3, <3>3
  <2> QED BY <2>2, <2>3
<1>18. ASSUME NEW j \in DOMAIN stack
       PROVE  bound.row <= stack[j].bound.row \/ Past(stack[j].bound.row, Coming)
  <2>1. /\ Len(stack) \in DOMAIN stack /\ Bound(stack) = stack[Len(stack)].bound
        /\ DOMAIN stack = 1 .. Len(stack) /\ Len(stack) \in Nat
        /\ \A i \in DOMAIN stack : stack[i].bound \in BoundRecord
    BY <1>10, <1>18, BoundsAreOK
  <2>2. bound.row <= stack[Len(stack)].bound.row
    BY <1>9, <1>12, <2>1, NothingIsNone DEF Held, Reaches
  <2>3. CASE j = Len(stack)
    BY <2>2, <2>3
  <2>4. CASE j # Len(stack)
    <3>1. j \in 1 .. (Len(stack) - 1) /\ Body(stack, Len(stack), Coming)
      BY <1>10, <2>1, <2>4 DEF Bodies
    <3>2. stack[Len(stack)].bound.row <= stack[j].bound.row \/ Past(stack[j].bound.row, Coming)
      BY <3>1 DEF Body
    <3>3. stack[Len(stack)].bound.row \in Nat /\ stack[j].bound.row \in Nat /\ bound.row \in Nat
      BY <1>11, <1>12, <2>1 DEF BoundRecord
    <3> QED BY <2>2, <3>2, <3>3
  <2> QED BY <2>3, <2>4
<1>19. Bodies(Append(stack, f), Coming) /\ Bound(Append(stack, f)) = bound
  <2>1. f.line.row <= f.bound.row
    BY <1>11, <1>12, <1>13, <1>14
  <2> QED BY <1>10, <1>12, <1>13, <1>14, <1>17, <1>18, <2>1, PushFits
<1>20. line.row <= bound.row
  <2>1. k # 0 => line.row < Coming[k].row
    BY <1>9, <1>10 DEF Past
  <2> QED BY <1>9, <1>11, <1>12, <2>1
<1>21. /\ line' = SetEof(m, bound) /\ Held(line', bound) /\ line'.row = line.row
       /\ line'.pos = line.pos + 1 /\ line'.number = line.number
  <2>1. m \in LineRecord /\ m.row = line.row /\ m.pos = line.pos + 1 /\ m.number = line.number
    BY <1>3, <1>11 DEF LineRecord
  <2> HIDE DEF m
  <2>2. /\ SetEof(m, bound) \in LineRecord /\ SetEof(m, bound).row = m.row
        /\ SetEof(m, bound).pos = m.pos /\ SetEof(m, bound).number = m.number
    BY <1>3, <1>10, <1>12, <2>1, SetEofIs
  <2>3. SetEof(SetEof(m, bound), bound) = SetEof(m, bound)
    BY <1>3, <1>10, <1>12, <2>1, CutStays
  <2>4. line' = SetEof(m, bound)
    BY <1>5 DEF m
  <2>5. Reaches(bound, line.row)
    BY <1>20 DEF Reaches
  <2> QED BY <1>3, <2>1, <2>2, <2>3, <2>4, <2>5 DEF Held
<1>22. Fits(line', Coming', stack')
  BY <1>10, <1>15, <1>16, <1>19, <1>21 DEF Fits
<1>23. Kept
  BY <1>5, <1>11, <1>15, <1>22 DEF Kept
<1>24. /\ last' = Append([last EXCEPT ![Len(last)] = <<line.row, line.pos>>], <<0, 0>>)
       /\ delivered' = delivered \cup {<<line.row, line.pos>>}
       /\ passed' = passed \cup {<<ends.row, col>>}
  BY <1>5, <1>12 DEF Push
<1>25. DelimitedBegun(k, col)
  <2>1. number' = line.number + 1 /\ steady' = steady
    BY <1>5
  <2>2. /\ bound = [row |-> ScanLine(k).row, col |-> col] /\ ends = ScanLine(k)
        /\ f = [line |-> [ScanLine(k) EXCEPT !.pos = col + 1], bound |-> [row |-> ScanLine(k).row, col |-> col]]
    BY DEF bound, ends, f, e
  <2> QED BY <1>8, <1>9, <1>12, <1>13, <1>14, <1>15, <1>16, <1>20, <1>21, <1>24, <2>1, <2>2 DEF DelimitedBegun
<1> QED BY <1>3, <1>23, <1>25

-----------------------------------------------------------------------------
(* The invariant of the lines.                                             *)

LEMMA QuietKept ==
    ASSUME SourceInv, UNCHANGED <<text, source>>
    PROVE  Kept /\ Stays /\ line' = line /\ number' = number
<1>1. /\ text' = text /\ unread' = unread /\ queue' = queue /\ line' = line /\ stack' = stack
      /\ number' = number
  BY DEF source
<1>2. Coming' = Coming
  BY <1>1 DEF Coming
<1> QED BY <1>1, <1>2 DEF SourceInv, Sourced, Kept, Stays

\* A scan that fails changes nothing but the status.
LEMMA ScanFails ==
    ASSUME StartHeredoc \/ StartDelimitedBody, status' = "error"
    PROVE  UNCHANGED <<text, source, history>>
<1>1. status = "lexing"
  BY DEF StartHeredoc, StartDelimitedBody, Lexing
<1>2. ASSUME NEW intro, NEW bound PROVE ~Push(intro, bound)
  BY <1>1 DEF Push
<1>3. CASE StartHeredoc
  BY <1>2, <1>3 DEF StartHeredoc, Unterminated
<1>4. CASE StartDelimitedBody
  BY <1>2, <1>4 DEF StartDelimitedBody, Unterminated
<1> QED BY <1>3, <1>4

\* The steps that do something, and the others.
LEMMA StepsAre ==
    ASSUME [Next]_vars
    PROVE  \/ LoadLine \/ Byte \/ Word \/ Comment \/ Pod \/ EndBody
           \/ StartHeredoc /\ status' # "error"
           \/ StartDelimitedBody /\ status' # "error"
           \/ UNCHANGED <<text, source, history>>
<1>1. CASE Next
  BY <1>1, ScanFails DEF Next, Done
<1>2. CASE UNCHANGED vars
  BY <1>2 DEF vars
<1> QED BY <1>1, <1>2

LEMMA SourceInit ==
    ASSUME Init
    PROVE  /\ SourceInv /\ line = Nothing /\ stack = <<>> /\ number = 1
           /\ Len(Coming) = Len(text) /\ \A i \in DOMAIN Coming : Coming[i].row = i /\ Coming[i].indent = 0
           /\ shift = 0 /\ last = <<<<0, 0>>>> /\ delivered = {} /\ passed = {}
<1>1. PICK n \in 1 .. MaxRows, final \in BOOLEAN : \E rows \in [1 .. n -> Row] :
        Begin([i \in 1 .. n |-> [symbols |-> rows[i], terminated |-> i < n \/ final]])
  BY DEF Init
<1>2. PICK rows \in [1 .. n -> Row] :
        Begin([i \in 1 .. n |-> [symbols |-> rows[i], terminated |-> i < n \/ final]])
  BY <1>1
<1>3. MaxRows \in Nat /\ n \in Nat /\ n >= 1
  BY SourceLinesAssumption
<1> DEFINE prog == [i \in 1 .. n |-> [symbols |-> rows[i], terminated |-> i < n \/ final]]
<1>4. /\ text = prog /\ unread = 1 /\ queue = <<>> /\ line = Nothing /\ stack = <<>> /\ number = 1
      /\ shift = 0 /\ last = <<<<0, 0>>>> /\ delivered = {} /\ passed = {}
  BY <1>2 DEF Begin
<1>5. \A i \in 1 .. n : rows[i] \in Seq(Symbol) /\ (i < n \/ final) \in BOOLEAN
  BY SourceLinesAssumption
<1>6. DOMAIN prog = 1 .. n /\ \A i \in 1 .. n : prog[i] = [symbols |-> rows[i], terminated |-> i < n \/ final]
  OBVIOUS
<1>7. prog = [i \in 1 .. n |-> prog[i]]
  OBVIOUS
<1> HIDE DEF prog
<1>8. \A i \in 1 .. n : prog[i] \in [symbols : Seq(Symbol), terminated : BOOLEAN]
  <2>1. ASSUME NEW s \in Seq(Symbol), NEW t \in BOOLEAN
        PROVE  [symbols |-> s, terminated |-> t] \in [symbols : Seq(Symbol), terminated : BOOLEAN]
    OBVIOUS
  <2> TAKE i \in 1 .. n
  <2> DEFINE e == (i < n \/ final)
  <2>2. rows[i] \in Seq(Symbol) /\ e \in BOOLEAN
    BY <1>5
  <2>3. prog[i] = [symbols |-> rows[i], terminated |-> e]
    BY <1>6
  <2> HIDE DEF e
  <2> QED BY <2>1, <2>2, <2>3
<1>9. prog \in [1 .. n -> [symbols : Seq(Symbol), terminated : BOOLEAN]]
  BY <1>6, <1>7, <1>8, Zenon
<1>10. text \in Seq([symbols : Seq(Symbol), terminated : BOOLEAN]) /\ Len(text) = n
  <2>1. text \in Seq([symbols : Seq(Symbol), terminated : BOOLEAN])
    <3> DEFINE R == [symbols : Seq(Symbol), terminated : BOOLEAN]
    <3>1. prog \in [1 .. n -> R]
      BY <1>9
    <3> HIDE DEF R
    <3>2. prog \in Seq(R)
      BY <1>3, <3>1
    <3> QED BY <1>4, <3>2 DEF R
  <2>2. DOMAIN text = 1 .. n /\ DOMAIN text = 1 .. Len(text) /\ Len(text) \in Nat
    BY <1>4, <1>6, <2>1, LenProperties
  <2> QED BY <1>3, <2>1, <2>2
<1>11. \A r \in DOMAIN text : Terminated(r) \/ r = Len(text)
  <2> TAKE r \in DOMAIN text
  <2>1. r \in 1 .. n /\ text[r] = [symbols |-> rows[r], terminated |-> r < n \/ final]
    BY <1>4, <1>6
  <2>2. Terminated(r) = (r < n \/ final)
    BY <2>1 DEF Terminated
  <2> QED BY <1>3, <1>10, <2>1, <2>2
<1>12. Sourced
  <2>1. queue \in Seq(Upcoming) /\ unread \in 1 .. (Len(text) + 1)
    BY <1>3, <1>4, <1>10
  <2> QED BY <1>10, <1>11, <2>1 DEF Sourced, Program
<1>13. Len(queue) = 0 /\ unread = 1
  BY <1>4
<1>14. Coming \in Seq(Upcoming) /\ Len(Coming) = n /\ \A i \in 1 .. n : Coming[i] = [row |-> i, indent |-> 0]
  <2>1. /\ Coming \in Seq(Upcoming) /\ Len(Coming) = 0 + (n + 1 - 1)
        /\ \A i \in 1 .. (n + 1 - 1) : Coming[0 + i] = [row |-> 1 + i - 1, indent |-> 0]
    BY <1>10, <1>12, <1>13, ComingIs
  <2>2. n + 1 - 1 = n /\ 0 + n = n /\ \A i \in 1 .. n : 0 + i = i /\ 1 + i - 1 = i
    BY <1>3
  <2> QED BY <2>1, <2>2
<1>15. DOMAIN Coming = 1 .. n /\ DOMAIN text = 1 .. n
  BY <1>4, <1>6, <1>14, LenProperties
<1>16. Stream(Coming)
  <2>1. \A i \in DOMAIN Coming : Coming[i].row \in DOMAIN text /\ Coming[i].indent <= Len(Symbols(Coming[i].row))
    BY <1>12, <1>14, <1>15, RowsAre DEF Sourced
  <2>2. \A i, j \in DOMAIN Coming : i < j => Coming[i].row < Coming[j].row
    BY <1>3, <1>14, <1>15
  <2> QED BY <1>14, <2>1, <2>2 DEF Stream
<1>17. Bodies(stack, Coming)
  BY <1>4 DEF Bodies
<1>18. SourceInv
  BY <1>4, <1>12, <1>16, <1>17 DEF SourceInv, Fits
<1> QED BY <1>4, <1>10, <1>14, <1>15, <1>18

LEMMA SourceStep ==
    ASSUME SourceInv, [Next]_vars
    PROVE  Kept /\ SourceInv'
<1>1. Kept
  BY StepsAre, LoadLineIs, ByteIs, WordIs, CommentIs, PodIs, EndBodyIs, StartHeredocIs,
     StartDelimitedBodyIs, QuietKept
<1> QED BY <1>1, SourceKept

\* Whatever is looked at ahead of time, queued, cut and resumed: the lines to
\* come are rows of the text in its order, after the current one; every line is
\* cut at the bound of the body it is read in; and a body ends within the body
\* around it unless that has no line left.
\* (source.rs next_line, Lookahead, start_heredoc, start_delimited_body)
THEOREM SourceInvariant == Spec => []SourceInv
<1>1. Init => SourceInv
  BY SourceInit
<1>2. SourceInv /\ [Next]_vars => SourceInv'
  BY SourceStep
<1> QED BY <1>1, <1>2, PTL DEF Spec

-----------------------------------------------------------------------------
(* The numbers of the lines.                                               *)

\* As long as steady holds, the lines to come are the last rows of the text, the
\* current line is the one before them, and every line the lexer holds, and the
\* counter, agree with the rows.  A body's last row is the one its frame
\* resumes, and no body outlives one around it.
Numbered(l, c, st, n, s) ==
    LET f == Len(text) - Len(c) IN
    /\ s \in Int
    /\ \A i \in DOMAIN c : c[i].row = f + i
    /\ l # Nothing => l.row = f /\ l.number = f + s
    /\ c # <<>> => n = f + 1 + s
    /\ \A i \in DOMAIN st : st[i].line.row = st[i].bound.row /\ st[i].line.number = st[i].line.row + s
    /\ \A i, j \in DOMAIN st : i < j => st[j].bound.row <= st[i].bound.row
    /\ st # <<>> => f <= st[Len(st)].bound.row

NumberInv == steady => Numbered(line, Coming, stack, number, shift)

LEMMA NumberedCarried ==
    ASSUME text' = text
    PROVE  Numbered(line, Coming, stack, number, shift)'
             <=> Numbered(line', Coming', stack', number', shift')
  BY DEF Numbered

\* k lines have been taken from the front of the stream, under the bound.
TakenTo(k, l, n, s) ==
    /\ l # Nothing => l.row = (Len(text) - Len(Coming)) + k /\ l.number = l.row + s
    /\ Len(Coming) # k => n = (Len(text) - Len(Coming)) + k + 1 + s

LEMMA NumberedTaken ==
    ASSUME SourceInv, Numbered(line, Coming, stack, number, shift),
           NEW k \in 0 .. Reach(Bound(stack)), NEW l, NEW n, NEW s \in Int,
           stack = <<>> \/ s = shift, TakenTo(k, l, n, s)
    PROVE  Numbered(l, Rest(Coming, k), stack, n, s)
<1> DEFINE c == Rest(Coming, k)
           f == Len(text) - Len(Coming)
<1>1. /\ Program /\ Coming \in Seq(Upcoming) /\ Len(Coming) \in Nat /\ DOMAIN Coming = 1 .. Len(Coming)
      /\ Reach(Bound(stack)) \in 0 .. Len(Coming) /\ Bodies(stack, Coming)
      /\ \A i \in DOMAIN Coming : i <= Reach(Bound(stack)) <=> Reaches(Bound(stack), Coming[i].row)
  BY SourceIs
<1>2. k \in 0 .. Len(Coming) /\ k \in Nat
  <2> DEFINE m == Reach(Bound(stack))
  <2>1. m \in 0 .. Len(Coming) /\ Len(Coming) \in Nat /\ k \in 0 .. m
    BY <1>1
  <2> HIDE DEF m
  <2> QED BY <2>1
<1>3. /\ c \in Seq(Upcoming) /\ Len(c) = Len(Coming) - k
      /\ \A i \in 1 .. (Len(Coming) - k) : c[i] = Coming[k + i]
  BY <1>1, <1>2, RestIs
<1> HIDE DEF c
<1>4. Len(text) \in Nat /\ f \in Int
  <2>1. Len(text) \in Nat
    BY <1>1 DEF Program
  <2> QED BY <1>1, <2>1
<1>5. DOMAIN c = 1 .. (Len(Coming) - k)
  BY <1>3, LenProperties
<1>6. Len(text) - Len(c) = f + k
  BY <1>1, <1>2, <1>3, <1>4
<1>7. \A i \in DOMAIN Coming : Coming[i].row = f + i
  BY DEF Numbered
<1> HIDE DEF f
<1>8. ASSUME NEW i \in DOMAIN c PROVE c[i].row = (f + k) + i
  <2>1. i \in 1 .. (Len(Coming) - k) /\ k + i \in DOMAIN Coming
    BY <1>1, <1>2, <1>5
  <2>2. c[i].row = f + (k + i)
    BY <1>3, <1>7, <2>1
  <2> QED BY <1>2, <1>4, <2>1, <2>2
<1>9. l # Nothing => l.row = f + k /\ l.number = (f + k) + s
  BY DEF f, TakenTo
<1>10. c # <<>> => n = (f + k) + 1 + s
  <2>1. c # <<>> => Len(c) # 0
    BY <1>3, EmptySeq
  <2>2. Len(Coming) # k => n = (f + k) + 1 + s
    BY DEF f, TakenTo
  <2>3. Len(c) # 0 => Len(Coming) # k
    BY <1>1, <1>2, <1>3
  <2> QED BY <2>1, <2>2, <2>3
<1>11. /\ \A i \in DOMAIN stack : stack[i].line.row = stack[i].bound.row /\ stack[i].line.number = stack[i].line.row + s
       /\ \A i, j \in DOMAIN stack : i < j => stack[j].bound.row <= stack[i].bound.row
  <2>1. CASE stack = <<>>
    BY <2>1
  <2>2. CASE s = shift
    BY <2>2 DEF Numbered
  <2> QED BY <2>1, <2>2
<1>12. ASSUME stack # <<>> PROVE f + k <= stack[Len(stack)].bound.row
  <2>1. CASE k = 0
    <3>1. f <= stack[Len(stack)].bound.row
      BY <1>12 DEF Numbered, f
    <3> QED BY <1>4, <2>1, <3>1
  <2>2. CASE k # 0
    <3>1. k \in DOMAIN Coming /\ k <= Reach(Bound(stack))
      BY <1>1, <1>2, <2>2
    <3>2. Bound(stack) = stack[Len(stack)].bound /\ stack[Len(stack)].bound \in BoundRecord
      BY <1>1, <1>12, BoundsAreOK
    <3>3. Coming[k].row <= stack[Len(stack)].bound.row
      BY <1>1, <3>1, <3>2, NothingIsNone DEF Reaches
    <3> QED BY <1>7, <3>1, <3>3
  <2> QED BY <2>1, <2>2
<1>13. s \in Int
  OBVIOUS
<1>14. Numbered(l, c, stack, n, s)
  BY <1>6, <1>8, <1>9, <1>10, <1>11, <1>12, <1>13 DEF Numbered
<1> QED BY <1>14 DEF c

\* What the counter and the current line are when steady holds.
LEMMA NumberedIs ==
    ASSUME SourceInv, Numbered(line, Coming, stack, number, shift)
    PROVE  /\ Len(text) \in Nat /\ Len(Coming) \in Nat /\ shift \in Int /\ number \in Nat
           /\ line # Nothing => /\ line.row = Len(text) - Len(Coming) /\ line.number = line.row + shift
                                /\ line.number \in Nat /\ line.row \in Nat /\ line \in LineRecord
           /\ Len(Coming) # 0 => number = (Len(text) - Len(Coming)) + 1 + shift
           /\ \A i \in DOMAIN Coming : Coming[i].row = (Len(text) - Len(Coming)) + i /\ Len(Coming) # 0
<1>1. /\ Program /\ Coming \in Seq(Upcoming) /\ Len(Coming) \in Nat /\ DOMAIN Coming = 1 .. Len(Coming)
      /\ BoundOK(Bound(stack)) /\ number \in Nat
      /\ line # Nothing => Held(line, Bound(stack))
  BY SourceIs
<1>2. Len(text) \in Nat
  BY <1>1 DEF Program
<1>3. line # Nothing => line.number \in Nat /\ line.row \in Nat /\ line \in LineRecord
  BY <1>1, HeldIs
<1>4. Len(Coming) # 0 => Coming # <<>>
  BY <1>1, EmptySeq
<1>5. /\ shift \in Int /\ \A i \in DOMAIN Coming : Coming[i].row = (Len(text) - Len(Coming)) + i
      /\ line # Nothing => line.row = Len(text) - Len(Coming) /\ line.number = (Len(text) - Len(Coming)) + shift
      /\ Coming # <<>> => number = (Len(text) - Len(Coming)) + 1 + shift
  BY DEF Numbered
<1>6. \A i \in DOMAIN Coming : Len(Coming) # 0
  BY <1>1
<1> QED BY <1>1, <1>2, <1>3, <1>4, <1>5, <1>6

\* Only the cursor of the current line has moved, or nothing has.
LEMMA NumberedStays ==
    ASSUME SourceInv, Numbered(line, Coming, stack, number, shift), NEW l, NEW n,
           l # Nothing => line # Nothing /\ l.row = line.row /\ l.number = line.number,
           n = number \/ (line # Nothing /\ n = line.number + 1)
    PROVE  Numbered(l, Coming, stack, n, shift)
<1>1. /\ Len(text) \in Nat /\ Len(Coming) \in Nat /\ shift \in Int
      /\ line # Nothing => line.row = Len(text) - Len(Coming) /\ line.number = line.row + shift
  BY NumberedIs
<1>2. /\ line # Nothing => line.number = (Len(text) - Len(Coming)) + shift
      /\ Coming # <<>> => number = (Len(text) - Len(Coming)) + 1 + shift
  BY DEF Numbered
<1>3. l # Nothing => l.row = Len(text) - Len(Coming) /\ l.number = (Len(text) - Len(Coming)) + shift
  BY <1>1, <1>2
<1>4. Coming # <<>> => n = (Len(text) - Len(Coming)) + 1 + shift
  <2>1. line # Nothing => line.number + 1 = (Len(text) - Len(Coming)) + 1 + shift
    BY <1>1, <1>2
  <2> QED BY <1>2, <2>1
<1> QED BY <1>3, <1>4 DEF Numbered

LEMMA LoadLineNumbers ==
    ASSUME SourceInv, Numbered(line, Coming, stack, number, shift), LoadLine
    PROVE  Numbered(line', Coming', stack', number', shift')
<1>1. /\ stack' = stack /\ Coming' = Rest(Coming, 1) /\ line' = LineAt(1, Bound(stack))
      /\ number' = number + 1 /\ Reach(Bound(stack)) > 0
  BY LoadLineIs
<1>2. shift' = shift
  BY DEF LoadLine, history
<1>3. /\ 1 \in DOMAIN Coming /\ line'.row = Coming[1].row /\ line'.number = number
  BY <1>1, FirstReached
<1>4. 1 \in 0 .. Reach(Bound(stack))
  <2>1. Reach(Bound(stack)) \in 0 .. Len(Coming) /\ Len(Coming) \in Nat
    BY SourceIs
  <2> QED BY <1>1, <2>1
<1>5. /\ Len(text) \in Nat /\ Len(Coming) \in Nat /\ shift \in Int
      /\ number = (Len(text) - Len(Coming)) + 1 + shift /\ Coming[1].row = (Len(text) - Len(Coming)) + 1
  BY <1>3, NumberedIs
<1>6. TakenTo(1, line', number + 1, shift)
  BY <1>3, <1>5 DEF TakenTo
<1>7. Numbered(line', Rest(Coming, 1), stack, number + 1, shift)
  BY <1>4, <1>5, <1>6, NumberedTaken
<1> QED BY <1>1, <1>2, <1>7

LEMMA CommentNumbers ==
    ASSUME SourceInv, Numbered(line, Coming, stack, number, shift), Comment, Tells => stack = <<>>
    PROVE  Numbered(line', Coming', stack', number', shift')
<1>1. /\ stack' = stack /\ line # Nothing
      /\ shift' = (IF Tells /\ Reach(Bound(stack)) > 0 THEN Told - Coming[1].row ELSE shift)
  BY CommentIs
<1>2. /\ Len(text) \in Nat /\ Len(Coming) \in Nat /\ shift \in Int /\ number \in Nat
      /\ line \in LineRecord
      /\ Len(Coming) # 0 => number = (Len(text) - Len(Coming)) + 1 + shift
      /\ \A i \in DOMAIN Coming : Coming[i].row = (Len(text) - Len(Coming)) + i /\ Len(Coming) # 0
  BY <1>1, NumberedIs
<1>3. Told \in Nat
  BY SourceLinesAssumption
<1>4. CASE /\ Reach(Bound(stack)) > 0 /\ Coming' = Rest(Coming, 1)
           /\ line' = [LineAt(1, Bound(stack)) EXCEPT !.number = NextNumber]
           /\ number' = NextNumber + 1
  <2> DEFINE s == IF Tells THEN Told - Coming[1].row ELSE shift
             a == LineAt(1, Bound(stack))
  <2>1. 1 \in DOMAIN Coming /\ Held(a, Bound(stack)) /\ a.row = Coming[1].row
    BY <1>4, FirstReached
  <2>2. /\ Coming[1].row = (Len(text) - Len(Coming)) + 1
        /\ number = (Len(text) - Len(Coming)) + 1 + shift /\ Coming[1].row \in Int
    BY <1>2, <2>1
  <2>3. s \in Int /\ shift' = s
    BY <1>1, <1>2, <1>3, <1>4, <2>2
  <2>4. NextNumber = Coming[1].row + s
    <3>1. CASE Tells
      <4>1. s = Told - Coming[1].row /\ NextNumber = Told
        BY <3>1 DEF NextNumber
      <4> HIDE DEF s
      <4> QED BY <1>3, <2>2, <4>1
    <3>2. CASE ~Tells
      <4>1. s = shift /\ NextNumber = number
        BY <3>2 DEF NextNumber
      <4> HIDE DEF s
      <4> QED BY <1>2, <2>2, <4>1
    <3> QED BY <3>1, <3>2
  <2> HIDE DEF s
  <2>5. line'.row = Coming[1].row /\ line'.number = NextNumber
    <3>1. a \in LineRecord
      BY <2>1 DEF Held
    <3> HIDE DEF a
    <3>2. line' = [a EXCEPT !.number = NextNumber]
      BY <1>4 DEF a
    <3> QED BY <2>1, <3>1, <3>2 DEF LineRecord
  <2>6. 1 \in 0 .. Reach(Bound(stack))
    <3>1. Reach(Bound(stack)) \in 0 .. Len(Coming) /\ Len(Coming) \in Nat
      BY SourceIs
    <3> QED BY <1>4, <3>1
  <2>7. TakenTo(1, line', number', s)
    BY <1>2, <1>4, <2>2, <2>3, <2>4, <2>5 DEF TakenTo
  <2>8. stack = <<>> \/ s = shift
    BY DEF s
  <2>9. Numbered(line', Rest(Coming, 1), stack, number', s)
    BY <2>3, <2>6, <2>7, <2>8, NumberedTaken
  <2> QED BY <1>1, <1>4, <2>3, <2>9
<1>5. CASE /\ Reach(Bound(stack)) = 0 /\ Coming' = Coming
           /\ line' = [line EXCEPT !.pos = line.len + (IF line.terminated THEN 1 ELSE 0)]
           /\ number' = NextNumber
  <2>1. line'.row = line.row /\ line'.number = line.number
    BY <1>2, <1>5 DEF LineRecord
  <2>2. shift' = shift
    BY <1>1, <1>5
  <2>3. CASE ~Tells
    <3>1. number' = number
      BY <1>5, <2>3 DEF NextNumber
    <3> QED BY <1>1, <1>5, <2>1, <2>2, <3>1, NumberedStays
  <2>4. CASE Tells
    <3>1. Coming = <<>>
      <4>1. Bound(stack) = Nothing
        BY <2>4 DEF Bound
      <4>2. \A i \in DOMAIN Coming : i <= 0
        BY <1>5, <4>1, SourceIs DEF Reaches
      <4>3. DOMAIN Coming = 1 .. Len(Coming) /\ Coming \in Seq(Upcoming)
        BY SourceIs
      <4>4. Len(Coming) = 0
        BY <1>2, <4>2, <4>3
      <4> QED BY <4>3, <4>4, EmptySeq
    <3>2. Numbered(line', Coming, stack, number, shift)
      BY <1>1, <2>1, NumberedStays
    <3>3. Numbered(line', Coming, stack, number', shift)
      BY <3>1, <3>2 DEF Numbered
    <3> QED BY <1>1, <1>5, <2>2, <3>3
  <2> QED BY <2>3, <2>4
<1> QED BY <1>4, <1>5, CommentIs

LEMMA PodNumbers ==
    ASSUME SourceInv, Numbered(line, Coming, stack, number, shift), Pod
    PROVE  Numbered(line', Coming', stack', number', shift')
<1>1. /\ stack' = stack /\ line' = Nothing
      /\ \E k \in 0 .. Reach(Bound(stack)) : Coming' = Rest(Coming, k) /\ number' = number + k
  BY PodIs
<1>2. PICK k \in 0 .. Reach(Bound(stack)) : Coming' = Rest(Coming, k) /\ number' = number + k
  BY <1>1
<1>3. shift' = shift
  BY DEF Pod
<1>4. /\ Len(text) \in Nat /\ Len(Coming) \in Nat /\ shift \in Int /\ number \in Nat
      /\ Len(Coming) # 0 => number = (Len(text) - Len(Coming)) + 1 + shift
  BY NumberedIs
<1>5. k \in Nat /\ k \in 0 .. Len(Coming)
  <2> DEFINE m == Reach(Bound(stack))
  <2>1. m \in 0 .. Len(Coming) /\ Len(Coming) \in Nat /\ k \in 0 .. m
    BY SourceIs
  <2> HIDE DEF m
  <2> QED BY <2>1
<1>6. TakenTo(k, line', number', shift)
  BY <1>1, <1>2, <1>4, <1>5 DEF TakenTo
<1>7. Numbered(line', Rest(Coming, k), stack, number', shift)
  BY <1>4, <1>6, NumberedTaken
<1> QED BY <1>1, <1>2, <1>3, <1>7

LEMMA EndBodyNumbers ==
    ASSUME SourceInv, Numbered(line, Coming, stack, number, shift), EndBody
    PROVE  Numbered(line', Coming', stack', number', shift')
<1> DEFINE n == Len(stack)
           w == Front(stack)
           f == Len(text) - Len(Coming)
<1>1. /\ Coming' = Coming /\ stack # <<>> /\ stack' = w /\ Reach(Bound(stack)) = 0 /\ number' = number
      /\ line' = stack[n].line /\ shift' = shift
  BY EndBodyIs DEF EndBody
<1>2. /\ Program /\ Bodies(stack, Coming) /\ DOMAIN Coming = 1 .. Len(Coming)
      /\ \A i \in DOMAIN Coming : i <= Reach(Bound(stack)) <=> Reaches(Bound(stack), Coming[i].row)
  BY SourceIs
<1>3. /\ n \in Nat /\ n \in DOMAIN stack /\ DOMAIN stack = 1 .. n /\ Bound(stack) = stack[n].bound
      /\ \A i \in DOMAIN stack : BoundOK(stack[i].bound) /\ stack[i].bound \in BoundRecord
  BY <1>1, <1>2, BoundsAreOK
<1>4. /\ DOMAIN w = 1 .. (n - 1) /\ Len(w) = n - 1 /\ w \in Seq(Frame) /\ \A i \in 1 .. (n - 1) : w[i] = stack[i]
  <2>1. stack \in Seq(Frame)
    BY <1>2 DEF Bodies
  <2> QED BY <1>1, <2>1, FrontIs
<1> HIDE DEF n, w
<1>5. /\ Len(text) \in Nat /\ Len(Coming) \in Nat /\ shift \in Int
      /\ \A i \in DOMAIN Coming : Coming[i].row = f + i
  BY NumberedIs
<1>6. /\ \A i \in DOMAIN stack : stack[i].line.row = stack[i].bound.row /\ stack[i].line.number = stack[i].line.row + shift
      /\ \A i, j \in DOMAIN stack : i < j => stack[j].bound.row <= stack[i].bound.row
      /\ f <= stack[n].bound.row
      /\ Coming # <<>> => number = f + 1 + shift
  BY <1>1 DEF Numbered, n
<1>7. \A i \in DOMAIN stack : stack[i].bound.row \in Nat
  BY <1>3 DEF BoundRecord
<1>8. stack[n].bound.row = f
  <2>1. stack[n].bound.row <= Len(text)
    <3>1. stack[n].bound.row \in DOMAIN text
      BY <1>3, NothingIsNone DEF BoundOK
    <3> QED BY <1>2, <3>1, RowsAre
  <2>2. CASE Len(Coming) = 0
    BY <1>3, <1>5, <1>6, <1>7, <2>1, <2>2
  <2>3. CASE Len(Coming) # 0
    <3>1. 1 \in DOMAIN Coming
      BY <1>2, <1>5, <2>3
    <3>2. Coming[1].row = f + 1 /\ ~(Coming[1].row <= stack[n].bound.row)
      BY <1>1, <1>2, <1>3, <1>5, <3>1 DEF Reaches
    <3>3. stack[n].bound.row \in Nat /\ f <= stack[n].bound.row
      BY <1>3, <1>6, <1>7
    <3>4. f \in Int
      BY <1>5
    <3> HIDE DEF f, n
    <3> QED BY <3>2, <3>3, <3>4
  <2> QED BY <2>2, <2>3
<1>9. line'.row = f /\ line'.number = f + shift
  BY <1>1, <1>3, <1>6, <1>8
<1>10. \A i \in DOMAIN w : i \in DOMAIN stack /\ w[i] = stack[i] /\ i < n
  BY <1>3, <1>4
<1>11. w # <<>> => f <= w[Len(w)].bound.row
  <2>1. w # <<>> => Len(w) # 0
    BY <1>4, EmptySeq
  <2>2. ASSUME Len(w) # 0 PROVE f <= w[Len(w)].bound.row
    <3>1. n - 1 \in DOMAIN w /\ n - 1 \in DOMAIN stack /\ n - 1 < n
      BY <1>3, <1>4, <2>2
    <3>2. stack[n].bound.row <= stack[n - 1].bound.row /\ w[n - 1] = stack[n - 1]
      BY <1>3, <1>6, <1>10, <3>1
    <3> QED BY <1>4, <1>8, <3>2
  <2> QED BY <2>1, <2>2
<1>12. /\ \A i \in DOMAIN w : w[i].line.row = w[i].bound.row /\ w[i].line.number = w[i].line.row + shift
       /\ \A i, j \in DOMAIN w : i < j => w[j].bound.row <= w[i].bound.row
  BY <1>6, <1>10
<1>13. Numbered(line', Coming, w, number, shift)
  BY <1>5, <1>6, <1>9, <1>11, <1>12 DEF Numbered
<1> QED BY <1>1, <1>13

LEMMA DelimitedBodyNumbers ==
    ASSUME SourceInv, Numbered(line, Coming, stack, number, shift), line # Nothing, shift' = shift,
           NEW k, NEW col, DelimitedBegun(k, col)
    PROVE  Numbered(line', Coming', stack', number', shift')
<1> DEFINE n == Len(stack)
           ends == ScanLine(k)
           e == [ends EXCEPT !.pos = col + 1]
           f == [line |-> e, bound |-> [row |-> ends.row, col |-> col]]
           w == Append(stack, f)
           g == Len(text) - Len(Coming)
<1>1. /\ k \in 0 .. Reach(Bound(stack)) /\ Held(ends, Bound(stack))
      /\ f \in Frame /\ Coming' = Coming /\ stack' = w
      /\ line'.row = line.row /\ line'.number = line.number /\ line.row <= ends.row
      /\ number' = line.number + 1
  BY DEF DelimitedBegun
<1>2. /\ Program /\ Bodies(stack, Coming) /\ Stream(Coming) /\ BoundOK(Bound(stack)) /\ number \in Nat
      /\ Reach(Bound(stack)) \in 0 .. Len(Coming)
      /\ \A i \in DOMAIN Coming : i <= Reach(Bound(stack)) <=> Reaches(Bound(stack), Coming[i].row)
      /\ DOMAIN Coming = 1 .. Len(Coming)
  BY SourceIs
<1>3. /\ n \in Nat /\ DOMAIN stack = 1 .. n /\ stack \in Seq(Frame)
      /\ \A i \in DOMAIN stack : stack[i].bound \in BoundRecord
      /\ stack # <<>> => n \in DOMAIN stack /\ Bound(stack) = stack[n].bound
  BY <1>2, BoundsAreOK DEF Bodies
<1>4. /\ Len(text) \in Nat /\ Len(Coming) \in Nat /\ shift \in Int
      /\ line.row = g /\ line.number = line.row + shift /\ line.row \in Nat /\ line.number \in Nat
      /\ Len(Coming) # 0 => number = g + 1 + shift
      /\ \A i \in DOMAIN Coming : Coming[i].row = g + i /\ Len(Coming) # 0
  BY NumberedIs
<1>5. ends \in LineRecord /\ ends.row \in Nat /\ Reaches(Bound(stack), ends.row)
  BY <1>1, <1>2, HeldIs DEF Held
<1>6. ends.number = ends.row + shift
  <2>1. CASE k = 0
    <3>1. ends = [line EXCEPT !.pos = line.pos + 1]
      BY <1>1, <2>1, ScanLineIs
    <3>2. line \in LineRecord
      BY NumberedIs
    <3> HIDE DEF ends
    <3>3. ends.row = line.row /\ ends.number = line.number
      BY <3>1, <3>2 DEF LineRecord
    <3> QED BY <1>4, <3>3
  <2>2. CASE k # 0
    <3>1. k \in DOMAIN Coming /\ ends = LineAt(k, Bound(stack)) /\ ends.row = Coming[k].row
      BY <1>1, <2>2, ScanLineIs
    <3>2. Reaches(Bound(stack), Coming[k].row)
      BY <1>5, <3>1
    <3>3. LineAt(k, Bound(stack)).number = number + k - 1
      BY <1>2, <3>1, <3>2, LineAtIs
    <3>4. k \in Nat
      BY <1>2, <1>4, <3>1
    <3>5. ends.number = number + k - 1
      BY <3>1, <3>3
    <3>6. number = g + 1 + shift /\ ends.row = g + k /\ g \in Int
      BY <1>4, <3>1
    <3> HIDE DEF ends, g
    <3>7. \A a, s \in Int, j \in Nat : (a + 1 + s) + j - 1 = (a + j) + s
      OBVIOUS
    <3>8. shift \in Int
      BY <1>4
    <3> QED BY <3>4, <3>5, <3>6, <3>7, <3>8
  <2> QED BY <2>1, <2>2
<1> HIDE DEF ends
<1>7. e.row = ends.row /\ e.number = ends.number
  BY <1>5 DEF LineRecord
<1>8. f.line.row = f.bound.row /\ f.line.number = f.line.row + shift /\ f.bound.row = ends.row
  BY <1>6, <1>7
<1> HIDE DEF f, e
<1>9. w \in Seq(Frame) /\ Len(w) = n + 1 /\ w[n + 1] = f /\ \A i \in DOMAIN stack : w[i] = stack[i]
  BY <1>1, <1>3, AppendProperties
<1> HIDE DEF w
<1>10. \A i \in DOMAIN w : (i \in DOMAIN stack /\ w[i] = stack[i]) \/ (i = n + 1 /\ w[i] = f)
  <2>1. DOMAIN w = 1 .. (n + 1)
    BY <1>9, LenProperties
  <2> QED BY <1>3, <1>9, <2>1
<1>11. /\ \A i \in DOMAIN stack : stack[i].line.row = stack[i].bound.row /\ stack[i].line.number = stack[i].line.row + shift
       /\ \A i, j \in DOMAIN stack : i < j => stack[j].bound.row <= stack[i].bound.row
  BY DEF Numbered
<1>12. \A i \in DOMAIN stack : f.bound.row <= stack[i].bound.row
  <2> TAKE i \in DOMAIN stack
  <2>1. /\ f.bound.row <= stack[n].bound.row /\ n \in DOMAIN stack
    BY <1>3, <1>5, <1>8, NothingIsNone DEF Reaches
  <2>2. i = n \/ i < n
    BY <1>3
  <2>3. stack[i].bound.row \in Nat /\ stack[n].bound.row \in Nat /\ f.bound.row \in Nat
    BY <1>3, <1>5, <1>8, <2>1 DEF BoundRecord
  <2>4. i < n => stack[n].bound.row <= stack[i].bound.row
    BY <1>11, <2>1
  <2> QED BY <2>1, <2>2, <2>3, <2>4
<1>13. \A i \in DOMAIN w : w[i].line.row = w[i].bound.row /\ w[i].line.number = w[i].line.row + shift
  BY <1>8, <1>10, <1>11
<1>14. ASSUME NEW i \in DOMAIN w, NEW j \in DOMAIN w, i < j PROVE w[j].bound.row <= w[i].bound.row
  <2>1. i \in DOMAIN stack /\ w[i] = stack[i]
    <3>1. i # n + 1
      BY <1>3, <1>10, <1>14
    <3> QED BY <1>10, <3>1
  <2> QED BY <1>10, <1>11, <1>12, <1>14, <2>1
<1>15. g <= w[Len(w)].bound.row
  BY <1>1, <1>4, <1>8, <1>9
<1>16. line'.row = g /\ line'.number = g + shift /\ number' = g + 1 + shift
  <2>1. line'.row = g /\ line'.number = line.number /\ line.number = g + shift
    BY <1>1, <1>4
  <2>2. g \in Int
    BY <1>4
  <2> HIDE DEF g
  <2> QED BY <1>1, <1>4, <2>1, <2>2
<1>17. \A i \in DOMAIN Coming : Coming[i].row = g + i
  BY <1>4
<1>18. Numbered(line', Coming, w, number', shift)
  BY <1>4, <1>13, <1>14, <1>15, <1>16, <1>17 DEF Numbered
<1> QED BY <1>1, <1>18

LEMMA NumberStep ==
    ASSUME SourceInv, NumberInv, [Next]_vars
    PROVE  NumberInv'
<1> SUFFICES ASSUME steady' PROVE Numbered(line, Coming, stack, number, shift)'
  BY DEF NumberInv
<1>1. text' = text
  BY SourceStep DEF Kept
<1> SUFFICES ASSUME steady => Numbered(line, Coming, stack, number, shift)
             PROVE  Numbered(line', Coming', stack', number', shift')
  BY <1>1, NumberedCarried DEF NumberInv
<1>2. CASE LoadLine
  <2>1. steady
    BY <1>2 DEF LoadLine, history
  <2> QED BY <1>2, <2>1, LoadLineNumbers
<1>3. CASE Byte
  <2>1. steady /\ shift' = shift
    BY <1>3 DEF Byte
  <2>2. /\ Stays /\ line # Nothing /\ number' = number /\ line' = [line EXCEPT !.pos = line.pos + 1]
    BY <1>3, ByteIs
  <2>3. line'.row = line.row /\ line'.number = line.number
    BY <2>1, <2>2, NumberedIs DEF LineRecord
  <2>4. Numbered(line', Coming, stack, number', shift)
    BY <2>1, <2>2, <2>3, NumberedStays
  <2> QED BY <2>1, <2>2, <2>4 DEF Stays
<1>4. CASE Word
  <2>1. steady /\ shift' = shift
    BY <1>4 DEF Word
  <2>2. /\ Stays /\ line # Nothing /\ number' = line.number + 1 /\ line' = [line EXCEPT !.pos = line.pos + 1]
    BY <1>4, WordIs
  <2>3. line'.row = line.row /\ line'.number = line.number
    BY <2>1, <2>2, NumberedIs DEF LineRecord
  <2>4. Numbered(line', Coming, stack, number', shift)
    BY <2>1, <2>2, <2>3, NumberedStays
  <2> QED BY <2>1, <2>2, <2>4 DEF Stays
<1>5. CASE Comment
  <2>1. steady /\ (Tells => stack = <<>>)
    BY <1>5 DEF Comment, Tells
  <2> QED BY <1>5, <2>1, CommentNumbers
<1>6. CASE Pod
  BY <1>6, PodNumbers DEF Pod
<1>7. CASE EndBody
  BY <1>7, EndBodyNumbers DEF EndBody
<1>8. CASE StartHeredoc /\ status' # "error"
  BY <1>8, StartHeredocIs DEF HeredocBegun
<1>9. CASE StartDelimitedBody /\ status' # "error"
  <2>1. PICK k, col : DelimitedBegun(k, col)
    BY <1>9, StartDelimitedBodyIs
  <2>2. line # Nothing
    BY <1>9, StartDelimitedBodyIs
  <2>3. steady /\ shift' = shift
    <3>1. steady' = steady
      BY <2>1 DEF DelimitedBegun
    <3>2. shift' = shift
      BY <1>9 DEF StartDelimitedBody, Unterminated, Push, history
    <3> QED BY <3>1, <3>2
  <2> QED BY <2>1, <2>2, <2>3, DelimitedBodyNumbers
<1>10. CASE UNCHANGED <<text, source, history>>
  <2>1. steady /\ shift' = shift
    BY <1>10 DEF history
  <2>2. Stays /\ line' = line /\ number' = number
    BY <1>10, QuietKept
  <2> QED BY <2>1, <2>2 DEF Stays
<1> QED BY <1>2, <1>3, <1>4, <1>5, <1>6, <1>7, <1>8, <1>9, <1>10, StepsAre

\* A line's number is its place in the file, moved by the directives met so far:
\* lookahead, the replay of lines and the bodies that resume behind them change
\* no number, as long as no here-document has begun and no directive has been
\* met inside a body.  (source.rs Lookahead)
THEOREM LinesAreNumbered == Spec => []NumbersSteady
<1>1. Init => NumberInv
  <2> SUFFICES ASSUME Init PROVE Numbered(line, Coming, stack, number, shift)
    BY DEF NumberInv
  <2>1. /\ SourceInv /\ line = Nothing /\ stack = <<>> /\ number = 1
        /\ Len(Coming) = Len(text) /\ \A i \in DOMAIN Coming : Coming[i].row = i
        /\ shift = 0
    BY SourceInit
  <2>2. Len(Coming) \in Nat /\ DOMAIN Coming = 1 .. Len(Coming)
    BY <2>1, SourceIs
  <2>3. Len(text) - Len(Coming) = 0 /\ \A i \in DOMAIN Coming : Coming[i].row = 0 + i
    BY <2>1, <2>2
  <2> QED BY <2>1, <2>3 DEF Numbered
<1>2. SourceInv /\ NumberInv /\ [Next]_vars => NumberInv'
  BY NumberStep
<1>3. SourceInv /\ NumberInv => NumbersSteady
  BY NumberedIs DEF NumberInv, NumbersSteady
<1> QED BY <1>1, <1>2, <1>3, SourceInvariant, PTL DEF Spec

-----------------------------------------------------------------------------
(* The order of the bytes within a body.                                   *)

\* A set of offsets of the text, and its last.
Offsets(os) == \A o \in os : o[1] \in DOMAIN text /\ o[2] \in Columns(o[1]) /\ o = <<o[1], o[2]>>

LEMMA OffsetsAre ==
    ASSUME Program, NEW os, Offsets(os), os # {}
    PROVE  /\ os \in SUBSET (Nat \X Nat)
           /\ Final(os) \in os /\ \A p \in os : ~Before(Final(os), p)
<1> DEFINE b == [r \in DOMAIN text |-> Len(Symbols(r))]
<1>1. Len(text) \in Nat
  BY DEF Program
<1>2. \A o \in os : /\ o[1] \in Nat /\ o[2] \in Nat /\ o = <<o[1], o[2]>> /\ o[1] <= Len(text)
                    /\ b[o[1]] \in Nat /\ o[2] <= b[o[1]]
  <2> TAKE o \in os
  <2>1. o[1] \in DOMAIN text /\ o[2] \in Columns(o[1]) /\ o = <<o[1], o[2]>>
    BY DEF Offsets
  <2>2. b[o[1]] = Len(Symbols(o[1]))
    BY <2>1
  <2>3. o[1] \in Nat /\ o[1] <= Len(text) /\ Len(Symbols(o[1])) \in Nat
    BY <2>1, RowsAre
  <2>4. o[2] \in Nat /\ o[2] <= Len(Symbols(o[1]))
    BY <2>1, <2>3 DEF Columns
  <2> QED BY <2>1, <2>2, <2>3, <2>4
<1> HIDE DEF b
<1>3. os \in SUBSET (Nat \X Nat)
  BY <1>2
<1> QED BY <1>1, <1>2, <1>3, FinalIs

\* The last offset a body gave is before its current line's cursor, or the
\* suspended line's, and before every line to come.
Orderly(l, c, st, la) ==
    /\ la \in Seq(Nat \X Nat) /\ Len(la) = Len(st) + 1
    /\ l # Nothing => Before(la[Len(la)], <<l.row, l.pos>>)
    /\ Past(la[Len(la)][1], c)
    /\ \A i \in DOMAIN st : Before(la[i], <<st[i].line.row, st[i].line.pos>>)

OrderInv == Orderly(line, Coming, stack, last)

\* What a step gives comes after what its body gave before.
GivesInOrder == \A o \in delivered' \ delivered : Before(last[Len(last)], o)

LEMMA OrderlyCarried ==
    ASSUME text' = text
    PROVE  Orderly(line, Coming, stack, last)' <=> Orderly(line', Coming', stack', last')
  BY DEF Orderly, Past, Before

LEMMA OrderlyIs ==
    ASSUME SourceInv, OrderInv
    PROVE  /\ last \in Seq(Nat \X Nat) /\ Len(last) = Len(stack) + 1 /\ Len(stack) \in Nat
           /\ DOMAIN last = 1 .. Len(last) /\ DOMAIN stack = 1 .. Len(stack)
           /\ Len(last) \in DOMAIN last /\ last[Len(last)] \in Nat \X Nat
           /\ line # Nothing => Before(last[Len(last)], <<line.row, line.pos>>)
           /\ Past(last[Len(last)][1], Coming)
           /\ \A i \in DOMAIN stack : i \in DOMAIN last /\ i # Len(last)
                                      /\ Before(last[i], <<stack[i].line.row, stack[i].line.pos>>)
<1>1. Len(stack) \in Nat /\ DOMAIN stack = 1 .. Len(stack)
  BY SourceIs, BoundsAreOK
<1>2. /\ last \in Seq(Nat \X Nat) /\ Len(last) = Len(stack) + 1
      /\ line # Nothing => Before(last[Len(last)], <<line.row, line.pos>>)
      /\ Past(last[Len(last)][1], Coming)
      /\ \A i \in DOMAIN stack : Before(last[i], <<stack[i].line.row, stack[i].line.pos>>)
  BY DEF OrderInv, Orderly
<1>3. DOMAIN last = 1 .. Len(last)
  BY <1>2, LenProperties
<1>4. Len(last) \in DOMAIN last /\ \A i \in DOMAIN stack : i \in DOMAIN last /\ i # Len(last)
  BY <1>1, <1>2, <1>3
<1>5. last[Len(last)] \in Nat \X Nat
  BY <1>2, <1>3, <1>4, ElementOfSeq
<1> QED BY <1>1, <1>2, <1>3, <1>4, <1>5

\* The top body has given the offset o.
LEMMA OrderlyTop ==
    ASSUME SourceInv, OrderInv, NEW o \in Nat \X Nat, NEW l, NEW c,
           l # Nothing => Before(o, <<l.row, l.pos>>), Past(o[1], c)
    PROVE  Orderly(l, c, stack, [last EXCEPT ![Len(last)] = o])
<1> DEFINE la == [last EXCEPT ![Len(last)] = o]
<1>1. la \in Seq(Nat \X Nat) /\ Len(la) = Len(last)
  BY OrderlyIs, ExceptSeq
<1>2. la[Len(last)] = o /\ \A i \in DOMAIN stack : la[i] = last[i]
  BY OrderlyIs
<1> HIDE DEF la
<1>3. Orderly(l, c, stack, la)
  BY <1>1, <1>2, OrderlyIs DEF Orderly
<1> QED BY <1>3 DEF la

LEMMA GiveOrders ==
    ASSUME SourceInv, OrderInv, NEW os, Offsets(os), os # {}, Give(os), NEW l, NEW c,
           \A o \in os : /\ Before(last[Len(last)], o)
                         /\ l # Nothing => Before(o, <<l.row, l.pos>>)
                         /\ Past(o[1], c)
    PROVE  Orderly(l, c, stack, last') /\ GivesInOrder
<1>1. os \in SUBSET (Nat \X Nat) /\ Final(os) \in os
  BY SourceIs, OffsetsAre
<1>2. last' = [last EXCEPT ![Len(last)] = Final(os)] /\ delivered' = delivered \cup os
  BY DEF Give
<1>3. Orderly(l, c, stack, last')
  BY <1>1, <1>2, OrderlyTop
<1> QED BY <1>2, <1>3 DEF GivesInOrder

\* A body begins: the one around it has given the byte that begins it.
LEMMA BodyOrders ==
    ASSUME SourceInv, OrderInv, line # Nothing, NEW f \in Frame, NEW l, NEW c,
           last' = Append([last EXCEPT ![Len(last)] = <<line.row, line.pos>>], <<0, 0>>),
           delivered' = delivered \cup {<<line.row, line.pos>>},
           Before(<<line.row, line.pos>>, <<f.line.row, f.line.pos>>), Stream(c),
           l # Nothing => Before(<<0, 0>>, <<l.row, l.pos>>)
    PROVE  Orderly(l, c, Append(stack, f), last') /\ GivesInOrder
<1> DEFINE la == [last EXCEPT ![Len(last)] = <<line.row, line.pos>>]
           n == Len(stack)
           st == Append(stack, f)
<1>1. /\ Program /\ stack \in Seq(Frame) /\ BoundOK(Bound(stack)) /\ Held(line, Bound(stack))
      /\ \A i \in DOMAIN stack : stack[i] \in Frame
  <2>1. stack \in Seq(Frame) /\ DOMAIN stack = 1 .. Len(stack)
    BY SourceIs, OrderlyIs DEF Bodies
  <2> QED BY <2>1, SourceIs, ElementOfSeq
<1>2. line.row \in Nat /\ line.pos \in Nat
  BY <1>1, HeldIs
<1>3. /\ n \in Nat /\ DOMAIN stack = 1 .. n /\ last \in Seq(Nat \X Nat) /\ Len(last) = n + 1
      /\ \A i \in DOMAIN stack : i \in DOMAIN last /\ i # Len(last)
                                 /\ Before(last[i], <<stack[i].line.row, stack[i].line.pos>>)
      /\ Len(last) \in DOMAIN last
      /\ Before(last[Len(last)], <<line.row, line.pos>>)
  BY OrderlyIs
<1>4. la \in Seq(Nat \X Nat) /\ Len(la) = n + 1
  BY <1>2, <1>3, ExceptSeq
<1>5. la[n + 1] = <<line.row, line.pos>> /\ \A i \in DOMAIN stack : la[i] = last[i]
  BY <1>3
<1>6. last' = Append(la, <<0, 0>>)
  OBVIOUS
<1> HIDE DEF la
<1>7. /\ last' \in Seq(Nat \X Nat) /\ Len(last') = (n + 1) + 1 /\ last'[(n + 1) + 1] = <<0, 0>>
      /\ \A i \in 1 .. (n + 1) : last'[i] = la[i]
  <2>1. <<0, 0>> \in Nat \X Nat
    OBVIOUS
  <2>2. /\ Append(la, <<0, 0>>) \in Seq(Nat \X Nat) /\ Len(Append(la, <<0, 0>>)) = Len(la) + 1
        /\ Append(la, <<0, 0>>)[Len(la) + 1] = <<0, 0>>
        /\ \A i \in 1 .. Len(la) : Append(la, <<0, 0>>)[i] = la[i]
    BY <1>4, <2>1, AppendProperties
  <2> QED BY <1>4, <1>6, <2>2
<1>8. /\ st \in Seq(Frame) /\ Len(st) = n + 1 /\ st[n + 1] = f /\ \A i \in 1 .. n : st[i] = stack[i]
  BY <1>1, AppendProperties
<1> HIDE DEF st
<1>9. DOMAIN st = 1 .. (n + 1)
  BY <1>8, LenProperties
<1>10. ASSUME NEW i \in DOMAIN st PROVE Before(last'[i], <<st[i].line.row, st[i].line.pos>>)
  <2>1. i \in 1 .. (n + 1) /\ last'[i] = la[i]
    BY <1>7, <1>9
  <2>2. CASE i = n + 1
    BY <1>5, <1>8, <2>1, <2>2
  <2>3. CASE i # n + 1
    <3>1. i \in DOMAIN stack /\ st[i] = stack[i]
      BY <1>3, <1>8, <2>1, <2>3
    <3> QED BY <1>3, <1>5, <2>1, <3>1
  <2> QED BY <2>2, <2>3
<1>11. Past(0, c)
  BY <1>1, StreamIs, RowsAre DEF Past
<1>12. Orderly(l, c, st, last')
  <2>1. last'[Len(last')] = <<0, 0>> /\ last'[Len(last')][1] = 0
    BY <1>7
  <2>2. Past(last'[Len(last')][1], c)
    BY <1>11, <2>1
  <2>3. l # Nothing => Before(last'[Len(last')], <<l.row, l.pos>>)
    BY <2>1
  <2>4. last' \in Seq(Nat \X Nat) /\ Len(last') = Len(st) + 1
    BY <1>7, <1>8
  <2> QED BY <1>10, <2>2, <2>3, <2>4 DEF Orderly
<1>13. GivesInOrder
  BY <1>3 DEF GivesInOrder
<1> QED BY <1>12, <1>13 DEF st

\* What Ahead(l) gives is on l's row, from its cursor on.
LEMMA AheadOrders ==
    ASSUME Program, NEW l, NEW b, BoundOK(b), Held(l, b)
    PROVE  /\ Offsets(Ahead(l))
           /\ \A o \in Ahead(l) : /\ o[1] = l.row /\ o[2] \in Nat /\ l.pos <= o[2] /\ o[2] <= l.len
                                  /\ o[2] < l.len \/ l.terminated
<1>1. \A o \in Ahead(l) : o[1] \in DOMAIN text /\ o[2] \in Columns(o[1]) /\ o = <<o[1], o[2]>>
  BY AheadGives
<1>2. l.pos \in Nat /\ l.len \in Nat
  BY HeldIs
<1>3. \A o \in Ahead(l) : /\ o[1] = l.row /\ o[2] \in Nat /\ l.pos <= o[2] /\ o[2] <= l.len
                          /\ o[2] < l.len \/ l.terminated
  BY <1>2 DEF Ahead
<1> QED BY <1>1, <1>3 DEF Offsets

LEMMA AheadSome ==
    ASSUME NEW l, l.pos \in Nat, l.len \in Nat, l.pos < l.len
    PROVE  Ahead(l) # {}
<1> DEFINE D == {d \in l.pos .. l.len : d < l.len \/ l.terminated}
<1>1. l.pos \in D
  OBVIOUS
<1>2. <<l.row, l.pos>> \in {<<l.row, c>> : c \in D}
  BY <1>1
<1> QED BY <1>2 DEF Ahead

\* An offset of the current line comes after what its body gave before, and
\* before the lines to come.
LEMMA CurrentOrders ==
    ASSUME SourceInv, OrderInv, line # Nothing, NEW o, o \in Ahead(line)
    PROVE  Before(last[Len(last)], o) /\ Past(o[1], Coming)
<1>1. /\ Program /\ BoundOK(Bound(stack)) /\ Held(line, Bound(stack)) /\ Past(line.row, Coming)
  BY SourceIs
<1>2. o[1] = line.row /\ o[2] \in Nat /\ line.pos <= o[2]
  BY <1>1, AheadOrders
<1>3. line.row \in Nat /\ line.pos \in Nat
  BY <1>1, HeldIs
<1>4. Before(last[Len(last)], <<line.row, line.pos>>) /\ last[Len(last)] \in Nat \X Nat
  BY OrderlyIs
<1> QED BY <1>1, <1>2, <1>3, <1>4 DEF Before

LEMMA LoadLineOrders ==
    ASSUME SourceInv, OrderInv, LoadLine
    PROVE  Orderly(line', Coming', stack', last') /\ GivesInOrder
<1>1. /\ stack' = stack /\ Coming' = Rest(Coming, 1) /\ line' = LineAt(1, Bound(stack))
      /\ Reach(Bound(stack)) > 0
  BY LoadLineIs
<1>2. last' = last /\ delivered' = delivered
  BY DEF LoadLine, history
<1>3. 1 \in DOMAIN Coming /\ line'.row = Coming[1].row
  BY <1>1, FirstReached
<1>4. /\ Past(last[Len(last)][1], Coming) /\ last[Len(last)] \in Nat \X Nat
      /\ last \in Seq(Nat \X Nat) /\ Len(last) = Len(stack) + 1
      /\ \A i \in DOMAIN stack : Before(last[i], <<stack[i].line.row, stack[i].line.pos>>)
  BY OrderlyIs
<1>5. Before(last[Len(last)], <<line'.row, line'.pos>>)
  BY <1>3, <1>4 DEF Past, Before
<1>6. Past(last[Len(last)][1], Rest(Coming, 1))
  <2>1. 1 \in 0 .. Len(Coming)
    BY <1>3, SourceIs
  <2>2. Within(Rest(Coming, 1), Coming)
    BY <2>1, SourceIs, RestFits
  <2> QED BY <1>4, <2>2, PastWithin
<1>7. Orderly(line', Rest(Coming, 1), stack, last)
  BY <1>4, <1>5, <1>6 DEF Orderly
<1> QED BY <1>1, <1>2, <1>7 DEF GivesInOrder

LEMMA ByteOrders ==
    ASSUME SourceInv, OrderInv, Byte \/ Word
    PROVE  Orderly(line', Coming', stack', last') /\ GivesInOrder
<1>1. /\ Stays /\ line # Nothing /\ Held(line, Bound(stack)) /\ <<line.row, line.pos>> \in Ahead(line)
      /\ line' = [line EXCEPT !.pos = line.pos + 1]
  BY ByteIs, WordIs
<1>2. Give({<<line.row, line.pos>>})
  BY DEF Byte, Word
<1>3. Program /\ BoundOK(Bound(stack))
  BY SourceIs
<1>4. /\ line.row \in Nat /\ line.pos \in Nat /\ line \in LineRecord
  BY <1>1, <1>3, HeldIs
<1>5. line'.row = line.row /\ line'.pos = line.pos + 1
  BY <1>1, <1>4 DEF LineRecord
<1> DEFINE p == <<line.row, line.pos>>
<1>6. Before(last[Len(last)], p) /\ Past(p[1], Coming) /\ Before(p, <<line'.row, line'.pos>>)
  BY <1>1, <1>4, <1>5, CurrentOrders DEF Before
<1>7. Offsets({p}) /\ {p} # {}
  BY <1>1, <1>3, AheadOrders DEF Offsets
<1> HIDE DEF p
<1>8. Give({p})
  BY <1>2 DEF p
<1>9. Orderly(line', Coming, stack, last') /\ GivesInOrder
  BY <1>6, <1>7, <1>8, GiveOrders
<1> QED BY <1>1, <1>9 DEF Stays

LEMMA CommentOrders ==
    ASSUME SourceInv, OrderInv, Comment
    PROVE  Orderly(line', Coming', stack', last') /\ GivesInOrder
<1>1. /\ stack' = stack /\ line # Nothing /\ Held(line, Bound(stack)) /\ line.pos < line.len
  BY CommentIs
<1>2. Give(Ahead(line))
  BY DEF Comment
<1>3. Program /\ BoundOK(Bound(stack))
  BY SourceIs
<1>4. /\ line.row \in Nat /\ line.pos \in Nat /\ line.len \in Nat /\ line \in LineRecord
  BY <1>1, <1>3, HeldIs
<1>5. Ahead(line) # {}
  BY <1>1, <1>4, AheadSome
<1>6. \A o \in Ahead(line) : Before(o, <<line'.row, line'.pos>>) /\ Past(o[1], Coming')
  <2> TAKE o \in Ahead(line)
  <2>1. /\ o[1] = line.row /\ o[2] \in Nat /\ line.pos <= o[2] /\ o[2] <= line.len
        /\ o[2] < line.len \/ line.terminated
    BY <1>1, <1>3, AheadOrders
  <2>2. Past(o[1], Coming)
    BY <1>1, CurrentOrders
  <2>3. CASE /\ Reach(Bound(stack)) > 0 /\ Coming' = Rest(Coming, 1)
             /\ line' = [LineAt(1, Bound(stack)) EXCEPT !.number = NextNumber]
    <3> DEFINE a == LineAt(1, Bound(stack))
    <3>1. 1 \in DOMAIN Coming /\ Held(a, Bound(stack)) /\ a.row = Coming[1].row
      BY <2>3, FirstReached
    <3>2. a \in LineRecord
      BY <3>1 DEF Held
    <3>3. line' = [a EXCEPT !.number = NextNumber]
      BY <2>3
    <3> HIDE DEF a
    <3>4. line'.row = Coming[1].row
      BY <3>1, <3>2, <3>3 DEF LineRecord
    <3>5. Before(o, <<line'.row, line'.pos>>)
      BY <2>2, <3>1, <3>4 DEF Before, Past
    <3>6. 1 \in 0 .. Len(Coming)
      BY <3>1, SourceIs
    <3>7. Within(Rest(Coming, 1), Coming)
      BY <3>6, SourceIs, RestFits
    <3> QED BY <2>2, <2>3, <3>5, <3>7, PastWithin
  <2>4. CASE /\ Coming' = Coming
             /\ line' = [line EXCEPT !.pos = line.len + (IF line.terminated THEN 1 ELSE 0)]
    <3>1. /\ line'.row = line.row
          /\ line'.pos = line.len + (IF line.terminated THEN 1 ELSE 0)
      BY <1>4, <2>4 DEF LineRecord
    <3>2. o[2] < line'.pos
      <4>1. CASE line.terminated
        BY <1>4, <2>1, <3>1, <4>1
      <4>2. CASE ~line.terminated
        BY <1>4, <2>1, <3>1, <4>2
      <4> QED BY <4>1, <4>2
    <3> QED BY <2>1, <2>2, <2>4, <3>1, <3>2 DEF Before
  <2> QED BY <2>3, <2>4, CommentIs
<1>7. \A o \in Ahead(line) : Before(last[Len(last)], o)
  BY <1>1, CurrentOrders
<1>8. Offsets(Ahead(line))
  BY <1>1, <1>3, AheadOrders
<1>9. Orderly(line', Coming', stack, last') /\ GivesInOrder
  BY <1>2, <1>5, <1>6, <1>7, <1>8, GiveOrders
<1> QED BY <1>1, <1>9

LEMMA PodOrders ==
    ASSUME SourceInv, OrderInv, Pod
    PROVE  Orderly(line', Coming', stack', last') /\ GivesInOrder
<1> DEFINE b == Bound(stack)
<1>1. /\ stack' = stack /\ line # Nothing /\ line' = Nothing /\ Held(line, b) /\ line.pos < line.len
  BY PodIs
<1>2. PICK k \in 0 .. Reach(b) :
        /\ Coming' = Rest(Coming, k)
        /\ Give(Ahead(line) \cup UNION {Ahead(LineAt(i, b)) : i \in 1 .. k})
  BY PodIs
<1> DEFINE os == Ahead(line) \cup UNION {Ahead(LineAt(i, b)) : i \in 1 .. k}
<1>3. /\ Program /\ BoundOK(b) /\ Stream(Coming) /\ Bodies(stack, Coming) /\ number \in Nat
      /\ Reach(b) \in 0 .. Len(Coming) /\ Len(Coming) \in Nat /\ DOMAIN Coming = 1 .. Len(Coming)
      /\ \A i \in DOMAIN Coming : i <= Reach(b) <=> Reaches(b, Coming[i].row)
  BY SourceIs
<1> HIDE DEF b
<1>4. k \in 0 .. Len(Coming) /\ k \in Nat /\ \A i \in 1 .. k : i \in DOMAIN Coming /\ i <= Reach(b)
  BY <1>3
<1>5. ASSUME NEW i \in 1 .. k
      PROVE  Held(LineAt(i, b), b) /\ LineAt(i, b).row = Coming[i].row
  BY <1>3, <1>4, LineAtIs
<1>6. /\ Within(Rest(Coming, k), Coming) /\ \A i \in 1 .. k : Past(Coming[i].row, Rest(Coming, k))
  BY <1>3, <1>4, RestFits
<1>7. /\ Past(last[Len(last)][1], Coming)
  BY OrderlyIs
<1>8. ASSUME NEW o \in os
      PROVE  /\ Before(last[Len(last)], o) /\ Past(o[1], Rest(Coming, k))
             /\ o[1] \in DOMAIN text /\ o[2] \in Columns(o[1]) /\ o = <<o[1], o[2]>>
  <2>1. CASE o \in Ahead(line)
    <3>1. Before(last[Len(last)], o) /\ Past(o[1], Coming)
      BY <1>1, <2>1, CurrentOrders
    <3>2. Offsets(Ahead(line))
      BY <1>1, <1>3, AheadOrders
    <3> QED BY <1>6, <2>1, <3>1, <3>2, PastWithin DEF Offsets
  <2>2. CASE \E i \in 1 .. k : o \in Ahead(LineAt(i, b))
    <3>1. PICK i \in 1 .. k : o \in Ahead(LineAt(i, b))
      BY <2>2
    <3>2. Held(LineAt(i, b), b) /\ LineAt(i, b).row = Coming[i].row
      BY <1>5
    <3>3. Offsets(Ahead(LineAt(i, b))) /\ o[1] = LineAt(i, b).row
      BY <1>3, <3>1, <3>2, AheadOrders
    <3>4. o[1] = Coming[i].row /\ i \in DOMAIN Coming
      BY <1>4, <3>2, <3>3
    <3>5. Before(last[Len(last)], o) /\ Past(o[1], Rest(Coming, k))
      BY <1>6, <1>7, <3>4 DEF Before, Past
    <3> QED BY <3>1, <3>3, <3>5 DEF Offsets
  <2> QED BY <2>1, <2>2
<1>9. os # {}
  <2>1. line.len \in Nat /\ line.pos \in Nat
    BY <1>1, <1>3, HeldIs
  <2> QED BY <1>1, <2>1, AheadSome
<1>10. Give(os)
  BY <1>2
<1> HIDE DEF os
<1>11. Offsets(os)
  BY <1>8 DEF Offsets
<1>12. Orderly(Nothing, Rest(Coming, k), stack, last') /\ GivesInOrder
  BY <1>8, <1>9, <1>10, <1>11, GiveOrders
<1> QED BY <1>1, <1>2, <1>12

LEMMA EndBodyOrders ==
    ASSUME SourceInv, OrderInv, EndBody
    PROVE  Orderly(line', Coming', stack', last') /\ GivesInOrder
<1> DEFINE n == Len(stack)
           w == Front(stack)
           la == Front(last)
<1>1. /\ Coming' = Coming /\ stack # <<>> /\ stack' = w /\ line' = stack[n].line /\ last' = la
  BY EndBodyIs
<1>2. delivered' = delivered
  BY DEF EndBody
<1>3. /\ n \in Nat /\ last \in Seq(Nat \X Nat) /\ Len(last) = n + 1 /\ DOMAIN stack = 1 .. n
      /\ \A i \in DOMAIN stack : Before(last[i], <<stack[i].line.row, stack[i].line.pos>>)
      /\ \A i \in DOMAIN stack : i \in DOMAIN last
  BY OrderlyIs
<1>4. stack \in Seq(Frame) /\ last # <<>> /\ n \in DOMAIN stack
  <2>1. stack \in Seq(Frame)
    BY SourceIs DEF Bodies
  <2> QED BY <1>1, <1>3, <2>1, EmptySeq
<1>5. /\ Len(w) = n - 1 /\ DOMAIN w = 1 .. (n - 1) /\ \A i \in 1 .. (n - 1) : w[i] = stack[i]
  BY <1>1, <1>4, FrontIs
<1>6. /\ la \in Seq(Nat \X Nat) /\ Len(la) = n /\ \A i \in 1 .. n : la[i] = last[i]
  <2>1. /\ la \in Seq(Nat \X Nat) /\ Len(la) = Len(last) - 1
        /\ \A i \in 1 .. (Len(last) - 1) : la[i] = last[i]
    BY <1>3, <1>4, FrontIs
  <2>2. Len(last) - 1 = n
    <3> HIDE DEF n
    <3> QED BY <1>3
  <2> QED BY <2>1, <2>2
<1>7. Fits(line', Coming, w)
  BY <1>1, EndBodyIs DEF Kept
<1>8. line' # Nothing
  <2>1. /\ Program /\ BoundOK(Outer(stack, n)) /\ Held(line', Outer(stack, n))
    BY <1>4, EndBodyIs, SourceIs, BoundsAreOK
  <2> QED BY <2>1, HeldIs
<1>9. Past(line'.row, Coming) /\ Held(line', Bound(w))
  BY <1>7, <1>8 DEF Fits
<1>10. line'.row \in Nat
  <2>1. line'.row \in DOMAIN text /\ Program
    BY <1>9, SourceIs DEF Held
  <2> QED BY <2>1, RowsAre
<1> HIDE DEF n, w, la
<1>11. la[n] = last[n] /\ Before(la[n], <<line'.row, line'.pos>>) /\ la[n] \in Nat \X Nat
  <2>1. n \in 1 .. n
    BY <1>3, <1>4
  <2>2. la[n] \in Nat \X Nat
    BY <1>6, <2>1, ElementOfSeq
  <2> QED BY <1>1, <1>3, <1>4, <1>6, <2>1, <2>2
<1>12. Past(la[n][1], Coming)
  <2>1. la[n][1] <= line'.row /\ la[n][1] \in Nat
    BY <1>10, <1>11 DEF Before
  <2> QED BY <1>9, <1>10, <2>1, SourceIs, PastBefore
<1>13. \A i \in DOMAIN w : Before(la[i], <<w[i].line.row, w[i].line.pos>>)
  <2> TAKE i \in DOMAIN w
  <2>1. i \in 1 .. (n - 1) /\ i \in 1 .. n /\ i \in DOMAIN stack
    BY <1>3, <1>5
  <2>2. w[i] = stack[i] /\ la[i] = last[i]
    BY <1>5, <1>6, <2>1
  <2> QED BY <1>3, <2>1, <2>2
<1>14. Orderly(line', Coming, w, la)
  <2>1. Len(la) = Len(w) + 1 /\ Len(la) = n
    BY <1>3, <1>5, <1>6
  <2> QED BY <1>6, <1>11, <1>12, <1>13, <2>1 DEF Orderly
<1> QED BY <1>1, <1>2, <1>14 DEF GivesInOrder

LEMMA HeredocOrders ==
    ASSUME SourceInv, OrderInv, StartHeredoc, status' # "error"
    PROVE  Orderly(line', Coming', stack', last') /\ GivesInOrder
<1>1. Kept /\ line # Nothing /\ Held(line, Bound(stack))
  BY StartHeredocIs
<1>2. PICK h, k, qs : HeredocBegun(h, k, qs)
  BY StartHeredocIs
<1> DEFINE f == [line |-> [line EXCEPT !.pos = line.pos + 1], bound |-> [row |-> Coming[k].row, col |-> 0]]
<1>3. /\ line' = Nothing /\ stack' = Append(stack, f) /\ f \in Frame
      /\ last' = Append([last EXCEPT ![Len(last)] = <<line.row, line.pos>>], <<0, 0>>)
      /\ delivered' = delivered \cup {<<line.row, line.pos>>}
  BY <1>2 DEF HeredocBegun
<1>4. line \in LineRecord /\ line.row \in Nat /\ line.pos \in Nat
  BY <1>1, SourceIs, HeldIs
<1>5. f.line.row = line.row /\ f.line.pos = line.pos + 1
  BY <1>4 DEF LineRecord
<1> HIDE DEF f
<1>6. Before(<<line.row, line.pos>>, <<f.line.row, f.line.pos>>)
  BY <1>4, <1>5 DEF Before
<1>7. Stream(Coming')
  BY <1>1 DEF Kept, Fits
<1>8. Orderly(line', Coming', Append(stack, f), last') /\ GivesInOrder
  BY <1>1, <1>3, <1>6, <1>7, BodyOrders
<1> QED BY <1>3, <1>8

LEMMA DelimitedBodyOrders ==
    ASSUME SourceInv, OrderInv, StartDelimitedBody, status' # "error"
    PROVE  Orderly(line', Coming', stack', last') /\ GivesInOrder
<1>1. Kept /\ line # Nothing /\ Held(line, Bound(stack))
  BY StartDelimitedBodyIs
<1>2. PICK k, col : DelimitedBegun(k, col)
  BY StartDelimitedBodyIs
<1> DEFINE ends == ScanLine(k)
           f == [line |-> [ends EXCEPT !.pos = col + 1], bound |-> [row |-> ends.row, col |-> col]]
<1>3. /\ stack' = Append(stack, f) /\ f \in Frame
      /\ k \in 0 .. Reach(Bound(stack)) /\ Held(ends, Bound(stack)) /\ col \in Nat /\ ends.pos <= col
      /\ line'.row = line.row /\ line'.pos = line.pos + 1
      /\ last' = Append([last EXCEPT ![Len(last)] = <<line.row, line.pos>>], <<0, 0>>)
      /\ delivered' = delivered \cup {<<line.row, line.pos>>}
  BY <1>2 DEF DelimitedBegun
<1>4. /\ line \in LineRecord /\ line.row \in Nat /\ line.pos \in Nat /\ line.row \in DOMAIN text
      /\ ends \in LineRecord /\ ends.row \in Nat /\ ends.pos \in Nat /\ Program /\ Past(line.row, Coming)
  BY <1>1, <1>3, SourceIs, HeldIs
<1>5. line.row < ends.row \/ (line.row = ends.row /\ ends.pos = line.pos + 1)
  <2>1. CASE k = 0
    BY <1>1, <1>3, <2>1, ScanLineIs
  <2>2. CASE k # 0
    <3>1. k \in DOMAIN Coming /\ ends.row = Coming[k].row
      BY <1>1, <1>3, <2>2, ScanLineIs
    <3> QED BY <1>4, <3>1 DEF Past
  <2> QED BY <2>1, <2>2
<1> HIDE DEF ends
<1>6. f.line.row = ends.row /\ f.line.pos = col + 1
  BY <1>4 DEF LineRecord
<1> HIDE DEF f
<1>7. Before(<<line.row, line.pos>>, <<f.line.row, f.line.pos>>)
  BY <1>3, <1>4, <1>5, <1>6 DEF Before
<1>8. Stream(Coming')
  BY <1>1 DEF Kept, Fits
<1>9. Before(<<0, 0>>, <<line'.row, line'.pos>>)
  <2>1. 1 <= line.row
    BY <1>4, RowsAre
  <2> QED BY <1>3, <1>4, <2>1 DEF Before
<1>10. Orderly(line', Coming', Append(stack, f), last') /\ GivesInOrder
  BY <1>1, <1>3, <1>7, <1>8, <1>9, BodyOrders
<1> QED BY <1>3, <1>10

LEMMA OrderStep ==
    ASSUME SourceInv, OrderInv, [Next]_vars
    PROVE  OrderInv' /\ GivesInOrder
<1>1. text' = text
  BY SourceStep DEF Kept
<1>2. SUFFICES Orderly(line', Coming', stack', last') /\ GivesInOrder
  BY <1>1, OrderlyCarried DEF OrderInv
<1>3. CASE UNCHANGED <<text, source, history>>
  <2>1. last' = last /\ delivered' = delivered
    BY <1>3 DEF history
  <2>2. Stays /\ line' = line
    BY <1>3, QuietKept
  <2> QED BY <2>1, <2>2 DEF Stays, OrderInv, GivesInOrder
<1> QED BY <1>3, StepsAre, LoadLineOrders, ByteOrders, CommentOrders, PodOrders, EndBodyOrders,
           HeredocOrders, DelimitedBodyOrders

\* Within one body the bytes come in the order of the text, whatever bodies are
\* delivered in between.  (source.rs next_line)
THEOREM BytesComeInOrder == Spec => InOrder
<1>1. Init => OrderInv
  <2> SUFFICES ASSUME Init PROVE OrderInv
    OBVIOUS
  <2>1. SourceInv /\ line = Nothing /\ stack = <<>> /\ last = <<<<0, 0>>>>
    BY SourceInit
  <2>2. Program /\ Stream(Coming)
    BY <2>1, SourceIs
  <2>3. \A i \in DOMAIN Coming : 0 < Coming[i].row
    BY <2>2, StreamIs, RowsAre
  <2>4. last \in Seq(Nat \X Nat) /\ Len(last) = 1 /\ last[1] = <<0, 0>> /\ last[1][1] = 0 /\ Len(stack) = 0
    BY <2>1
  <2> QED BY <2>1, <2>3, <2>4 DEF OrderInv, Orderly, Past
<1>2. SourceInv /\ OrderInv /\ [Next]_vars => OrderInv'
  BY OrderStep
<1>3. SourceInv /\ OrderInv /\ [Next]_vars => [\A o \in delivered' \ delivered : Before(last[Len(last)], o)]_vars
  BY OrderStep DEF GivesInOrder
<1> QED BY <1>1, <1>2, <1>3, SourceInvariant, PTL DEF Spec, InOrder

-----------------------------------------------------------------------------
(* Every byte in one place.                                                *)

\* A suspended line, or a line to come, has the byte at column d of row r.
Suspended(st, r, d) == \E i \in DOMAIN st : Gives(st[i].line, Outer(st, i), r, d)
QueuedAt(c, st, x, r, d) == c[x].row = r /\ c[x].indent <= d /\ Shown(ReaderIn(st, r), r, d)
Queued(c, st, r, d) == \E x \in DOMAIN c : QueuedAt(c, st, x, r, d)

\* At most one of five, and at least one.
OneOf(a, b, g, s, q) ==
    /\ a \/ b \/ g \/ s \/ q
    /\ ~(a /\ b) /\ ~(a /\ g) /\ ~(a /\ s) /\ ~(a /\ q)
    /\ ~(b /\ g) /\ ~(b /\ s) /\ ~(b /\ q)
    /\ ~(g /\ s) /\ ~(g /\ q) /\ ~(s /\ q)

\* The byte is in one place.
Placed(l, c, st, del, pas, r, d) ==
    /\ OneOf(<<r, d>> \in del, <<r, d>> \in pas, Gives(l, Bound(st), r, d),
             Suspended(st, r, d), Queued(c, st, r, d))
    /\ \A i, j \in DOMAIN st :
        Gives(st[i].line, Outer(st, i), r, d) /\ Gives(st[j].line, Outer(st, j), r, d) => i = j

AllPlaced(l, c, st, del, pas) ==
    /\ del \cup pas \subseteq AllOffsets
    /\ \A r \in DOMAIN text : \A d \in Columns(r) : Placed(l, c, st, del, pas, r, d)

PlaceInv == AllPlaced(line, Coming, stack, delivered, passed)

LEMMA PlacedCarried ==
    ASSUME text' = text
    PROVE  AllPlaced(line, Coming, stack, delivered, passed)'
             <=> AllPlaced(line', Coming', stack', delivered', passed')
  BY DEF AllPlaced, Placed, Gives, Suspended, Queued, QueuedAt, Outer, Bound, ReaderIn, Shown,
         AllOffsets, Columns, Symbols, Terminated

\* The offsets of the text.
LEMMA AllOffsetsAre ==
    /\ \A o : o \in AllOffsets <=> \E r \in DOMAIN text : \E d \in Columns(r) : o = <<r, d>>
    /\ \A os : Offsets(os) => os \subseteq AllOffsets
  BY DEF AllOffsets, Offsets

LEMMA ColumnsAre ==
    ASSUME Program, NEW r \in DOMAIN text, NEW d \in Columns(r)
    PROVE  r \in Nat /\ d \in Nat /\ d <= Len(Symbols(r)) /\ Len(Symbols(r)) \in Nat
  BY RowsAre DEF Columns

\* An exhausted line has nothing left to give.
LEMMA ExhaustedGives ==
    ASSUME SourceInv, Exhausted, NEW r \in DOMAIN text, NEW d \in Columns(r)
    PROVE  ~Gives(line, Bound(stack), r, d)
<1> SUFFICES ASSUME Gives(line, Bound(stack), r, d) PROVE FALSE
  OBVIOUS
<1>1. line # Nothing /\ Program /\ BoundOK(Bound(stack)) /\ Held(line, Bound(stack))
  BY SourceIs DEF Gives
<1>2. <<r, d>> \in Ahead(line)
  BY <1>1, AheadGives
<1>3. line.pos \in Nat /\ line.len \in Nat
  BY <1>1, HeldIs
<1>4. PeekAt(line, line.pos) = Nothing
  BY <1>1 DEF Exhausted
<1>5. <<line.row, line.pos>> \notin Ahead(line)
  BY <1>1, <1>3, <1>4, PeekIs
<1>6. d \in Nat /\ line.pos <= d /\ d <= line.len /\ (d < line.len \/ line.terminated)
  BY <1>1, <1>2, AheadOrders
<1>7. line.pos \in {e \in line.pos .. line.len : e < line.len \/ line.terminated}
  BY <1>3, <1>6
<1>8. <<line.row, line.pos>> \in {<<line.row, c>> : c \in {e \in line.pos .. line.len : e < line.len \/ line.terminated}}
  BY <1>7
<1> QED BY <1>5, <1>8 DEF Ahead

\* A line within reach, as next_line delivers it.
LEMMA ReachedGives ==
    ASSUME SourceInv, NEW i \in 1 .. Reach(Bound(stack)), NEW r \in DOMAIN text, NEW d \in Columns(r)
    PROVE  /\ i \in DOMAIN Coming /\ Held(LineAt(i, Bound(stack)), Bound(stack))
           /\ LineAt(i, Bound(stack)).row = Coming[i].row
           /\ Gives(LineAt(i, Bound(stack)), Bound(stack), r, d) <=> QueuedAt(Coming, stack, i, r, d)
<1> DEFINE b == Bound(stack)
<1>1. /\ Program /\ BoundOK(b) /\ Stream(Coming) /\ Bodies(stack, Coming) /\ number \in Nat
      /\ Reach(b) \in 0 .. Len(Coming) /\ Len(Coming) \in Nat /\ DOMAIN Coming = 1 .. Len(Coming)
      /\ \A x \in DOMAIN Coming : x <= Reach(b) <=> Reaches(b, Coming[x].row)
  BY SourceIs
<1>2. i \in DOMAIN Coming /\ i <= Reach(b)
  BY <1>1
<1>3. Reaches(b, Coming[i].row) /\ Coming[i].row \in Nat
  BY <1>1, <1>2, StreamIs
<1> DEFINE l == LineAt(i, b)
<1>4. Held(l, b) /\ l.row = Coming[i].row /\ l.pos = Coming[i].indent
  BY <1>1, <1>2, <1>3, LineAtIs
<1>5. ReaderIn(stack, Coming[i].row) = b
  BY <1>1, <1>3, ReaderTop
<1>6. l # Nothing
  BY <1>1, <1>4, HeldIs
<1> HIDE DEF l, b
<1>7. Gives(l, b, r, d) <=> QueuedAt(Coming, stack, i, r, d)
  BY <1>4, <1>5, <1>6 DEF Gives, QueuedAt
<1> QED BY <1>2, <1>4, <1>7 DEF l, b

\* What the lines to come have is what the first k have and what the others
\* have.
LEMMA TakenGives ==
    ASSUME SourceInv, NEW k \in 0 .. Len(Coming), NEW st, NEW r, NEW d
    PROVE  /\ Queued(Coming, st, r, d) <=>
                (\E i \in 1 .. k : QueuedAt(Coming, st, i, r, d)) \/ Queued(Rest(Coming, k), st, r, d)
           /\ ~((\E i \in 1 .. k : QueuedAt(Coming, st, i, r, d)) /\ Queued(Rest(Coming, k), st, r, d))
<1> DEFINE c == Rest(Coming, k)
           n == Len(Coming)
<1>1. /\ Stream(Coming) /\ n \in Nat /\ DOMAIN Coming = 1 .. n /\ Coming \in Seq(Upcoming) /\ Program
  BY SourceIs
<1>2. /\ c \in Seq(Upcoming) /\ Len(c) = n - k /\ \A i \in 1 .. (n - k) : c[i] = Coming[k + i]
  BY <1>1, RestIs
<1>3. DOMAIN c = 1 .. (n - k)
  BY <1>2, LenProperties
<1> HIDE DEF c, n
<1>4. k \in Nat /\ k <= n
  BY <1>1 DEF n
<1>5. ASSUME NEW x \in DOMAIN c
      PROVE  k + x \in DOMAIN Coming /\ (QueuedAt(c, st, x, r, d) <=> QueuedAt(Coming, st, k + x, r, d))
  <2>1. k + x \in DOMAIN Coming /\ x \in 1 .. (n - k)
    BY <1>1, <1>3, <1>4
  <2>2. c[x] = Coming[k + x]
    BY <1>2, <2>1
  <2> QED BY <2>1, <2>2 DEF QueuedAt
<1>6. ASSUME NEW x \in DOMAIN Coming, QueuedAt(Coming, st, x, r, d)
      PROVE  (x \in 1 .. k) \/ Queued(c, st, r, d)
  <2>1. CASE x \in 1 .. k
    BY <2>1
  <2>2. CASE x \notin 1 .. k
    <3>1. x - k \in DOMAIN c /\ k + (x - k) = x
      BY <1>1, <1>3, <1>4, <2>2
    <3>2. QueuedAt(c, st, x - k, r, d)
      BY <1>5, <1>6, <3>1
    <3> QED BY <3>1, <3>2 DEF Queued
  <2> QED BY <2>1, <2>2
<1>7. ASSUME NEW i \in 1 .. k PROVE i \in DOMAIN Coming
  BY <1>1, <1>4
<1>8. ASSUME NEW i \in 1 .. k, QueuedAt(Coming, st, i, r, d), Queued(c, st, r, d) PROVE FALSE
  <2>1. PICK x \in DOMAIN c : QueuedAt(c, st, x, r, d)
    BY <1>8 DEF Queued
  <2>2. k + x \in DOMAIN Coming /\ Coming[k + x].row = r /\ Coming[i].row = r
    BY <1>5, <1>8, <2>1 DEF QueuedAt
  <2>3. i < k + x /\ i \in DOMAIN Coming
    BY <1>3, <1>4, <1>7
  <2>4. Coming[i].row < Coming[k + x].row
    BY <1>1, <2>2, <2>3 DEF Stream
  <2>5. Coming[i].row \in Nat
    BY <1>1, <2>3, StreamIs
  <2> QED BY <2>2, <2>4, <2>5
<1>9. Queued(Coming, st, r, d) <=> (\E i \in 1 .. k : QueuedAt(Coming, st, i, r, d)) \/ Queued(c, st, r, d)
  BY <1>5, <1>6, <1>7 DEF Queued
<1> QED BY <1>8, <1>9 DEF c

LEMMA LoadLinePlaces ==
    ASSUME SourceInv, PlaceInv, LoadLine
    PROVE  AllPlaced(line', Coming', stack', delivered', passed')
<1>1. /\ stack' = stack /\ Coming' = Rest(Coming, 1) /\ line' = LineAt(1, Bound(stack))
      /\ Reach(Bound(stack)) > 0
  BY LoadLineIs
<1>2. delivered' = delivered /\ passed' = passed /\ Exhausted
  BY DEF LoadLine, history
<1>3. 1 \in 1 .. Reach(Bound(stack)) /\ 1 \in 0 .. Len(Coming)
  BY <1>1, SourceIs
<1>4. ASSUME NEW r \in DOMAIN text, NEW d \in Columns(r)
      PROVE  Placed(line', Rest(Coming, 1), stack, delivered, passed, r, d)
  <2>1. Placed(line, Coming, stack, delivered, passed, r, d)
    BY DEF PlaceInv, AllPlaced
  <2>2. ~Gives(line, Bound(stack), r, d)
    BY <1>2, ExhaustedGives
  <2>3. Gives(line', Bound(stack), r, d) <=> QueuedAt(Coming, stack, 1, r, d)
    BY <1>1, <1>3, ReachedGives
  <2>4. /\ Queued(Coming, stack, r, d) <=>
                (\E i \in 1 .. 1 : QueuedAt(Coming, stack, i, r, d)) \/ Queued(Rest(Coming, 1), stack, r, d)
        /\ ~((\E i \in 1 .. 1 : QueuedAt(Coming, stack, i, r, d)) /\ Queued(Rest(Coming, 1), stack, r, d))
    BY <1>3, TakenGives
  <2>5. (\E i \in 1 .. 1 : QueuedAt(Coming, stack, i, r, d)) <=> QueuedAt(Coming, stack, 1, r, d)
    <3>1. \A i \in 1 .. 1 : i = 1
      OBVIOUS
    <3>2. 1 \in 1 .. 1
      OBVIOUS
    <3> QED BY <3>1, <3>2, Zenon
  <2> QED BY <2>1, <2>2, <2>3, <2>4, <2>5 DEF Placed, OneOf
<1>5. delivered \cup passed \subseteq AllOffsets
  BY DEF PlaceInv, AllPlaced
<1> QED BY <1>1, <1>2, <1>4, <1>5 DEF AllPlaced

LEMMA BytePlaces ==
    ASSUME SourceInv, PlaceInv, Byte \/ Word
    PROVE  AllPlaced(line', Coming', stack', delivered', passed')
<1>1. /\ Stays /\ line # Nothing /\ Held(line, Bound(stack)) /\ <<line.row, line.pos>> \in Ahead(line)
      /\ line' = [line EXCEPT !.pos = line.pos + 1] /\ Kept
  BY ByteIs, WordIs
<1>2. delivered' = delivered \cup {<<line.row, line.pos>>} /\ passed' = passed
  BY DEF Byte, Word, Give
<1>3. Program /\ BoundOK(Bound(stack))
  BY SourceIs
<1>4. /\ line.row \in Nat /\ line.pos \in Nat /\ line \in LineRecord /\ line.row \in DOMAIN text
  BY <1>1, <1>3, HeldIs
<1>5. line'.row = line.row /\ line'.pos = line.pos + 1 /\ line' # Nothing
  <2>1. line' \in LineRecord /\ line'.row = line.row /\ line'.pos = line.pos + 1
    BY <1>1, <1>4 DEF LineRecord
  <2> QED BY <2>1, NothingIsNone
<1>6. ASSUME NEW r \in DOMAIN text, NEW d \in Columns(r)
      PROVE  Placed(line', Coming, stack, delivered', passed, r, d)
  <2>1. Placed(line, Coming, stack, delivered, passed, r, d)
    BY DEF PlaceInv, AllPlaced
  <2>2. r \in Nat /\ d \in Nat
    BY <1>3, ColumnsAre
  <2> DEFINE now == r = line.row /\ d = line.pos
  <2>3. <<r, d>> \in delivered' <=> <<r, d>> \in delivered \/ now
    BY <1>2
  <2>4. now => Gives(line, Bound(stack), r, d)
    BY <1>1, <1>3, AheadGives
  <2>5. Gives(line', Bound(stack), r, d) <=> Gives(line, Bound(stack), r, d) /\ ~now
    BY <1>1, <1>4, <1>5, <2>2 DEF Gives
  <2> HIDE DEF now
  <2> QED BY <2>1, <2>3, <2>4, <2>5 DEF Placed, OneOf
<1>7. delivered' \cup passed \subseteq AllOffsets
  <2>1. delivered \cup passed \subseteq AllOffsets
    BY DEF PlaceInv, AllPlaced
  <2>2. Ahead(line) \subseteq AllOffsets
    BY <1>1, <1>3, AheadOrders, AllOffsetsAre
  <2> QED BY <1>1, <1>2, <2>1, <2>2
<1>8. stack' = stack /\ Coming' = Coming
  BY <1>1 DEF Stays
<1> QED BY <1>2, <1>6, <1>7, <1>8 DEF AllPlaced

\* The offsets a held line gives are given by it alone.
LEMMA AheadPlaces ==
    ASSUME Program, NEW l, NEW b, BoundOK(b), Held(l, b)
    PROVE  /\ Ahead(l) \subseteq AllOffsets
           /\ \A r \in DOMAIN text : \A d \in Columns(r) : <<r, d>> \in Ahead(l) <=> Gives(l, b, r, d)
  BY AheadOrders, AllOffsetsAre, AheadGives

LEMMA CommentPlaces ==
    ASSUME SourceInv, PlaceInv, Comment
    PROVE  AllPlaced(line', Coming', stack', delivered', passed')
<1> DEFINE b == Bound(stack)
<1>1. /\ stack' = stack /\ line # Nothing /\ Held(line, b) /\ line.pos < line.len
  BY CommentIs
<1>2. delivered' = delivered \cup Ahead(line) /\ passed' = passed
  BY DEF Comment, Give
<1>3. /\ Program /\ BoundOK(b) /\ Reach(b) \in 0 .. Len(Coming) /\ Len(Coming) \in Nat
  BY SourceIs
<1>4. Ahead(line) \subseteq AllOffsets
  BY <1>1, <1>3, AheadPlaces
<1>5. delivered' \cup passed' \subseteq AllOffsets
  BY <1>2, <1>4 DEF PlaceInv, AllPlaced
<1>6. /\ line.row \in Nat /\ line.pos \in Nat /\ line.len \in Nat /\ line \in LineRecord
  BY <1>1, <1>3, HeldIs
<1>7. ASSUME NEW r \in DOMAIN text, NEW d \in Columns(r)
      PROVE  Placed(line', Coming', stack, delivered', passed, r, d)
  <2>1. Placed(line, Coming, stack, delivered, passed, r, d)
    BY DEF PlaceInv, AllPlaced
  <2>2. <<r, d>> \in delivered' <=> <<r, d>> \in delivered \/ Gives(line, b, r, d)
    BY <1>1, <1>2, <1>3, AheadPlaces
  <2>3. CASE /\ Reach(b) > 0 /\ Coming' = Rest(Coming, 1)
             /\ line' = [LineAt(1, b) EXCEPT !.number = NextNumber]
    <3>1. 1 \in 1 .. Reach(b) /\ 1 \in 0 .. Len(Coming)
      BY <1>3, <2>3
    <3> DEFINE a == LineAt(1, b)
    <3>2. Gives(a, b, r, d) <=> QueuedAt(Coming, stack, 1, r, d)
      BY <3>1, ReachedGives
    <3>3. a \in LineRecord /\ a # Nothing
      BY <3>1, <1>3, ReachedGives, HeldIs
    <3>4. line' = [a EXCEPT !.number = NextNumber]
      BY <2>3
    <3> HIDE DEF a
    <3>5. /\ line' # Nothing /\ line'.row = a.row /\ line'.pos = a.pos
      <4>1. NextNumber \in Nat
        BY SourceLinesAssumption, SourceIs DEF NextNumber
      <4>2. line' \in LineRecord /\ line'.row = a.row /\ line'.pos = a.pos
        BY <3>3, <3>4, <4>1 DEF LineRecord
      <4> QED BY <4>2, NothingIsNone
    <3>6. Gives(line', b, r, d) <=> QueuedAt(Coming, stack, 1, r, d)
      BY <3>2, <3>3, <3>5 DEF Gives
    <3>7. /\ Queued(Coming, stack, r, d) <=>
                (\E i \in 1 .. 1 : QueuedAt(Coming, stack, i, r, d)) \/ Queued(Rest(Coming, 1), stack, r, d)
          /\ ~((\E i \in 1 .. 1 : QueuedAt(Coming, stack, i, r, d)) /\ Queued(Rest(Coming, 1), stack, r, d))
      BY <3>1, TakenGives
    <3>8. (\E i \in 1 .. 1 : QueuedAt(Coming, stack, i, r, d)) <=> QueuedAt(Coming, stack, 1, r, d)
      <4>1. \A i \in 1 .. 1 : i = 1
        OBVIOUS
      <4>2. 1 \in 1 .. 1
        OBVIOUS
      <4> QED BY <4>1, <4>2, Zenon
    <3> QED BY <2>1, <2>2, <2>3, <3>6, <3>7, <3>8 DEF Placed, OneOf
  <2>4. CASE /\ Coming' = Coming
             /\ line' = [line EXCEPT !.pos = line.len + (IF line.terminated THEN 1 ELSE 0)]
    <3>1. /\ line'.row = line.row
          /\ line'.pos = line.len + (IF line.terminated THEN 1 ELSE 0)
      BY <1>6, <2>4 DEF LineRecord
    <3>2. ASSUME Gives(line', b, r, d) PROVE FALSE
      <4>1. r = line.row /\ line'.pos <= d /\ Shown(b, r, d)
        BY <3>1, <3>2 DEF Gives
      <4>2. line.len <= line'.pos /\ line'.pos \in Nat /\ (line.terminated => line.len < line'.pos)
        <5>1. CASE line.terminated
          BY <1>6, <3>1, <5>1
        <5>2. CASE ~line.terminated
          BY <1>6, <3>1, <5>2
        <5> QED BY <5>1, <5>2
      <4>3. d \in Nat
        BY <1>3, ColumnsAre
      <4>4. Gives(line, b, r, d)
        BY <1>1, <1>6, <4>1, <4>2, <4>3 DEF Gives
      <4>5. <<r, d>> \in Ahead(line)
        BY <1>1, <1>3, <4>4, AheadPlaces
      <4>6. d <= line.len /\ (d < line.len \/ line.terminated)
        BY <1>1, <1>3, <4>5, AheadOrders
      <4> QED BY <1>6, <4>1, <4>2, <4>3, <4>6
    <3> QED BY <2>1, <2>2, <2>4, <3>2 DEF Placed, OneOf
  <2> QED BY <2>3, <2>4, CommentIs
<1> QED BY <1>1, <1>2, <1>5, <1>7 DEF AllPlaced

LEMMA PodPlaces ==
    ASSUME SourceInv, PlaceInv, Pod
    PROVE  AllPlaced(line', Coming', stack', delivered', passed')
<1> DEFINE b == Bound(stack)
<1>1. /\ stack' = stack /\ line # Nothing /\ line' = Nothing /\ Held(line, b)
  BY PodIs
<1>2. PICK k \in 0 .. Reach(b) :
        /\ Coming' = Rest(Coming, k)
        /\ Give(Ahead(line) \cup UNION {Ahead(LineAt(i, b)) : i \in 1 .. k})
  BY PodIs
<1> DEFINE as == UNION {Ahead(LineAt(i, b)) : i \in 1 .. k}
<1>3. /\ Program /\ BoundOK(b) /\ Reach(b) \in 0 .. Len(Coming) /\ Len(Coming) \in Nat
  BY SourceIs
<1>4. delivered' = delivered \cup (Ahead(line) \cup as) /\ passed' = passed
  BY <1>2 DEF Pod, Give
<1>5. k \in 0 .. Len(Coming) /\ \A i \in 1 .. k : i \in 1 .. Reach(b)
  <2> DEFINE m == Reach(b)
  <2>1. m \in 0 .. Len(Coming) /\ Len(Coming) \in Nat /\ k \in 0 .. m
    BY <1>3
  <2>2. \A i \in 1 .. k : i \in 1 .. m
    <3> HIDE DEF m
    <3> QED BY <2>1
  <2>3. k \in 0 .. Len(Coming)
    <3> HIDE DEF m
    <3> QED BY <2>1
  <2> QED BY <2>2, <2>3
<1>6. ASSUME NEW i \in 1 .. k PROVE Held(LineAt(i, b), b)
  <2>1. i \in DOMAIN Coming
    <3>1. DOMAIN Coming = 1 .. Len(Coming)
      BY SourceIs
    <3> QED BY <1>3, <1>5, <3>1
  <2>2. i <= Reach(b)
    BY <1>3, <1>5
  <2>3. Reaches(b, Coming[i].row) /\ Stream(Coming) /\ number \in Nat
    BY <2>1, <2>2, SourceIs
  <2> QED BY <1>3, <2>1, <2>3, LineAtIs
<1>7. Ahead(line) \cup as \subseteq AllOffsets
  <2>1. \A i \in 1 .. k : Ahead(LineAt(i, b)) \subseteq AllOffsets
    BY <1>3, <1>6, AheadPlaces
  <2>2. Ahead(line) \subseteq AllOffsets
    BY <1>1, <1>3, AheadPlaces
  <2> QED BY <2>1, <2>2
<1>8. delivered' \cup passed' \subseteq AllOffsets
  BY <1>4, <1>7 DEF PlaceInv, AllPlaced
<1>9. ASSUME NEW r \in DOMAIN text, NEW d \in Columns(r)
      PROVE  Placed(Nothing, Rest(Coming, k), stack, delivered', passed, r, d)
  <2>1. Placed(line, Coming, stack, delivered, passed, r, d)
    BY DEF PlaceInv, AllPlaced
  <2>2. \A i \in 1 .. k : <<r, d>> \in Ahead(LineAt(i, b)) <=> QueuedAt(Coming, stack, i, r, d)
    <3> TAKE i \in 1 .. k
    <3>1. <<r, d>> \in Ahead(LineAt(i, b)) <=> Gives(LineAt(i, b), b, r, d)
      BY <1>3, <1>6, AheadPlaces
    <3>2. Gives(LineAt(i, b), b, r, d) <=> QueuedAt(Coming, stack, i, r, d)
      BY <1>5, ReachedGives
    <3> QED BY <3>1, <3>2
  <2>3. <<r, d>> \in as <=> \E i \in 1 .. k : QueuedAt(Coming, stack, i, r, d)
    BY <2>2
  <2>4. <<r, d>> \in Ahead(line) <=> Gives(line, b, r, d)
    BY <1>1, <1>3, AheadPlaces
  <2> HIDE DEF as
  <2>5. <<r, d>> \in delivered' <=> <<r, d>> \in delivered \/ Gives(line, b, r, d)
                                    \/ \E i \in 1 .. k : QueuedAt(Coming, stack, i, r, d)
    BY <1>4, <2>3, <2>4
  <2>6. /\ Queued(Coming, stack, r, d) <=>
                (\E i \in 1 .. k : QueuedAt(Coming, stack, i, r, d)) \/ Queued(Rest(Coming, k), stack, r, d)
        /\ ~((\E i \in 1 .. k : QueuedAt(Coming, stack, i, r, d)) /\ Queued(Rest(Coming, k), stack, r, d))
    BY <1>5, TakenGives
  <2>7. ~Gives(Nothing, b, r, d)
    BY DEF Gives
  <2> QED BY <2>1, <2>5, <2>6, <2>7 DEF Placed, OneOf
<1> QED BY <1>1, <1>2, <1>4, <1>8, <1>9 DEF AllPlaced

LEMMA EndBodyPlaces ==
    ASSUME SourceInv, PlaceInv, EndBody
    PROVE  AllPlaced(line', Coming', stack', delivered', passed')
<1> DEFINE n == Len(stack)
           w == Front(stack)
<1>1. /\ Coming' = Coming /\ stack # <<>> /\ stack' = w /\ line' = stack[n].line
      /\ Bound(w) = Outer(stack, n) /\ Exhausted /\ Reach(Bound(stack)) = 0
  <2>1. stack' = w /\ Bound(stack') = Outer(stack, n)
    BY EndBodyIs
  <2>2. Bound(w) = Outer(stack, n)
    BY <2>1 DEF Bound
  <2> QED BY <2>1, <2>2, EndBodyIs
<1>2. delivered' = delivered /\ passed' = passed
  BY DEF EndBody
<1>3. /\ Program /\ Stream(Coming) /\ Bodies(stack, Coming) /\ BoundOK(Bound(stack))
      /\ \A x \in DOMAIN Coming : x <= Reach(Bound(stack)) <=> Reaches(Bound(stack), Coming[x].row)
      /\ DOMAIN Coming = 1 .. Len(Coming) /\ Len(Coming) \in Nat
  BY SourceIs
<1>4. /\ n \in Nat /\ DOMAIN stack = 1 .. n /\ n \in DOMAIN stack
  BY <1>1, <1>3, BoundsAreOK
<1>5. /\ DOMAIN w = 1 .. (n - 1)
      /\ \A i \in DOMAIN w : Outer(w, i) = Outer(stack, i) /\ w[i] = stack[i]
  <2>1. stack \in Seq(Frame)
    BY <1>3 DEF Bodies
  <2> QED BY <1>1, <1>3, <2>1, FrontIs, PopFits
<1> HIDE DEF n
<1>6. \A i \in DOMAIN stack : i \in DOMAIN w \/ i = n
  BY <1>4, <1>5
<1>7. \A i \in DOMAIN w : i \in DOMAIN stack /\ i # n
  BY <1>4, <1>5
<1>8. ASSUME NEW r \in DOMAIN text, NEW d \in Columns(r)
      PROVE  Placed(line', Coming, w, delivered, passed, r, d)
  <2>1. Placed(line, Coming, stack, delivered, passed, r, d)
    BY DEF PlaceInv, AllPlaced
  <2>2. ~Gives(line, Bound(stack), r, d)
    BY <1>1, ExhaustedGives
  <2>3. ASSUME NEW x \in DOMAIN Coming
        PROVE  QueuedAt(Coming, w, x, r, d) <=> QueuedAt(Coming, stack, x, r, d)
    <3>1. ~Reaches(Bound(stack), Coming[x].row) /\ Coming[x].row \in Nat
      <4>1. ~(x <= 0)
        BY <1>3
      <4> QED BY <1>1, <1>3, <4>1, StreamIs
    <3>2. ReaderIn(w, Coming[x].row) = ReaderIn(stack, Coming[x].row)
      BY <1>1, <1>3, <3>1, ReaderPopped
    <3> HIDE DEF w
    <3> QED BY <3>2 DEF QueuedAt
  <2> HIDE DEF w
  <2>4. Queued(Coming, w, r, d) <=> Queued(Coming, stack, r, d)
    BY <2>3 DEF Queued
  <2> DEFINE gives(i) == Gives(stack[i].line, Outer(stack, i), r, d)
  <2>5. \A i \in DOMAIN w : Gives(w[i].line, Outer(w, i), r, d) <=> gives(i)
    BY <1>5
  <2>6. Gives(line', Bound(w), r, d) <=> gives(n)
    BY <1>1
  <2>7. \A i, j \in DOMAIN stack : gives(i) /\ gives(j) => i = j
    BY <2>1 DEF Placed
  <2>8. Suspended(stack, r, d) <=> \E i \in DOMAIN stack : gives(i)
    BY DEF Suspended
  <2> HIDE DEF gives
  <2>9. Suspended(w, r, d) <=> \E i \in DOMAIN w : gives(i)
    BY <2>5 DEF Suspended
  <2>10. /\ Suspended(stack, r, d) <=> gives(n) \/ Suspended(w, r, d)
         /\ ~(gives(n) /\ Suspended(w, r, d))
    BY <1>4, <1>6, <1>7, <2>7, <2>8, <2>9
  <2>11. \A i, j \in DOMAIN w :
            Gives(w[i].line, Outer(w, i), r, d) /\ Gives(w[j].line, Outer(w, j), r, d) => i = j
    BY <1>7, <2>5, <2>7
  <2> QED BY <2>1, <2>2, <2>4, <2>6, <2>10, <2>11 DEF Placed, OneOf
<1>9. delivered \cup passed \subseteq AllOffsets
  BY DEF PlaceInv, AllPlaced
<1> QED BY <1>1, <1>2, <1>8, <1>9 DEF AllPlaced

\* A frame is pushed: its line is one more suspended line.
LEMMA PushedSuspends ==
    ASSUME SourceInv, NEW f \in Frame, NEW r, NEW d,
           \A i, j \in DOMAIN stack :
              Gives(stack[i].line, Outer(stack, i), r, d) /\ Gives(stack[j].line, Outer(stack, j), r, d) => i = j,
           ~(Suspended(stack, r, d) /\ Gives(f.line, Bound(stack), r, d)),
           NEW st, st = Append(stack, f)
    PROVE  /\ Suspended(st, r, d) <=> Suspended(stack, r, d) \/ Gives(f.line, Bound(stack), r, d)
           /\ \A i, j \in DOMAIN st :
                Gives(st[i].line, Outer(st, i), r, d) /\ Gives(st[j].line, Outer(st, j), r, d) => i = j
<1> DEFINE n == Len(stack)
           old(i) == Gives(stack[i].line, Outer(stack, i), r, d)
           new(i) == Gives(st[i].line, Outer(st, i), r, d)
           top == Gives(f.line, Bound(stack), r, d)
<1>1. /\ Program /\ Bodies(stack, Coming) /\ stack \in Seq(Frame)
  BY SourceIs DEF Bodies
<1>2. /\ n \in Nat /\ DOMAIN stack = 1 .. n
      /\ stack # <<>> => Bound(stack) = stack[n].bound
  BY <1>1, BoundsAreOK
<1>3. /\ st \in Seq(Frame) /\ Len(st) = n + 1 /\ st[n + 1] = f /\ \A i \in 1 .. n : st[i] = stack[i]
  BY <1>1, AppendProperties
<1>4. DOMAIN st = 1 .. (n + 1)
  BY <1>3, LenProperties
<1>5. stack = <<>> <=> n = 0
  BY <1>1, EmptySeq
<1>6. \A i \in DOMAIN stack : st[i] = stack[i] /\ Outer(st, i) = Outer(stack, i) /\ i \in DOMAIN st /\ i # n + 1
  <2> TAKE i \in DOMAIN stack
  <2>1. i \in 1 .. n /\ i \in DOMAIN st /\ i # n + 1 /\ (i # 1 => i - 1 \in 1 .. n)
    BY <1>2, <1>4
  <2> QED BY <1>3, <2>1 DEF Outer
<1>7. Outer(st, n + 1) = Bound(stack)
  <2>1. CASE n = 0
    BY <1>5, <2>1 DEF Outer, Bound
  <2>2. CASE n # 0
    <3>1. n + 1 # 1 /\ (n + 1) - 1 = n /\ n \in 1 .. n
      BY <1>2, <2>2
    <3> QED BY <1>2, <1>3, <1>5, <3>1 DEF Outer
  <2> QED BY <2>1, <2>2
<1>8. \A i \in DOMAIN stack : new(i) <=> old(i)
  BY <1>6
<1>9. new(n + 1) <=> top
  BY <1>3, <1>7
<1>10. \A i \in DOMAIN st : i \in DOMAIN stack \/ i = n + 1
  BY <1>2, <1>4
<1>11. n + 1 \in DOMAIN st
  BY <1>2, <1>4
<1>12. \A i, j \in DOMAIN stack : old(i) /\ old(j) => i = j
  OBVIOUS
<1>13. ~((\E i \in DOMAIN stack : old(i)) /\ top)
  BY DEF Suspended
<1>14. /\ Suspended(st, r, d) <=> \E i \in DOMAIN st : new(i)
       /\ Suspended(stack, r, d) <=> \E i \in DOMAIN stack : old(i)
  BY DEF Suspended
<1> HIDE DEF old, new, top, n
<1>15. (\E i \in DOMAIN st : new(i)) <=> (\E i \in DOMAIN stack : old(i)) \/ top
  BY <1>6, <1>8, <1>9, <1>10, <1>11
<1>16. \A i, j \in DOMAIN st : new(i) /\ new(j) => i = j
  BY <1>8, <1>9, <1>10, <1>12, <1>13
<1> QED BY <1>14, <1>15, <1>16 DEF new, top

\* The lines to come up to the frame's end are now read under it, and the others
\* as before.
LEMMA PushedQueues ==
    ASSUME SourceInv, NEW f \in Frame, NEW c, Stream(c), NEW x \in DOMAIN c, NEW r, NEW d,
           NEW st, st = Append(stack, f)
    PROVE  QueuedAt(c, st, x, r, d) <=>
              /\ c[x].row = r /\ c[x].indent <= d
              /\ IF c[x].row <= f.bound.row THEN Shown(f.bound, r, d) ELSE Shown(ReaderIn(stack, r), r, d)
<1>1. Program /\ Bodies(stack, Coming) /\ c[x].row \in Nat
  BY SourceIs, StreamIs
<1>2. ReaderIn(st, c[x].row) = IF c[x].row <= f.bound.row THEN f.bound ELSE ReaderIn(stack, c[x].row)
  BY <1>1, ReaderPushed
<1> QED BY <1>2 DEF QueuedAt

\* What a bound lets be seen.
LEMMA ShownIs ==
    ASSUME NEW b, BoundOK(b), NEW r \in Nat
    PROVE  /\ \A s \in Nat, d \in Nat : Reaches(b, s) /\ r < s => Shown(b, r, d)
           /\ \A c, d \in Nat : Shown(b, r, c) /\ d <= c => Shown(b, r, d)
<1>1. b # Nothing => b.row \in Nat /\ b.col \in Nat
  BY DEF BoundOK, BoundRecord
<1> QED BY <1>1 DEF Reaches, Shown

\* The line on which a body begins gives its byte, and then what is behind it.
LEMMA CurrentSplits ==
    ASSUME SourceInv, line # Nothing, <<line.row, line.pos>> \in Ahead(line),
           NEW m, m # Nothing, m.row = line.row, m.pos = line.pos + 1,
           NEW r \in DOMAIN text, NEW d \in Columns(r)
    PROVE  LET now == r = line.row /\ d = line.pos IN
           /\ Gives(line, Bound(stack), r, d) <=> now \/ Gives(m, Bound(stack), r, d)
           /\ ~(now /\ Gives(m, Bound(stack), r, d))
<1>1. /\ Program /\ BoundOK(Bound(stack)) /\ Held(line, Bound(stack))
  BY SourceIs
<1>2. /\ r \in Nat /\ d \in Nat /\ line.pos \in Nat /\ line.row \in DOMAIN text
  BY <1>1, ColumnsAre, HeldIs
<1> DEFINE now == r = line.row /\ d = line.pos
<1>3. now => Gives(line, Bound(stack), r, d)
  BY <1>1, AheadPlaces
<1>4. Gives(m, Bound(stack), r, d) <=> Gives(line, Bound(stack), r, d) /\ ~now
  BY <1>2 DEF Gives
<1> HIDE DEF now
<1>5. /\ Gives(line, Bound(stack), r, d) <=> now \/ Gives(m, Bound(stack), r, d)
      /\ ~(now /\ Gives(m, Bound(stack), r, d))
  BY <1>3, <1>4
<1> QED BY <1>5 DEF now

\* A here-document: what was to come is to come, or its terminator, or a margin.
LEMMA HeredocQueues ==
    ASSUME SourceInv, line # Nothing, NEW h, NEW k, NEW qs, HeredocBegun(h, k, qs),
           NEW b, b = IF h = 0 THEN Nothing ELSE stack[h].bound,
           NEW r \in DOMAIN text, NEW d \in Columns(r)
    PROVE  LET gone == \/ <<r, d>> \in Ahead(LineAt(k, b))
                       \/ \E i \in 1 .. (k - 1) : <<r, d>> \in Margin(qs, Coming, i)
           IN  /\ Queued(Coming, stack, r, d) <=> gone \/ Queued(Coming', stack', r, d)
               /\ ~(gone /\ Queued(Coming', stack', r, d))
<1> DEFINE f == [line |-> [line EXCEPT !.pos = line.pos + 1], bound |-> [row |-> Coming[k].row, col |-> 0]]
           c == qs \o Rest(Coming, k)
           end(x) == x = k /\ <<r, d>> \in Ahead(LineAt(k, b))
           cut(x) == x \in 1 .. (k - 1) /\ <<r, d>> \in Margin(qs, Coming, x)
           old(x) == QueuedAt(Coming, stack, x, r, d)
           new(x) == QueuedAt(c, stack', x, r, d)
<1>1. /\ h \in 0 .. Len(stack) /\ \A i \in DOMAIN stack : h < i => Past(stack[i].bound.row, Coming)
      /\ Reaches(b, Coming[k].row) /\ BoundOK(b) /\ Stamped(qs, Coming, k) /\ Coming' = c
      /\ stack' = Append(stack, f) /\ f \in Frame
  BY DEF HeredocBegun
<1>2. /\ Program /\ Stream(Coming) /\ Bodies(stack, Coming) /\ number \in Nat
      /\ Len(Coming) \in Nat /\ DOMAIN Coming = 1 .. Len(Coming)
      /\ \A x \in DOMAIN Coming : Coming[x].row \in Nat /\ Coming[x].indent \in Nat
  BY SourceIs, StreamIs
<1>3. k \in DOMAIN Coming /\ k \in Nat /\ 1 <= k
  BY <1>1, <1>2 DEF Stamped
<1>4. AfterStamping(c, qs, Coming, k)
  BY <1>1, <1>2, StampedIs
<1>5. r \in Nat /\ d \in Nat
  BY <1>2, ColumnsAre
<1>6. f.bound.row = Coming[k].row /\ f.bound.col = 0 /\ f.bound = [row |-> Coming[k].row, col |-> 0]
  OBVIOUS
<1> HIDE DEF f, c
<1>7. \A x \in DOMAIN Coming : x <= k => ReaderIn(stack, Coming[x].row) = b
  <2> SUFFICES ASSUME NEW x \in DOMAIN Coming, x <= k PROVE ReaderIn(stack, Coming[x].row) = b
    OBVIOUS
  <2>1. Coming[x].row <= Coming[k].row
    BY <1>2, <1>3 DEF Stream
  <2>2. h # 0 => Coming[x].row <= stack[h].bound.row
    <3> SUFFICES ASSUME h # 0 PROVE Coming[x].row <= stack[h].bound.row
      OBVIOUS
    <3>1. DOMAIN stack = 1 .. Len(stack) /\ Len(stack) \in Nat /\ \A i \in DOMAIN stack : stack[i].bound \in BoundRecord
      BY <1>2, BoundsAreOK
    <3>2. h \in DOMAIN stack
      BY <1>1, <3>1
    <3>3. stack[h].bound \in BoundRecord /\ stack[h].bound.row \in Nat /\ stack[h].bound # Nothing
      BY <3>1, <3>2, NothingIsNone DEF BoundRecord
    <3>4. Coming[k].row <= stack[h].bound.row
      BY <1>1, <3>3 DEF Reaches
    <3> QED BY <1>2, <1>3, <2>1, <3>3, <3>4
  <2>3. \A i \in DOMAIN stack : h < i => stack[i].bound.row < Coming[x].row
    BY <1>1 DEF Past
  <2> QED BY <1>1, <1>2, <2>2, <2>3, ReaderAt
<1>8. old(k) <=> end(k)
  <2> DEFINE l == LineAt(k, b)
  <2>1. Held(l, b) /\ l.row = Coming[k].row /\ l.pos = Coming[k].indent
    BY <1>1, <1>2, <1>3, LineAtIs
  <2>2. <<r, d>> \in Ahead(l) <=> Gives(l, b, r, d)
    BY <1>1, <1>2, <2>1, AheadPlaces
  <2>3. l # Nothing
    BY <1>1, <1>2, <2>1, HeldIs
  <2>4. ReaderIn(stack, Coming[k].row) = b
    BY <1>3, <1>7
  <2> HIDE DEF l
  <2>5. Gives(l, b, r, d) <=> QueuedAt(Coming, stack, k, r, d)
    BY <2>1, <2>3, <2>4 DEF Gives, QueuedAt
  <2> QED BY <2>2, <2>5 DEF l
<1>9. ASSUME NEW x \in 1 .. (k - 1)
      PROVE  /\ x \in DOMAIN c /\ x \in DOMAIN Coming
             /\ (old(x) <=> cut(x) \/ new(x)) /\ ~(cut(x) /\ new(x))
             /\ cut(x) => Coming[x].row = r
  <2>1. /\ x \in DOMAIN c /\ x \in DOMAIN Coming /\ x < k /\ x <= k /\ c[x] = qs[x]
    BY <1>2, <1>3, <1>4 DEF AfterStamping
  <2>2. qs[x].row = Coming[x].row /\ Coming[x].indent <= qs[x].indent
    BY <1>1 DEF Stamped
  <2>3. Coming[x].row < Coming[k].row /\ Coming[x].row \in Nat /\ Coming[k].row \in Nat
    BY <1>2, <1>3, <2>1 DEF Stream
  <2>4. Stream(c) /\ c[x].indent \in Nat /\ Coming[x].indent \in Nat
    BY <1>2, <1>4, <2>1, StreamIs DEF AfterStamping
  <2>5. \A s \in Nat : s = Coming[x].row => Shown(b, s, d) /\ Shown(f.bound, s, d)
    <3>1. Shown(b, Coming[x].row, d)
      BY <1>1, <1>5, <2>3, ShownIs
    <3>2. Shown(f.bound, Coming[x].row, d)
      BY <1>6, <2>3 DEF Shown
    <3> QED BY <3>1, <3>2
  <2>6. old(x) <=> Coming[x].row = r /\ Coming[x].indent <= d
    BY <1>5, <1>7, <2>1, <2>5 DEF QueuedAt
  <2>7. new(x) <=> Coming[x].row = r /\ qs[x].indent <= d
    <3>1. new(x) <=> c[x].row = r /\ c[x].indent <= d
                     /\ IF c[x].row <= f.bound.row THEN Shown(f.bound, r, d) ELSE Shown(ReaderIn(stack, r), r, d)
      BY <1>1, <2>1, <2>4, PushedQueues
    <3>2. c[x].row = Coming[x].row /\ c[x].row <= f.bound.row /\ c[x].indent = qs[x].indent
      BY <1>6, <2>1, <2>2, <2>3
    <3> HIDE DEF new
    <3> QED BY <1>5, <2>5, <3>1, <3>2
  <2>8. cut(x) <=> Coming[x].row = r /\ Coming[x].indent <= d /\ ~(qs[x].indent <= d)
    <3>1. qs[x].indent \in Nat
      BY <2>1, <2>4
    <3>2. <<r, d>> \in Margin(qs, Coming, x) <=> Coming[x].row = r /\ d \in Coming[x].indent .. (qs[x].indent - 1)
      BY DEF Margin
    <3> QED BY <1>5, <2>4, <3>1, <3>2
  <2> HIDE DEF old, new, cut
  <2> QED BY <1>5, <2>1, <2>2, <2>4, <2>6, <2>7, <2>8
<1>10. ASSUME NEW x \in DOMAIN c, ~(x < k)
       PROVE  x + 1 \in DOMAIN Coming /\ (new(x) <=> old(x + 1)) /\ k < x + 1
  <2>1. x \in k .. (Len(Coming) - 1) /\ x + 1 \in DOMAIN Coming /\ c[x] = Coming[x + 1] /\ k < x + 1
    BY <1>2, <1>3, <1>4, <1>10 DEF AfterStamping
  <2>2. Coming[k].row < Coming[x + 1].row /\ Coming[x + 1].row \in Nat /\ Coming[k].row \in Nat
    BY <1>2, <1>3, <2>1 DEF Stream
  <2>3. Stream(c)
    BY <1>4 DEF AfterStamping
  <2>4. new(x) <=> c[x].row = r /\ c[x].indent <= d
                   /\ IF c[x].row <= f.bound.row THEN Shown(f.bound, r, d) ELSE Shown(ReaderIn(stack, r), r, d)
    BY <1>1, <1>10, <2>3, PushedQueues
  <2>5. ~(c[x].row <= f.bound.row)
    BY <1>6, <2>1, <2>2
  <2> HIDE DEF new
  <2> QED BY <2>1, <2>4, <2>5 DEF QueuedAt
<1>11. \A x, y \in DOMAIN Coming : Coming[x].row = r /\ Coming[y].row = r => x = y
  <2> SUFFICES ASSUME NEW x \in DOMAIN Coming, NEW y \in DOMAIN Coming, Coming[x].row = r, Coming[y].row = r
               PROVE  x = y
    OBVIOUS
  <2>1. ~(x < y) /\ ~(y < x)
    BY <1>2, <1>5 DEF Stream
  <2> QED BY <1>2, <2>1
<1>12. \A x \in DOMAIN Coming : old(x) => Coming[x].row = r
  BY DEF QueuedAt
<1>13. \A x \in DOMAIN Coming : x \in 1 .. (k - 1) \/ x = k \/ (x - 1 \in DOMAIN c /\ ~(x - 1 < k) /\ (x - 1) + 1 = x)
  <2>1. DOMAIN c = 1 .. (Len(Coming) - 1)
    BY <1>4 DEF AfterStamping
  <2> QED BY <1>2, <1>3, <2>1
<1>14. \A x \in DOMAIN c : x \in 1 .. (k - 1) \/ ~(x < k)
  <2>1. DOMAIN c = 1 .. (Len(Coming) - 1)
    BY <1>4 DEF AfterStamping
  <2> QED BY <1>2, <1>3, <2>1
<1> DEFINE gone == \/ <<r, d>> \in Ahead(LineAt(k, b))
                   \/ \E i \in 1 .. (k - 1) : <<r, d>> \in Margin(qs, Coming, i)
<1>15. gone <=> end(k) \/ \E x \in 1 .. (k - 1) : cut(x)
  OBVIOUS
<1>16. /\ Queued(Coming, stack, r, d) <=> \E x \in DOMAIN Coming : old(x)
       /\ Queued(Coming', stack', r, d) <=> \E x \in DOMAIN c : new(x)
  BY <1>1 DEF Queued
<1> HIDE DEF old, new, cut, end, gone
<1>17. ASSUME NEW x \in DOMAIN Coming, old(x)
       PROVE  gone \/ \E y \in DOMAIN c : new(y)
  <2>1. CASE x \in 1 .. (k - 1)
    BY <1>9, <1>15, <1>17, <2>1
  <2>2. CASE x = k
    BY <1>8, <1>15, <1>17, <2>2
  <2>3. CASE x - 1 \in DOMAIN c /\ ~(x - 1 < k) /\ (x - 1) + 1 = x
    BY <1>10, <1>17, <2>3
  <2> QED BY <1>13, <2>1, <2>2, <2>3
<1>18. ASSUME gone PROVE \E x \in DOMAIN Coming : old(x) /\ x <= k
  <2>1. CASE end(k)
    BY <1>3, <1>8, <2>1
  <2>2. CASE \E x \in 1 .. (k - 1) : cut(x)
    <3>1. PICK x \in 1 .. (k - 1) : cut(x)
      BY <2>2
    <3>2. x <= k
      BY <1>3
    <3> QED BY <1>9, <3>1, <3>2
  <2> QED BY <1>15, <1>18, <2>1, <2>2
<1>19. ASSUME NEW y \in DOMAIN c, new(y) PROVE \E x \in DOMAIN Coming : old(x)
  BY <1>9, <1>10, <1>14, <1>19
<1>20. ASSUME gone, NEW y \in DOMAIN c, new(y) PROVE FALSE
  <2>1. CASE y \in 1 .. (k - 1)
    <3>1. y \in DOMAIN Coming /\ old(y) /\ ~cut(y) /\ y # k
      BY <1>3, <1>9, <1>20, <2>1
    <3>2. CASE end(k)
      BY <1>3, <1>8, <1>11, <1>12, <3>1, <3>2
    <3>3. CASE \E x \in 1 .. (k - 1) : cut(x)
      <4>1. PICK x \in 1 .. (k - 1) : cut(x)
        BY <3>3
      <4>2. x \in DOMAIN Coming /\ Coming[x].row = r
        BY <1>9, <4>1
      <4>3. x = y
        BY <1>11, <1>12, <3>1, <4>2
      <4> QED BY <3>1, <4>1, <4>3
    <3> QED BY <1>15, <1>20, <3>2, <3>3
  <2>2. CASE ~(y < k)
    <3>1. y + 1 \in DOMAIN Coming /\ old(y + 1) /\ k < y + 1
      BY <1>10, <1>20, <2>2
    <3>2. PICK x \in DOMAIN Coming : old(x) /\ x <= k
      BY <1>18, <1>20
    <3>3. x = y + 1
      BY <1>11, <1>12, <3>1, <3>2
    <3> QED BY <1>2, <1>3, <3>1, <3>2, <3>3
  <2> QED BY <1>14, <2>1, <2>2
<1>21. /\ Queued(Coming, stack, r, d) <=> gone \/ Queued(Coming', stack', r, d)
       /\ ~(gone /\ Queued(Coming', stack', r, d))
  BY <1>16, <1>17, <1>18, <1>19, <1>20
<1> QED BY <1>21 DEF gone

LEMMA HeredocPlaces ==
    ASSUME SourceInv, PlaceInv, StartHeredoc, status' # "error"
    PROVE  AllPlaced(line', Coming', stack', delivered', passed')
<1>1. /\ Kept /\ line # Nothing /\ Held(line, Bound(stack)) /\ line.pos < line.len
  BY StartHeredocIs
<1>2. PICK h, k, qs : HeredocBegun(h, k, qs)
  BY StartHeredocIs
<1> DEFINE b == IF h = 0 THEN Nothing ELSE stack[h].bound
           f == [line |-> [line EXCEPT !.pos = line.pos + 1], bound |-> [row |-> Coming[k].row, col |-> 0]]
           margins == UNION {Margin(qs, Coming, i) : i \in 1 .. (k - 1)}
<1>3. /\ line' = Nothing /\ stack' = Append(stack, f) /\ f \in Frame
      /\ Reaches(b, Coming[k].row) /\ BoundOK(b) /\ Stamped(qs, Coming, k)
      /\ Held(f.line, Bound(stack))
      /\ delivered' = delivered \cup {<<line.row, line.pos>>}
      /\ passed' = passed \cup Ahead(LineAt(k, b)) \cup margins
  BY <1>2 DEF HeredocBegun
<1> HIDE DEF b
<1>4. Program /\ BoundOK(Bound(stack)) /\ Stream(Coming) /\ number \in Nat
  BY SourceIs
<1>5. line \in LineRecord /\ line.row \in Nat /\ line.pos \in Nat /\ line.len \in Nat /\ line.row \in DOMAIN text
  BY <1>1, <1>4, HeldIs
<1>6. f.line.row = line.row /\ f.line.pos = line.pos + 1 /\ f.line # Nothing
  <2>1. f.line.row = line.row /\ f.line.pos = line.pos + 1
    BY <1>5 DEF LineRecord
  <2> QED BY <2>1, <1>3, <1>4, HeldIs
<1> HIDE DEF f, margins
<1>7. <<line.row, line.pos>> \in Ahead(line)
  <2>1. line.pos \in {e \in line.pos .. line.len : e < line.len \/ line.terminated}
    BY <1>1, <1>5
  <2>2. <<line.row, line.pos>> \in {<<line.row, c>> : c \in {e \in line.pos .. line.len : e < line.len \/ line.terminated}}
    BY <2>1
  <2> QED BY <2>2 DEF Ahead
<1>8. k \in DOMAIN Coming
  BY <1>3 DEF Stamped
<1>9. ASSUME NEW r \in DOMAIN text, NEW d \in Columns(r)
      PROVE  Placed(Nothing, Coming', stack', delivered', passed', r, d)
  <2> DEFINE now == r = line.row /\ d = line.pos
             gone == \/ <<r, d>> \in Ahead(LineAt(k, b))
                     \/ \E i \in 1 .. (k - 1) : <<r, d>> \in Margin(qs, Coming, i)
             top == Gives(f.line, Bound(stack), r, d)
  <2>1. Placed(line, Coming, stack, delivered, passed, r, d)
    BY DEF PlaceInv, AllPlaced
  <2>2. /\ Gives(line, Bound(stack), r, d) <=> now \/ top
        /\ ~(now /\ top)
    BY <1>1, <1>6, <1>7, CurrentSplits
  <2>3. /\ Queued(Coming, stack, r, d) <=> gone \/ Queued(Coming', stack', r, d)
        /\ ~(gone /\ Queued(Coming', stack', r, d))
    BY <1>1, <1>2, HeredocQueues DEF b
  <2>4. <<r, d>> \in delivered' <=> <<r, d>> \in delivered \/ now
    BY <1>3
  <2>5. <<r, d>> \in passed' <=> <<r, d>> \in passed \/ gone
    BY <1>3 DEF margins
  <2> HIDE DEF now, gone
  <2>6. ~(Suspended(stack, r, d) /\ top)
    BY <2>1, <2>2 DEF Placed, OneOf
  <2>7. \A i, j \in DOMAIN stack :
            Gives(stack[i].line, Outer(stack, i), r, d) /\ Gives(stack[j].line, Outer(stack, j), r, d) => i = j
    BY <2>1 DEF Placed
  <2>8. /\ Suspended(stack', r, d) <=> Suspended(stack, r, d) \/ top
        /\ \A i, j \in DOMAIN stack' :
            Gives(stack'[i].line, Outer(stack', i), r, d) /\ Gives(stack'[j].line, Outer(stack', j), r, d) => i = j
    BY <1>3, <2>6, <2>7, PushedSuspends
  <2>9. ~Gives(Nothing, Bound(stack'), r, d)
    BY DEF Gives
  <2> HIDE DEF top
  <2>10. OneOf(<<r, d>> \in delivered', <<r, d>> \in passed', Gives(Nothing, Bound(stack'), r, d),
               Suspended(stack', r, d), Queued(Coming', stack', r, d))
    BY <2>1, <2>2, <2>3, <2>4, <2>5, <2>8, <2>9 DEF Placed, OneOf
  <2> QED BY <2>8, <2>10 DEF Placed
<1>10. delivered' \cup passed' \subseteq AllOffsets
  <2>1. delivered \cup passed \subseteq AllOffsets
    BY DEF PlaceInv, AllPlaced
  <2>2. Ahead(line) \subseteq AllOffsets
    BY <1>1, <1>4, AheadPlaces
  <2>3. Ahead(LineAt(k, b)) \subseteq AllOffsets
    <3>1. Held(LineAt(k, b), b)
      BY <1>3, <1>4, <1>8, LineAtIs
    <3> QED BY <1>3, <1>4, <3>1, AheadPlaces
  <2>4. margins \subseteq AllOffsets
    <3> SUFFICES ASSUME NEW i \in 1 .. (k - 1), NEW o \in Margin(qs, Coming, i) PROVE o \in AllOffsets
      BY DEF margins
    <3>1. /\ i \in DOMAIN Coming /\ Coming[i].row \in DOMAIN text /\ Coming[i].indent \in Nat
      <4>1. i \in DOMAIN Coming
        BY <1>4, <1>8, StreamIs
      <4> QED BY <1>4, <4>1, StreamIs
    <3>2. qs[i].indent <= Len(Symbols(Coming[i].row)) /\ i \in 1 .. Len(qs) /\ qs \in Seq(Upcoming)
      BY <1>3 DEF Stamped
    <3>3. qs[i].indent \in Nat
      <4>1. qs[i] \in Upcoming
        BY <3>2, ElementOfSeq
      <4> QED BY <4>1 DEF Upcoming
    <3>4. PICK e \in Coming[i].indent .. (qs[i].indent - 1) : o = <<Coming[i].row, e>>
      BY DEF Margin
    <3>5. Len(Symbols(Coming[i].row)) \in Nat
      BY <1>4, <3>1, RowsAre
    <3>6. e \in Columns(Coming[i].row)
      BY <3>1, <3>2, <3>3, <3>5 DEF Columns
    <3> QED BY <3>1, <3>4, <3>6, AllOffsetsAre
  <2> QED BY <1>3, <1>7, <2>1, <2>2, <2>3, <2>4
<1> QED BY <1>3, <1>9, <1>10 DEF AllPlaced

\* A delimited body that ends on the line it begins on: the line is split at the
\* bound, and the lines to come are read as before.
LEMMA DelimitedHere ==
    ASSUME SourceInv, line # Nothing, NEW col, DelimitedBegun(0, col), line.pos < line.len,
           NEW r \in DOMAIN text, NEW d \in Columns(r)
    PROVE  LET f == [line |-> [ScanLine(0) EXCEPT !.pos = col + 1],
                     bound |-> [row |-> ScanLine(0).row, col |-> col]]
               now == r = line.row /\ d = line.pos
               shut == r = ScanLine(0).row /\ d = col
               body == Gives(line', f.bound, r, d)
               top == Gives(f.line, Bound(stack), r, d)
           IN  /\ Gives(line, Bound(stack), r, d) <=> now \/ shut \/ body \/ top
               /\ ~(now /\ shut) /\ ~(now /\ body) /\ ~(now /\ top)
               /\ ~(shut /\ body) /\ ~(shut /\ top) /\ ~(body /\ top)
               /\ Queued(Coming, Append(stack, f), r, d) <=> Queued(Coming, stack, r, d)
<1> DEFINE b == Bound(stack)
           ends == ScanLine(0)
           bound == [row |-> ends.row, col |-> col]
           f == [line |-> [ends EXCEPT !.pos = col + 1], bound |-> bound]
           st == Append(stack, f)
<1>1. /\ Held(ends, b) /\ col \in Nat /\ ends.pos <= col /\ col < ends.len
      /\ BoundOK(bound) /\ f \in Frame /\ Held(f.line, b) /\ f.line.row = ends.row
      /\ Held(line', bound) /\ line'.row = line.row /\ line'.pos = line.pos + 1
      /\ 0 \in 0 .. Reach(b)
  BY DEF DelimitedBegun
<1>2. /\ Program /\ BoundOK(b) /\ Stream(Coming) /\ Held(line, b) /\ Past(line.row, Coming)
      /\ \A x \in DOMAIN Coming : Coming[x].row \in Nat
  BY SourceIs, StreamIs
<1>3. ends = [line EXCEPT !.pos = line.pos + 1] /\ ends.row = line.row /\ ends.pos = line.pos + 1
  BY <1>1, ScanLineIs
<1>4. /\ line \in LineRecord /\ line.row \in Nat /\ line.row \in DOMAIN text /\ line.pos \in Nat /\ line.len \in Nat
      /\ ends \in LineRecord /\ ends.row \in DOMAIN text
  BY <1>1, <1>2, HeldIs
<1>5. /\ r \in Nat /\ d \in Nat
  BY <1>2, ColumnsAre
<1>6. ends.len = line.len
  BY <1>3, <1>4 DEF LineRecord
<1> HIDE DEF ends
<1>7. f.line.pos = col + 1 /\ f.line # Nothing /\ f.bound = bound /\ bound.row = line.row /\ bound.col = col
      /\ line' # Nothing /\ bound # Nothing
  <2>1. f.line.pos = col + 1
    BY <1>4 DEF LineRecord
  <2>2. bound # Nothing
    BY <1>1, <1>3, <1>4, NothingIsNone DEF BoundRecord
  <2> QED BY <2>1, <2>2, <1>1, <1>2, <1>3, HeldIs
<1> HIDE DEF f, bound
<1>8. Shown(b, line.row, col)
  <2>1. <<line.row, col>> \in Ahead(line)
    <3>1. col \in {e \in line.pos .. line.len : e < line.len \/ line.terminated}
      BY <1>1, <1>3, <1>4, <1>6
    <3>2. <<line.row, col>> \in {<<line.row, c>> : c \in {e \in line.pos .. line.len : e < line.len \/ line.terminated}}
      BY <3>1
    <3> QED BY <3>2 DEF Ahead
  <2>2. col \in Columns(line.row)
    <3>1. Offsets(Ahead(line)) /\ <<line.row, col>>[1] = line.row /\ <<line.row, col>>[2] = col
      BY <1>2, AheadOrders
    <3> QED BY <2>1, <3>1 DEF Offsets
  <2> QED BY <1>2, <1>4, <2>1, <2>2, AheadPlaces DEF Gives
<1>9. \A e \in Nat : e <= col => Shown(b, line.row, e)
  BY <1>1, <1>2, <1>4, <1>8, ShownIs
<1> DEFINE now == r = line.row /\ d = line.pos
           shut == r = ends.row /\ d = col
           body == Gives(line', f.bound, r, d)
           top == Gives(f.line, Bound(stack), r, d)
<1>10. body <=> r = line.row /\ line.pos + 1 <= d /\ d < col
  BY <1>1, <1>4, <1>5, <1>7 DEF Gives, Shown
<1>11. top <=> r = line.row /\ col + 1 <= d /\ Shown(b, r, d)
  BY <1>1, <1>3, <1>7 DEF Gives
<1>12. Gives(line, b, r, d) <=> r = line.row /\ line.pos <= d /\ Shown(b, r, d)
  BY DEF Gives
<1>13. shut <=> r = line.row /\ d = col
  BY <1>3
<1>14. line.pos + 1 <= col
  BY <1>1, <1>3
<1>15. ASSUME NEW x \in DOMAIN Coming
       PROVE  QueuedAt(Coming, st, x, r, d) <=> QueuedAt(Coming, stack, x, r, d)
  <2>1. ~(Coming[x].row <= f.bound.row)
    BY <1>2, <1>4, <1>7 DEF Past
  <2>2. QueuedAt(Coming, st, x, r, d) <=>
              /\ Coming[x].row = r /\ Coming[x].indent <= d
              /\ IF Coming[x].row <= f.bound.row THEN Shown(f.bound, r, d) ELSE Shown(ReaderIn(stack, r), r, d)
    BY <1>1, <1>2, PushedQueues
  <2> QED BY <2>1, <2>2 DEF QueuedAt
<1>16. Queued(Coming, st, r, d) <=> Queued(Coming, stack, r, d)
  BY <1>15 DEF Queued
<1> HIDE DEF body, top, shut, st
<1>17. /\ Gives(line, b, r, d) <=> now \/ shut \/ body \/ top
       /\ ~(now /\ shut) /\ ~(now /\ body) /\ ~(now /\ top)
       /\ ~(shut /\ body) /\ ~(shut /\ top) /\ ~(body /\ top)
  <2>1. r = line.row /\ d <= col => Shown(b, r, d)
    BY <1>5, <1>9
  <2>2. d < col \/ d = col \/ col + 1 <= d
    BY <1>1, <1>5
  <2>3. d = line.pos \/ d < line.pos \/ line.pos + 1 <= d
    BY <1>4, <1>5
  <2>4. /\ d < col => d <= col
        /\ d = line.pos => d <= col /\ line.pos <= d /\ ~(d = col) /\ ~(line.pos + 1 <= d) /\ ~(col + 1 <= d)
        /\ d = col => d <= col /\ line.pos <= d /\ ~(d < col) /\ ~(col + 1 <= d)
        /\ line.pos + 1 <= d => line.pos <= d
        /\ col + 1 <= d => line.pos <= d /\ ~(d < col)
        /\ d < line.pos => ~(line.pos <= d)
    BY <1>1, <1>4, <1>5, <1>14
  <2> QED BY <1>10, <1>11, <1>12, <1>13, <2>1, <2>2, <2>3, <2>4
<1> QED BY <1>16, <1>17 DEF body, top, shut, st, f, bound, ends

\* One that ends on a later line: that line is split at the bound.
LEMMA DelimitedLater ==
    ASSUME SourceInv, line # Nothing, NEW k, k # 0, NEW col, DelimitedBegun(k, col), line.pos < line.len,
           NEW r \in DOMAIN text, NEW d \in Columns(r)
    PROVE  LET f == [line |-> [ScanLine(k) EXCEPT !.pos = col + 1],
                     bound |-> [row |-> ScanLine(k).row, col |-> col]]
               now == r = line.row /\ d = line.pos
               shut == r = ScanLine(k).row /\ d = col
               body == Gives(line', f.bound, r, d)
               top == Gives(f.line, Bound(stack), r, d)
               queue1 == Queued(Coming, Append(stack, f), r, d)
           IN  /\ Gives(line, Bound(stack), r, d) <=> now \/ body
               /\ ~(now /\ body)
               /\ Queued(Coming, stack, r, d) <=> shut \/ top \/ queue1
               /\ ~(shut /\ top) /\ ~(shut /\ queue1) /\ ~(top /\ queue1)
<1> DEFINE b == Bound(stack)
           ends == ScanLine(k)
           bound == [row |-> ends.row, col |-> col]
           f == [line |-> [ends EXCEPT !.pos = col + 1], bound |-> bound]
           st == Append(stack, f)
<1>1. /\ Held(ends, b) /\ col \in Nat /\ ends.pos <= col /\ col < ends.len
      /\ BoundOK(bound) /\ f \in Frame /\ Held(f.line, b) /\ f.line.row = ends.row
      /\ Held(line', bound) /\ line'.row = line.row /\ line'.pos = line.pos + 1
      /\ k \in 0 .. Reach(b)
  BY DEF DelimitedBegun
<1>2. /\ Program /\ BoundOK(b) /\ Stream(Coming) /\ Held(line, b) /\ Past(line.row, Coming)
      /\ \A x \in DOMAIN Coming : Coming[x].row \in Nat /\ Coming[x].indent \in Nat
      /\ Bodies(stack, Coming) /\ DOMAIN Coming = 1 .. Len(Coming) /\ Len(Coming) \in Nat
  BY SourceIs, StreamIs
<1>3. k \in DOMAIN Coming /\ ends.row = Coming[k].row /\ ends.pos = Coming[k].indent
  BY <1>1, ScanLineIs
<1>4. /\ line \in LineRecord /\ line.row \in Nat /\ line.row \in DOMAIN text /\ line.pos \in Nat /\ line.len \in Nat
      /\ ends \in LineRecord /\ ends.row \in DOMAIN text /\ ends.row \in Nat /\ ends.len \in Nat /\ ends.pos \in Nat
  BY <1>1, <1>2, HeldIs
<1>5. /\ r \in Nat /\ d \in Nat
  BY <1>2, ColumnsAre
<1>6. Reaches(b, ends.row)
  BY <1>1 DEF Held
<1>7. Shown(b, ends.row, col)
  <2>1. <<ends.row, col>> \in Ahead(ends)
    <3> HIDE DEF ends
    <3>1. col \in {e \in ends.pos .. ends.len : e < ends.len \/ ends.terminated}
      BY <1>1, <1>4
    <3>2. <<ends.row, col>> \in {<<ends.row, c>> : c \in {e \in ends.pos .. ends.len : e < ends.len \/ ends.terminated}}
      BY <3>1
    <3> QED BY <3>2 DEF Ahead
  <2>2. col \in Columns(ends.row)
    <3>1. Offsets(Ahead(ends)) /\ <<ends.row, col>>[1] = ends.row /\ <<ends.row, col>>[2] = col
      BY <1>1, <1>2, AheadOrders
    <3> QED BY <2>1, <3>1 DEF Offsets
  <2> QED BY <1>1, <1>2, <1>4, <2>1, <2>2, AheadPlaces DEF Gives
<1> HIDE DEF ends
<1>8. f.line.pos = col + 1 /\ f.line # Nothing /\ f.bound = bound /\ bound.row = ends.row /\ bound.col = col
      /\ line' # Nothing /\ bound # Nothing
  <2>1. f.line.pos = col + 1
    BY <1>4 DEF LineRecord
  <2>2. bound # Nothing
    BY <1>1, <1>4, NothingIsNone DEF BoundRecord
  <2> QED BY <2>1, <2>2, <1>1, <1>2, HeldIs
<1> HIDE DEF f, bound
<1>9. \A e \in Nat : e <= col => Shown(b, ends.row, e)
  BY <1>1, <1>2, <1>4, <1>7, ShownIs
<1>10. line.row < ends.row
  BY <1>2, <1>3 DEF Past
<1> DEFINE now == r = line.row /\ d = line.pos
           shut == r = ends.row /\ d = col
           body == Gives(line', f.bound, r, d)
           top == Gives(f.line, Bound(stack), r, d)
           old(x) == QueuedAt(Coming, stack, x, r, d)
           new(x) == QueuedAt(Coming, st, x, r, d)
<1>11. body <=> r = line.row /\ line.pos + 1 <= d
  BY <1>1, <1>4, <1>5, <1>8, <1>10 DEF Gives, Shown
<1>12. Gives(line, b, r, d) <=> r = line.row /\ line.pos <= d
  <2>1. r = line.row => Shown(b, r, d)
    BY <1>2, <1>4, <1>5, <1>6, <1>10, ShownIs
  <2> QED BY <2>1 DEF Gives
<1>13. /\ Gives(line, b, r, d) <=> now \/ body
       /\ ~(now /\ body)
  <2>1. line.pos <= d <=> d = line.pos \/ line.pos + 1 <= d
    BY <1>4, <1>5
  <2>2. ~(d = line.pos /\ line.pos + 1 <= d)
    BY <1>4, <1>5
  <2> HIDE DEF body
  <2> QED BY <1>11, <1>12, <2>1, <2>2
<1>14. top <=> r = ends.row /\ col + 1 <= d /\ Shown(b, r, d)
  BY <1>1, <1>8 DEF Gives
<1>15. ASSUME NEW x \in DOMAIN Coming
       PROVE  new(x) <=> /\ Coming[x].row = r /\ Coming[x].indent <= d
                         /\ IF Coming[x].row <= f.bound.row THEN Shown(f.bound, r, d) ELSE Shown(ReaderIn(stack, r), r, d)
  BY <1>1, <1>2, PushedQueues
<1>16. ASSUME NEW x \in DOMAIN Coming, Coming[x].row <= ends.row
       PROVE  ReaderIn(stack, Coming[x].row) = b
  <2>1. Reaches(b, Coming[x].row)
    <3>1. b # Nothing => b.row \in Nat
      BY <1>2 DEF BoundOK, BoundRecord
    <3>2. Coming[x].row \in Nat
      BY <1>2
    <3> QED BY <1>4, <1>6, <1>16, <3>1, <3>2 DEF Reaches
  <2> QED BY <1>2, <2>1, ReaderTop
<1>17. ASSUME NEW x \in DOMAIN Coming, x # k PROVE new(x) <=> old(x)
  <2>1. Coming[x].row < ends.row \/ ends.row < Coming[x].row
    <3>1. x < k \/ k < x
      BY <1>2, <1>3, <1>17
    <3> QED BY <1>2, <1>3, <3>1 DEF Stream
  <2>2. Coming[x].row \in Nat
    BY <1>2
  <2>3. CASE Coming[x].row < ends.row
    <3>1. ReaderIn(stack, Coming[x].row) = b /\ Coming[x].row <= f.bound.row
      BY <1>4, <1>8, <1>16, <2>2, <2>3
    <3>2. Shown(b, Coming[x].row, d)
      BY <1>2, <1>5, <1>4, <1>6, <2>2, <2>3, ShownIs
    <3>3. Shown(f.bound, Coming[x].row, d)
      BY <1>8, <2>3 DEF Shown
    <3>4. new(x) <=> Coming[x].row = r /\ Coming[x].indent <= d
      BY <1>15, <3>1, <3>3
    <3> QED BY <3>1, <3>2, <3>4 DEF QueuedAt
  <2>4. CASE ends.row < Coming[x].row
    <3>1. ~(Coming[x].row <= f.bound.row)
      BY <1>4, <1>8, <2>2, <2>4
    <3> QED BY <1>15, <3>1 DEF QueuedAt
  <2> QED BY <2>1, <2>3, <2>4
<1>18. /\ old(k) <=> r = ends.row /\ ends.pos <= d /\ Shown(b, r, d)
       /\ new(k) <=> r = ends.row /\ ends.pos <= d /\ d < col
  <2>1. ReaderIn(stack, ends.row) = b
    BY <1>3, <1>4, <1>16
  <2>2. old(k) <=> r = ends.row /\ ends.pos <= d /\ Shown(b, r, d)
    BY <1>3, <2>1 DEF QueuedAt
  <2>3. Coming[k].row <= f.bound.row
    BY <1>3, <1>4, <1>8
  <2>4. r = ends.row => (Shown(f.bound, r, d) <=> d < col)
    BY <1>4, <1>8 DEF Shown
  <2>5. new(k) <=> Coming[k].row = r /\ Coming[k].indent <= d /\ Shown(f.bound, r, d)
    BY <1>3, <1>15, <2>3
  <2> HIDE DEF new
  <2> QED BY <1>3, <2>2, <2>4, <2>5
<1>19. /\ Queued(Coming, stack, r, d) <=> \E x \in DOMAIN Coming : old(x)
       /\ Queued(Coming, st, r, d) <=> \E x \in DOMAIN Coming : new(x)
  BY DEF Queued
<1>20. ASSUME NEW x \in DOMAIN Coming, x # k, old(x) PROVE r # ends.row
  <2>1. x < k \/ k < x
    BY <1>2, <1>3, <1>20
  <2>2. Coming[x].row = r /\ Coming[x].row \in Nat
    BY <1>2, <1>20 DEF QueuedAt
  <2>3. Coming[x].row < Coming[k].row \/ Coming[k].row < Coming[x].row
    BY <1>2, <1>3, <2>1 DEF Stream
  <2> QED BY <1>3, <1>4, <2>2, <2>3
<1> HIDE DEF old, new, body, top, st
<1>21. /\ old(k) <=> shut \/ top \/ new(k)
       /\ ~(shut /\ top) /\ ~(shut /\ new(k)) /\ ~(top /\ new(k))
  <2>1. r = ends.row /\ d <= col => Shown(b, r, d)
    BY <1>5, <1>9
  <2>2. d < col \/ d = col \/ col + 1 <= d
    BY <1>1, <1>5
  <2>3. /\ d < col => d <= col
        /\ d = col => d <= col /\ ends.pos <= d /\ ~(d < col) /\ ~(col + 1 <= d)
        /\ col + 1 <= d => ends.pos <= d /\ ~(d < col)
    BY <1>1, <1>4, <1>5
  <2> QED BY <1>14, <1>18, <2>1, <2>2, <2>3
<1>22. shut \/ top => r = ends.row
  BY <1>14
<1> HIDE DEF shut
<1>23. /\ Queued(Coming, stack, r, d) <=> shut \/ top \/ Queued(Coming, st, r, d)
       /\ ~(shut /\ Queued(Coming, st, r, d)) /\ ~(top /\ Queued(Coming, st, r, d))
  <2>1. \A x \in DOMAIN Coming : x # k => (new(x) <=> old(x))
    BY <1>17
  <2>2. \A x \in DOMAIN Coming : x # k /\ old(x) => r # ends.row
    BY <1>20
  <2> QED BY <1>3, <1>19, <1>21, <1>22, <2>1, <2>2
<1> HIDE DEF now
<1> QED BY <1>13, <1>21, <1>23 DEF body, top, shut, st, f, bound, ends, now

LEMMA DelimitedPlaces ==
    ASSUME SourceInv, PlaceInv, StartDelimitedBody, status' # "error"
    PROVE  AllPlaced(line', Coming', stack', delivered', passed')
<1>1. /\ Kept /\ line # Nothing /\ Held(line, Bound(stack)) /\ line.pos < line.len
  BY StartDelimitedBodyIs
<1>2. PICK k, col : DelimitedBegun(k, col)
  BY StartDelimitedBodyIs
<1> DEFINE ends == ScanLine(k)
           f == [line |-> [ends EXCEPT !.pos = col + 1], bound |-> [row |-> ends.row, col |-> col]]
<1>3. /\ stack' = Append(stack, f) /\ f \in Frame /\ Held(ends, Bound(stack)) /\ Coming' = Coming
      /\ col \in Nat /\ ends.pos <= col /\ col < ends.len
      /\ delivered' = delivered \cup {<<line.row, line.pos>>}
      /\ passed' = passed \cup {<<ends.row, col>>}
  BY <1>2 DEF DelimitedBegun
<1>4. Program /\ BoundOK(Bound(stack)) /\ Bodies(stack, Coming)
  BY SourceIs
<1>5. Bound(stack') = f.bound
  BY <1>3, <1>4, AppendProperties DEF Bodies, Bound, Last
<1>6. ASSUME NEW r \in DOMAIN text, NEW d \in Columns(r)
      PROVE  Placed(line', Coming, stack', delivered', passed', r, d)
  <2> DEFINE now == r = line.row /\ d = line.pos
             shut == r = ends.row /\ d = col
             body == Gives(line', f.bound, r, d)
             top == Gives(f.line, Bound(stack), r, d)
             queue1 == Queued(Coming, Append(stack, f), r, d)
             given == Gives(line, Bound(stack), r, d)
             queued0 == Queued(Coming, stack, r, d)
  <2>1. Placed(line, Coming, stack, delivered, passed, r, d)
    BY DEF PlaceInv, AllPlaced
  <2>2. /\ given \/ queued0 <=> now \/ shut \/ body \/ top \/ queue1
        /\ ~(given /\ queued0) => /\ ~(now /\ shut) /\ ~(now /\ body) /\ ~(now /\ top) /\ ~(now /\ queue1)
                                  /\ ~(shut /\ body) /\ ~(shut /\ top) /\ ~(shut /\ queue1)
                                  /\ ~(body /\ top) /\ ~(body /\ queue1) /\ ~(top /\ queue1)
    <3>1. CASE k = 0
      <4>1. /\ given <=> now \/ shut \/ body \/ top
            /\ ~(now /\ shut) /\ ~(now /\ body) /\ ~(now /\ top)
            /\ ~(shut /\ body) /\ ~(shut /\ top) /\ ~(body /\ top)
            /\ queue1 <=> queued0
        BY <1>1, <1>2, <3>1, DelimitedHere
      <4> HIDE DEF now, shut, body, top, queue1, given, queued0
      <4> QED BY <4>1
    <3>2. CASE k # 0
      <4>1. /\ given <=> now \/ body
            /\ ~(now /\ body)
            /\ queued0 <=> shut \/ top \/ queue1
            /\ ~(shut /\ top) /\ ~(shut /\ queue1) /\ ~(top /\ queue1)
        BY <1>1, <1>2, <3>2, DelimitedLater
      <4> HIDE DEF now, shut, body, top, queue1, given, queued0
      <4> QED BY <4>1
    <3> QED BY <3>1, <3>2
  <2>3. <<r, d>> \in delivered' <=> <<r, d>> \in delivered \/ now
    BY <1>3
  <2>4. <<r, d>> \in passed' <=> <<r, d>> \in passed \/ shut
    BY <1>3
  <2> HIDE DEF now, shut, f
  <2>5. ~(given /\ queued0)
    BY <2>1 DEF Placed, OneOf
  <2>6. ~(Suspended(stack, r, d) /\ top)
    <3>1. top => given \/ queued0
      BY <2>2
    <3> HIDE DEF top
    <3> QED BY <2>1, <3>1 DEF Placed, OneOf
  <2>7. \A i, j \in DOMAIN stack :
            Gives(stack[i].line, Outer(stack, i), r, d) /\ Gives(stack[j].line, Outer(stack, j), r, d) => i = j
    BY <2>1 DEF Placed
  <2>8. /\ Suspended(stack', r, d) <=> Suspended(stack, r, d) \/ top
        /\ \A i, j \in DOMAIN stack' :
            Gives(stack'[i].line, Outer(stack', i), r, d) /\ Gives(stack'[j].line, Outer(stack', j), r, d) => i = j
    BY <1>3, <2>6, <2>7, PushedSuspends
  <2>9. /\ Gives(line', Bound(stack'), r, d) <=> body
        /\ Queued(Coming, stack', r, d) <=> queue1
    BY <1>3, <1>5
  <2>10. OneOf(<<r, d>> \in delivered, <<r, d>> \in passed, given, Suspended(stack, r, d), queued0)
    BY <2>1 DEF Placed
  <2> HIDE DEF body, top, queue1, given, queued0
  <2>11. OneOf(<<r, d>> \in delivered', <<r, d>> \in passed', Gives(line', Bound(stack'), r, d),
               Suspended(stack', r, d), Queued(Coming, stack', r, d))
    BY <2>2, <2>3, <2>4, <2>5, <2>8, <2>9, <2>10 DEF OneOf
  <2> QED BY <2>8, <2>11 DEF Placed
<1>7. delivered' \cup passed' \subseteq AllOffsets
  <2>1. delivered \cup passed \subseteq AllOffsets
    BY DEF PlaceInv, AllPlaced
  <2>2. Ahead(line) \subseteq AllOffsets /\ Ahead(ends) \subseteq AllOffsets
    BY <1>1, <1>3, <1>4, AheadPlaces
  <2>3. ASSUME NEW l, NEW p \in Nat, l.pos \in Nat, l.len \in Nat, l.pos <= p, p < l.len
        PROVE  <<l.row, p>> \in Ahead(l)
    <3>1. p \in {e \in l.pos .. l.len : e < l.len \/ l.terminated}
      BY <2>3
    <3>2. <<l.row, p>> \in {<<l.row, c>> : c \in {e \in l.pos .. l.len : e < l.len \/ l.terminated}}
      BY <3>1
    <3> QED BY <3>2 DEF Ahead
  <2>4. line.pos \in Nat /\ line.len \in Nat /\ ends.pos \in Nat /\ ends.len \in Nat /\ line.pos <= line.pos
    BY <1>1, <1>3, <1>4, HeldIs
  <2>5. <<line.row, line.pos>> \in Ahead(line)
    BY <1>1, <2>3, <2>4
  <2> HIDE DEF ends
  <2>6. <<ends.row, col>> \in Ahead(ends)
    BY <1>3, <2>3, <2>4
  <2> QED BY <1>3, <2>1, <2>2, <2>5, <2>6
<1> QED BY <1>3, <1>6, <1>7 DEF AllPlaced

LEMMA PlaceStep ==
    ASSUME SourceInv, PlaceInv, [Next]_vars
    PROVE  PlaceInv'
<1>1. text' = text
  BY SourceStep DEF Kept
<1>2. SUFFICES AllPlaced(line', Coming', stack', delivered', passed')
  BY <1>1, PlacedCarried DEF PlaceInv
<1>3. CASE UNCHANGED <<text, source, history>>
  <2>1. delivered' = delivered /\ passed' = passed
    BY <1>3 DEF history
  <2>2. Stays /\ line' = line
    BY <1>3, QuietKept
  <2> QED BY <2>1, <2>2 DEF Stays, PlaceInv
<1> QED BY <1>3, StepsAre, LoadLinePlaces, BytePlaces, CommentPlaces, PodPlaces, EndBodyPlaces,
           HeredocPlaces, DelimitedPlaces

LEMMA PlaceStart ==
    ASSUME Init
    PROVE  PlaceInv
<1>1. /\ SourceInv /\ line = Nothing /\ stack = <<>> /\ delivered = {} /\ passed = {}
      /\ Len(Coming) = Len(text) /\ \A i \in DOMAIN Coming : Coming[i].row = i /\ Coming[i].indent = 0
  BY SourceInit
<1>2. Program /\ DOMAIN Coming = 1 .. Len(Coming)
  BY <1>1, SourceIs
<1>3. DOMAIN text = 1 .. Len(text)
  BY <1>2, LenProperties DEF Program
<1>4. ASSUME NEW r \in DOMAIN text, NEW d \in Columns(r)
      PROVE  Placed(line, Coming, stack, delivered, passed, r, d)
  <2>1. ReaderIn(stack, r) = Nothing
    BY <1>1 DEF ReaderIn
  <2>2. r \in DOMAIN Coming /\ d \in Nat
    BY <1>1, <1>2, <1>3, ColumnsAre
  <2>3. QueuedAt(Coming, stack, r, r, d)
    BY <1>1, <2>1, <2>2 DEF QueuedAt, Shown
  <2>4. Queued(Coming, stack, r, d)
    BY <2>2, <2>3 DEF Queued
  <2>5. ~Gives(line, Bound(stack), r, d) /\ ~Suspended(stack, r, d)
    BY <1>1 DEF Gives, Suspended
  <2>6. DOMAIN stack = {}
    BY <1>1
  <2> QED BY <1>1, <2>4, <2>5, <2>6 DEF Placed, OneOf
<1> QED BY <1>1, <1>4 DEF PlaceInv, AllPlaced

\* The bound under which row r will be read reaches it.
LEMMA ReaderReaches ==
    ASSUME Program, NEW st, NEW c, Bodies(st, c), NEW r \in Nat
    PROVE  BoundOK(ReaderIn(st, r)) /\ Reaches(ReaderIn(st, r), r)
<1> DEFINE over == {i \in DOMAIN st : st[i].bound.row >= r}
<1>1. /\ DOMAIN st = 1 .. Len(st) /\ Len(st) \in Nat
      /\ \A i \in DOMAIN st : BoundOK(st[i].bound) /\ st[i].bound \in BoundRecord
  BY BoundsAreOK
<1>2. CASE over = {}
  <2>1. ReaderIn(st, r) = Nothing
    BY <1>2 DEF ReaderIn
  <2> QED BY <2>1 DEF BoundOK, Reaches
<1>3. CASE over # {}
  <2>1. over \in SUBSET Nat /\ \A i \in over : i <= Len(st)
    BY <1>1
  <2>2. Max(over) \in over
    BY <1>1, <1>3, <2>1, GreatestIs
  <2>3. ReaderIn(st, r) = st[Max(over)].bound
    BY <1>3 DEF ReaderIn
  <2>4. st[Max(over)].bound.row \in Nat
    BY <1>1, <2>2 DEF BoundRecord
  <2> QED BY <1>1, <2>2, <2>3, <2>4 DEF Reaches
<1> QED BY <1>2, <1>3

\* The three parts of Pieces.
CurrentPiece == IF line = Nothing THEN <<>> ELSE <<Ahead(line)>>
SuspendedPieces ==
    [i \in DOMAIN stack |-> Ahead(SetEof(stack[i].line, IF i = 1 THEN Nothing ELSE stack[i - 1].bound))]
ComingPieces == [i \in DOMAIN Coming |-> Ahead(LineAt(i, Reader(Coming[i].row)))]

LEMMA CurrentPieceIs ==
    ASSUME SourceInv
    PROVE  /\ CurrentPiece \in Seq(SUBSET AllOffsets) /\ Len(CurrentPiece) \in {0, 1}
           /\ \A r \in DOMAIN text : \A d \in Columns(r) :
                /\ Len(CurrentPiece) = 1 => (<<r, d>> \in CurrentPiece[1] <=> Gives(line, Bound(stack), r, d))
                /\ Len(CurrentPiece) = 0 => ~Gives(line, Bound(stack), r, d)
<1>1. CASE line = Nothing
  <2>1. CurrentPiece = <<>>
    BY <1>1 DEF CurrentPiece
  <2> QED BY <1>1, <2>1 DEF Gives
<1>2. CASE line # Nothing
  <2>1. Program /\ BoundOK(Bound(stack)) /\ Held(line, Bound(stack))
    BY <1>2, SourceIs
  <2>2. /\ Ahead(line) \subseteq AllOffsets
        /\ \A r \in DOMAIN text : \A d \in Columns(r) : <<r, d>> \in Ahead(line) <=> Gives(line, Bound(stack), r, d)
    BY <2>1, AheadPlaces
  <2>3. CurrentPiece = <<Ahead(line)>>
    BY <1>2 DEF CurrentPiece
  <2>4. Len(CurrentPiece) = 1 /\ CurrentPiece[1] = Ahead(line) /\ CurrentPiece \in Seq(SUBSET AllOffsets)
    BY <2>2, <2>3
  <2> QED BY <2>2, <2>4
<1> QED BY <1>1, <1>2

LEMMA SuspendedPiecesAre ==
    ASSUME SourceInv
    PROVE  /\ SuspendedPieces \in Seq(SUBSET AllOffsets) /\ Len(SuspendedPieces) = Len(stack)
           /\ \A i \in DOMAIN stack : \A r \in DOMAIN text : \A d \in Columns(r) :
                <<r, d>> \in SuspendedPieces[i] <=> Gives(stack[i].line, Outer(stack, i), r, d)
<1>1. Program /\ Bodies(stack, Coming)
  BY SourceIs
<1>2. /\ DOMAIN stack = 1 .. Len(stack) /\ Len(stack) \in Nat
      /\ \A i \in DOMAIN stack : BoundOK(Outer(stack, i))
  BY <1>1, BoundsAreOK
<1>3. ASSUME NEW i \in DOMAIN stack
      PROVE  /\ SuspendedPieces[i] \subseteq AllOffsets
             /\ \A r \in DOMAIN text : \A d \in Columns(r) :
                  <<r, d>> \in SuspendedPieces[i] <=> Gives(stack[i].line, Outer(stack, i), r, d)
  <2>1. Held(stack[i].line, Outer(stack, i))
    BY <1>1 DEF Bodies, Body
  <2>2. SuspendedPieces[i] = Ahead(SetEof(stack[i].line, Outer(stack, i)))
    BY DEF SuspendedPieces, Outer
  <2>3. SuspendedPieces[i] = Ahead(stack[i].line)
    BY <2>1, <2>2 DEF Held
  <2> QED BY <1>1, <1>2, <2>1, <2>3, AheadPlaces
<1>4. SuspendedPieces = [i \in 1 .. Len(stack) |-> SuspendedPieces[i]]
  BY <1>2 DEF SuspendedPieces
<1>5. \A i \in 1 .. Len(stack) : SuspendedPieces[i] \in SUBSET AllOffsets
  BY <1>2, <1>3
<1>6. SuspendedPieces \in [1 .. Len(stack) -> SUBSET AllOffsets]
  BY <1>4, <1>5, Zenon
<1>7. SuspendedPieces \in Seq(SUBSET AllOffsets) /\ Len(SuspendedPieces) = Len(stack)
  <2>1. SuspendedPieces \in Seq(SUBSET AllOffsets)
    BY <1>2, <1>6
  <2>2. DOMAIN SuspendedPieces = 1 .. Len(stack) /\ DOMAIN SuspendedPieces = 1 .. Len(SuspendedPieces)
        /\ Len(SuspendedPieces) \in Nat
    BY <1>6, <2>1, LenProperties
  <2> QED BY <1>2, <2>1, <2>2
<1> QED BY <1>3, <1>7

LEMMA ComingPiecesAre ==
    ASSUME SourceInv
    PROVE  /\ ComingPieces \in Seq(SUBSET AllOffsets) /\ Len(ComingPieces) = Len(Coming)
           /\ \A x \in DOMAIN Coming : \A r \in DOMAIN text : \A d \in Columns(r) :
                <<r, d>> \in ComingPieces[x] <=> QueuedAt(Coming, stack, x, r, d)
<1>1. Program /\ Bodies(stack, Coming) /\ Stream(Coming) /\ number \in Nat
  BY SourceIs
<1>2. /\ DOMAIN Coming = 1 .. Len(Coming) /\ Len(Coming) \in Nat
      /\ \A x \in DOMAIN Coming : Coming[x].row \in Nat
  BY <1>1, StreamIs
<1>3. ASSUME NEW x \in DOMAIN Coming
      PROVE  /\ ComingPieces[x] \subseteq AllOffsets
             /\ \A r \in DOMAIN text : \A d \in Columns(r) :
                  <<r, d>> \in ComingPieces[x] <=> QueuedAt(Coming, stack, x, r, d)
  <2> DEFINE b == ReaderIn(stack, Coming[x].row)
             l == LineAt(x, b)
  <2>1. BoundOK(b) /\ Reaches(b, Coming[x].row)
    BY <1>1, <1>2, ReaderReaches
  <2>2. ComingPieces[x] = Ahead(l)
    BY DEF ComingPieces, Reader, ReaderIn
  <2> HIDE DEF b
  <2>3. Held(l, b) /\ l.row = Coming[x].row /\ l.pos = Coming[x].indent
    BY <1>1, <2>1, LineAtIs
  <2>4. l # Nothing
    BY <1>1, <2>1, <2>3, HeldIs
  <2> HIDE DEF l
  <2>5. \A r \in DOMAIN text : \A d \in Columns(r) : Gives(l, b, r, d) <=> QueuedAt(Coming, stack, x, r, d)
    BY <2>3, <2>4 DEF Gives, QueuedAt, b
  <2> QED BY <1>1, <2>1, <2>2, <2>3, <2>5, AheadPlaces
<1>4. ComingPieces = [i \in 1 .. Len(Coming) |-> ComingPieces[i]]
  BY <1>2 DEF ComingPieces
<1>5. \A i \in 1 .. Len(Coming) : ComingPieces[i] \in SUBSET AllOffsets
  BY <1>2, <1>3
<1>6. ComingPieces \in [1 .. Len(Coming) -> SUBSET AllOffsets]
  BY <1>4, <1>5, Zenon
<1>7. ComingPieces \in Seq(SUBSET AllOffsets) /\ Len(ComingPieces) = Len(Coming)
  <2>1. ComingPieces \in Seq(SUBSET AllOffsets)
    BY <1>2, <1>6
  <2>2. DOMAIN ComingPieces = 1 .. Len(Coming) /\ DOMAIN ComingPieces = 1 .. Len(ComingPieces)
        /\ Len(ComingPieces) \in Nat
    BY <1>6, <2>1, LenProperties
  <2> QED BY <1>2, <2>1, <2>2
<1> QED BY <1>3, <1>7

\* Which piece a byte is in.
InPiece(m, r, d) ==
    LET a == Len(CurrentPiece)  n == Len(stack) IN
    \/ m = 1 /\ a = 1 /\ Gives(line, Bound(stack), r, d)
    \/ a < m /\ m <= a + n /\ Gives(stack[m - a].line, Outer(stack, m - a), r, d)
    \/ a + n < m /\ QueuedAt(Coming, stack, m - (a + n), r, d)

LEMMA Joined ==
    ASSUME NEW S, NEW A \in Seq(S), NEW B \in Seq(S)
    PROVE  /\ A \o B \in Seq(S) /\ Len(A \o B) = Len(A) + Len(B)
           /\ \A i \in 1 .. (Len(A) + Len(B)) : (A \o B)[i] = IF i <= Len(A) THEN A[i] ELSE B[i - Len(A)]
BY ConcatProperties

LEMMA PiecesAre ==
    ASSUME SourceInv
    PROVE  /\ Pieces \in Seq(SUBSET AllOffsets)
           /\ DOMAIN Pieces = 1 .. (Len(CurrentPiece) + Len(stack) + Len(Coming))
           /\ \A m \in DOMAIN Pieces : \A r \in DOMAIN text : \A d \in Columns(r) :
                <<r, d>> \in Pieces[m] <=> InPiece(m, r, d)
<1> DEFINE a == Len(CurrentPiece)
           n == Len(stack)
           c == Len(Coming)
           S == SUBSET AllOffsets
           A == CurrentPiece
           B == SuspendedPieces
           C == ComingPieces
<1>1. A \in Seq(S) /\ B \in Seq(S) /\ C \in Seq(S) /\ Len(B) = n /\ Len(C) = c /\ a \in {0, 1}
  BY CurrentPieceIs, SuspendedPiecesAre, ComingPiecesAre
<1>2. n \in Nat /\ c \in Nat /\ DOMAIN stack = 1 .. n /\ DOMAIN Coming = 1 .. c /\ a \in Nat
  BY <1>1, SourceIs, BoundsAreOK
<1>3. Pieces = (A \o B) \o C
  BY DEF Pieces, CurrentPiece, SuspendedPieces, ComingPieces
<1> HIDE DEF S, A, B, C
<1>4. Len(A) = a
  BY DEF A
<1> HIDE DEF a, n, c
<1>5. /\ A \o B \in Seq(S) /\ Len(A \o B) = a + n
      /\ \A i \in 1 .. (a + n) : (A \o B)[i] = IF i <= a THEN A[i] ELSE B[i - a]
  BY <1>1, <1>4, ConcatProperties
<1> DEFINE AB == A \o B
<1>6. /\ AB \o C \in Seq(S) /\ Len(AB \o C) = (a + n) + c
      /\ \A i \in 1 .. ((a + n) + c) : (AB \o C)[i] = IF i <= a + n THEN AB[i] ELSE C[i - (a + n)]
  <2> HIDE DEF AB
  <2>1. AB \in Seq(S) /\ Len(AB) = a + n
    BY <1>5 DEF AB
  <2>2. C \in Seq(S) /\ Len(C) = c
    BY <1>1
  <2>3. /\ AB \o C \in Seq(S) /\ Len(AB \o C) = Len(AB) + Len(C)
        /\ \A i \in 1 .. (Len(AB) + Len(C)) : (AB \o C)[i] = IF i <= Len(AB) THEN AB[i] ELSE C[i - Len(AB)]
    BY <2>1, <2>2, Joined
  <2> QED BY <2>1, <2>2, <2>3
<1>7. Pieces \in Seq(S) /\ DOMAIN Pieces = 1 .. (a + n + c)
  <2>1. Pieces \in Seq(S) /\ Len(Pieces) = (a + n) + c
    BY <1>3, <1>6
  <2> QED BY <2>1, LenProperties
<1>8. ASSUME NEW m \in DOMAIN Pieces, NEW r \in DOMAIN text, NEW d \in Columns(r)
      PROVE  <<r, d>> \in Pieces[m] <=> InPiece(m, r, d)
  <2>1. m \in 1 .. ((a + n) + c) /\ m \in Nat
    BY <1>2, <1>7
  <2>2. CASE m <= a
    <3>1. m = 1 /\ a = 1 /\ m <= a + n /\ m \in 1 .. (a + n) /\ ~(a < m) /\ ~(a + n < m)
      BY <1>1, <1>2, <2>1, <2>2
    <3>2. Pieces[m] = A[1]
      BY <1>3, <1>5, <1>6, <2>1, <2>2, <3>1
    <3>3. <<r, d>> \in A[1] <=> Gives(line, Bound(stack), r, d)
      BY <3>1, CurrentPieceIs DEF A, a
    <3> QED BY <3>1, <3>2, <3>3 DEF InPiece, a, n
  <2>3. CASE a < m /\ m <= a + n
    <3>1. m \in 1 .. (a + n) /\ ~(m <= a) /\ m - a \in DOMAIN stack /\ ~(a + n < m) /\ ~(m = 1 /\ a = 1)
      BY <1>2, <2>1, <2>3
    <3>2. Pieces[m] = B[m - a]
      BY <1>3, <1>5, <1>6, <2>1, <2>3, <3>1
    <3>3. <<r, d>> \in B[m - a] <=> Gives(stack[m - a].line, Outer(stack, m - a), r, d)
      BY <3>1, SuspendedPiecesAre DEF B
    <3> QED BY <2>3, <3>1, <3>2, <3>3 DEF InPiece, a, n
  <2>4. CASE a + n < m
    <3>1. ~(m <= a + n) /\ m - (a + n) \in DOMAIN Coming /\ ~(m = 1 /\ a = 1)
      BY <1>2, <2>1, <2>4
    <3>2. Pieces[m] = C[m - (a + n)]
      BY <1>3, <1>6, <2>1, <3>1
    <3>3. <<r, d>> \in C[m - (a + n)] <=> QueuedAt(Coming, stack, m - (a + n), r, d)
      BY <3>1, ComingPiecesAre DEF C
    <3> QED BY <2>4, <3>1, <3>2, <3>3 DEF InPiece, a, n
  <2> QED BY <1>2, <2>1, <2>2, <2>3, <2>4
<1> QED BY <1>7, <1>8 DEF S, a, n, c

\* A byte is in at most one piece, and in one exactly if it is still to come.
LEMMA OnePiece ==
    ASSUME SourceInv, PlaceInv, NEW r \in DOMAIN text, NEW d \in Columns(r)
    PROVE  /\ \A m, k \in DOMAIN Pieces : InPiece(m, r, d) /\ InPiece(k, r, d) => m = k
           /\ (\E m \in DOMAIN Pieces : InPiece(m, r, d))
                <=> Gives(line, Bound(stack), r, d) \/ Suspended(stack, r, d) \/ Queued(Coming, stack, r, d)
<1> DEFINE a == Len(CurrentPiece)
           n == Len(stack)
           c == Len(Coming)
           G == Gives(line, Bound(stack), r, d)
           S(i) == Gives(stack[i].line, Outer(stack, i), r, d)
           Q(x) == QueuedAt(Coming, stack, x, r, d)
<1>1. /\ ~(G /\ Suspended(stack, r, d)) /\ ~(G /\ Queued(Coming, stack, r, d))
      /\ ~(Suspended(stack, r, d) /\ Queued(Coming, stack, r, d))
      /\ \A i, j \in DOMAIN stack : S(i) /\ S(j) => i = j
  BY DEF PlaceInv, AllPlaced, Placed, OneOf
<1>2. n \in Nat /\ c \in Nat /\ a \in {0, 1} /\ DOMAIN stack = 1 .. n /\ DOMAIN Coming = 1 .. c
  BY SourceIs, BoundsAreOK, CurrentPieceIs
<1>3. DOMAIN Pieces = 1 .. (a + n + c)
  BY PiecesAre
<1>4. G => a = 1
  BY <1>2, CurrentPieceIs
<1>5. \A x, y \in DOMAIN Coming : Q(x) /\ Q(y) => x = y
  <2> SUFFICES ASSUME NEW x \in DOMAIN Coming, NEW y \in DOMAIN Coming, Q(x), Q(y), x # y
               PROVE  FALSE
    OBVIOUS
  <2>1. Coming[x].row = r /\ Coming[y].row = r
    BY DEF QueuedAt
  <2>2. Coming[x].row < Coming[y].row \/ Coming[y].row < Coming[x].row
    <3>1. x < y \/ y < x
      BY <1>2
    <3> QED BY <3>1, SourceIs DEF Stream
  <2>3. r \in Nat
    BY SourceIs, RowsAre
  <2> QED BY <2>1, <2>2, <2>3
<1>6. \A i \in DOMAIN stack : S(i) => Suspended(stack, r, d)
  BY DEF Suspended
<1>7. \A x \in DOMAIN Coming : Q(x) => Queued(Coming, stack, r, d)
  BY DEF Queued
<1>8. \A m \in DOMAIN Pieces : InPiece(m, r, d) <=>
        \/ m = 1 /\ a = 1 /\ G
        \/ m - a \in DOMAIN stack /\ S(m - a)
        \/ m - (a + n) \in DOMAIN Coming /\ Q(m - (a + n))
  <2> SUFFICES ASSUME NEW m \in DOMAIN Pieces
               PROVE  InPiece(m, r, d) <=>
                        \/ m = 1 /\ a = 1 /\ G
                        \/ m - a \in DOMAIN stack /\ S(m - a)
                        \/ m - (a + n) \in DOMAIN Coming /\ Q(m - (a + n))
    OBVIOUS
  <2>1. /\ InPiece(m, r, d) <=> \/ m = 1 /\ a = 1 /\ G
                                \/ a < m /\ m <= a + n /\ S(m - a)
                                \/ a + n < m /\ Q(m - (a + n))
    BY DEF InPiece
  <2> HIDE DEF a, n, c, G, S, Q
  <2>2. /\ (a < m /\ m <= a + n) <=> m - a \in DOMAIN stack
        /\ (a + n < m) <=> m - (a + n) \in DOMAIN Coming
    BY <1>2, <1>3
  <2> QED BY <2>1, <2>2
<1> HIDE DEF a, n, c, G, S, Q
<1>9. ASSUME NEW m \in DOMAIN Pieces, NEW k \in DOMAIN Pieces, InPiece(m, r, d), InPiece(k, r, d)
      PROVE  m = k
  <2>1. m \in Int /\ k \in Int
    BY <1>2, <1>3
  <2>2. CASE G
    BY <1>1, <1>6, <1>7, <1>8, <1>9, <2>2
  <2>3. CASE Suspended(stack, r, d)
    <3>1. m - a \in DOMAIN stack /\ S(m - a) /\ k - a \in DOMAIN stack /\ S(k - a)
      BY <1>1, <1>7, <1>8, <1>9, <2>3
    <3>2. m - a = k - a
      BY <1>1, <3>1
    <3> QED BY <1>2, <2>1, <3>2
  <2>4. CASE Queued(Coming, stack, r, d)
    <3>1. /\ m - (a + n) \in DOMAIN Coming /\ Q(m - (a + n))
          /\ k - (a + n) \in DOMAIN Coming /\ Q(k - (a + n))
      BY <1>1, <1>6, <1>8, <1>9, <2>4
    <3>2. m - (a + n) = k - (a + n)
      BY <1>5, <3>1
    <3> QED BY <1>2, <2>1, <3>2
  <2> QED BY <1>6, <1>7, <1>8, <1>9, <2>2, <2>3, <2>4
<1>10. ASSUME NEW m \in DOMAIN Pieces, InPiece(m, r, d)
       PROVE  G \/ Suspended(stack, r, d) \/ Queued(Coming, stack, r, d)
  BY <1>6, <1>7, <1>8, <1>10
<1>11. ASSUME G \/ Suspended(stack, r, d) \/ Queued(Coming, stack, r, d)
       PROVE  \E m \in DOMAIN Pieces : InPiece(m, r, d)
  <2>1. CASE G
    <3>1. 1 \in DOMAIN Pieces
      BY <1>2, <1>3, <1>4, <2>1
    <3> QED BY <1>4, <1>8, <2>1, <3>1
  <2>2. CASE Suspended(stack, r, d)
    <3>1. PICK i \in DOMAIN stack : S(i)
      BY <2>2 DEF Suspended, S
    <3>2. a + i \in DOMAIN Pieces /\ (a + i) - a = i
      BY <1>2, <1>3
    <3> QED BY <1>8, <3>1, <3>2
  <2>3. CASE Queued(Coming, stack, r, d)
    <3>1. PICK x \in DOMAIN Coming : Q(x)
      BY <2>3 DEF Queued, Q
    <3>2. (a + n) + x \in DOMAIN Pieces /\ ((a + n) + x) - (a + n) = x
      BY <1>2, <1>3
    <3> QED BY <1>8, <3>1, <3>2
  <2> QED BY <1>11, <2>1, <2>2, <2>3
<1> QED BY <1>9, <1>10, <1>11 DEF G

\* A set is what its pieces and two parts of it hold, if they hold all of it.
LEMMA Filled ==
    ASSUME NEW ps, NEW A, NEW D, NEW P, D \cup P \subseteq A, \A m \in DOMAIN ps : ps[m] \subseteq A,
           \A o \in A : (\E m \in DOMAIN ps : o \in ps[m]) \/ o \in D \cup P
    PROVE  (UNION Range(ps)) \cup D \cup P = A
<1>1. \A o : o \in UNION Range(ps) <=> \E m \in DOMAIN ps : o \in ps[m]
  BY DEF Range
<1> QED BY <1>1

LEMMA PiecesOnce ==
    ASSUME SourceInv, PlaceInv
    PROVE  EachByteOnce
<1> DEFINE ps == Pieces
<1>1. /\ ps \in Seq(SUBSET AllOffsets)
      /\ \A m \in DOMAIN ps : \A r \in DOMAIN text : \A d \in Columns(r) :
           <<r, d>> \in ps[m] <=> InPiece(m, r, d)
  BY PiecesAre
<1>2. /\ delivered \cup passed \subseteq AllOffsets
      /\ \A r \in DOMAIN text : \A d \in Columns(r) : Placed(line, Coming, stack, delivered, passed, r, d)
  BY DEF PlaceInv, AllPlaced
<1> HIDE DEF ps
<1>3. \A m \in DOMAIN ps : ps[m] \subseteq AllOffsets
  BY <1>1, ElementOfSeq
<1>4. ASSUME NEW o \in AllOffsets
      PROVE  /\ \A m, k \in DOMAIN ps : o \in ps[m] /\ o \in ps[k] => m = k
             /\ \A m \in DOMAIN ps : o \in ps[m] => o \notin delivered \cup passed
             /\ ~(o \in delivered /\ o \in passed)
             /\ (\E m \in DOMAIN ps : o \in ps[m]) \/ o \in delivered \cup passed
  <2>1. PICK r \in DOMAIN text : \E d \in Columns(r) : o = <<r, d>>
    BY <1>4, AllOffsetsAre
  <2>2. PICK d \in Columns(r) : o = <<r, d>>
    BY <2>1
  <2>3. \A m \in DOMAIN ps : o \in ps[m] <=> InPiece(m, r, d)
    BY <1>1, <2>2
  <2>4. OneOf(o \in delivered, o \in passed, Gives(line, Bound(stack), r, d),
              Suspended(stack, r, d), Queued(Coming, stack, r, d))
    BY <1>2, <2>2 DEF Placed
  <2>5. /\ \A m, k \in DOMAIN ps : InPiece(m, r, d) /\ InPiece(k, r, d) => m = k
        /\ (\E m \in DOMAIN ps : InPiece(m, r, d))
             <=> Gives(line, Bound(stack), r, d) \/ Suspended(stack, r, d) \/ Queued(Coming, stack, r, d)
    BY OnePiece DEF ps
  <2>6. \A m, k \in DOMAIN ps : o \in ps[m] /\ o \in ps[k] => m = k
    BY <2>3, <2>5
  <2>7. (\E m \in DOMAIN ps : o \in ps[m])
          <=> Gives(line, Bound(stack), r, d) \/ Suspended(stack, r, d) \/ Queued(Coming, stack, r, d)
    BY <2>3, <2>5
  <2> QED BY <2>4, <2>6, <2>7 DEF OneOf
<1>5. \A i, j \in DOMAIN ps : i # j => ps[i] \cap ps[j] = {}
  BY <1>3, <1>4
<1>6. \A i \in DOMAIN ps : ps[i] \cap (delivered \cup passed) = {}
  BY <1>3, <1>4
<1>7. delivered \cap passed = {}
  BY <1>2, <1>4
<1>8. (UNION Range(ps)) \cup delivered \cup passed = AllOffsets
  <2>1. \A o \in AllOffsets : (\E m \in DOMAIN ps : o \in ps[m]) \/ o \in delivered \cup passed
    BY <1>4
  <2>2. delivered \cup passed \subseteq AllOffsets
    BY <1>2
  <2> QED BY <1>3, <2>1, <2>2, Filled
<1>9. WithinBound
  <2>1. Bodies(stack, Coming) /\ (line # Nothing => Held(line, Bound(stack)))
    BY SourceIs
  <2>2. \A i \in DOMAIN stack : Held(stack[i].line, Outer(stack, i))
    BY <2>1 DEF Bodies, Body
  <2> QED BY <2>1, <2>2 DEF WithinBound, Held, Outer
<1> QED BY <1>5, <1>6, <1>7, <1>8, <1>9 DEF EachByteOnce, ps

\* Whatever bodies nest, whatever is looked at ahead of time, and however often
\* a line is queued, cut at a bound and resumed: every byte of the program is
\* delivered once, or is a marker, or is still to come from one place, and no
\* line shows anything past its body's bound.
\* (source.rs next_line, start_heredoc)
THEOREM EveryBytePlaced == Spec => []EachByteOnce
<1>1. Init => PlaceInv
  BY PlaceStart
<1>2. SourceInv /\ PlaceInv /\ [Next]_vars => PlaceInv'
  BY PlaceStep
<1>3. SourceInv /\ PlaceInv => EachByteOnce
  BY PiecesOnce
<1> QED BY <1>1, <1>2, <1>3, SourceInvariant, PTL DEF Spec

=============================================================================
