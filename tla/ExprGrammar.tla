---------------------------- MODULE ExprGrammar -----------------------------
(***************************************************************************)
(* What the binding table promises, without a parser: the trees that a     *)
(* sequence of tokens has under it, and the context of each node.  A tree  *)
(* is licensed when no operator has an operand that the table gives to     *)
(* another: an operator at the right edge of a left operand binds tighter  *)
(* than the one after it, and one at the left edge of a right operand      *)
(* tighter than the one before it.                                         *)
(***************************************************************************)
EXTENDS ExprTree

LOCAL INSTANCE SequencesExt

BindingOf(t) == IF t.node = "prefix" THEN Bind(InnerLevel[t.op], "prefix") ELSE Binding[t.op]

\* m's operand ends before n; n's operand begins after m.
Reduces(m, n) ==
    \/ m.level > n.level
    \/ m.level = n.level /\ m.assoc = n.assoc /\ m.assoc \in {"left", "chain"}
Shifts(m, n) ==
    \/ m.level < n.level
    \/ m.level = n.level /\ (n.assoc = "right" \/ m.assoc = "prefix")

\* What a trailing comma is followed by: no operator.
Ended == Bind(0, "none")

\* The operators whose last operand ends t, and those whose first begins it.
RECURSIVE RightEdge(_)
RightEdge(t) == IF t.node \in {"prefix", "infix", "ternary"}
                THEN {BindingOf(t)} \cup RightEdge(Last(t.kids))
                ELSE IF t.node = "trailing" THEN {Ended} ELSE {}
RECURSIVE LeftEdge(_)
LeftEdge(t) == IF t.node \in {"postfix", "infix", "ternary", "trailing"}
               THEN {BindingOf(t)} \cup LeftEdge(t.kids[1]) ELSE {}

FollowedBy(t, n) == \A m \in RightEdge(t) : Reduces(m, n)
PrecededBy(t, m) == \A n \in LeftEdge(t) : Shifts(m, n)

\* Elements of a list, a parenthesised one being one element, or none of its own.
RECURSIVE Elements(_)
Elements(t) == IF t.node = "infix" /\ t.op = "," THEN Append(Elements(t.kids[1]), t.kids[2])
               ELSE IF t.node = "trailing" THEN Elements(t.kids[1]) ELSE <<t>>
RECURSIVE Stripped(_)
Stripped(t) == IF t.node \in {"paren", "trailing"} THEN Stripped(t.kids[1]) ELSE t
RECURSIVE Flat(_)
Flat(t) == LET u == Stripped(t) IN
           IF u.node = "infix" /\ u.op = "," THEN Flat(u.kids[1]) \o Flat(u.kids[2]) ELSE <<t>>

\* A chain of comparisons of one level: its operands, and its operators.
Chains(t) == t.node = "infix" /\ Binding[t.op].assoc = "chain"
Linked(t) == Chains(t) /\ Chains(t.kids[1]) /\ Binding[t.op] = Binding[t.kids[1].op]
RECURSIVE Links(_)
Links(t) == IF Linked(t) THEN Append(Links(t.kids[1]), t.kids[2]) ELSE t.kids
RECURSIVE Signs(_)
Signs(t) == IF Linked(t) THEN Append(Signs(t.kids[1]), t.op) ELSE <<t.op>>

\* An assignment is a list assignment iff its target is parenthesised or an
\* aggregate, `local` taking after its operand.
RECURSIVE ListTarget(_)
ListTarget(t) ==
    \/ t.node \in {"paren", "empty"}
    \/ t.node = "leaf" /\ t.op = "@"
    \/ t.node = "prefix" /\ t.op = "local" /\ ListTarget(t.kids[1])

\* The finished tree of t in context c.
RECURSIVE Reading(_, _)
Reading(t, c) ==
    LET Made(kind, op, kids) ==
            LET n == Node(kind, op, kids)
            IN  [n EXCEPT !.ctx = c, !.kids = [i \in DOMAIN kids |-> Reading(kids[i], KidContext(n, c, i))]]
        Read(op, kids, cs) ==
            [Node(t.node, op, [i \in DOMAIN kids |-> Reading(kids[i], cs)]) EXCEPT !.ctx = c]
    IN  CASE t.node \in {"paren", "trailing"} -> Reading(t.kids[1], c)
          [] t.node = "prefix" /\ t.op = "ref" ->
                Read("ref", t.kids, IF t.kids[1].node = "paren" THEN "list" ELSE "scalar")
          [] t.node = "infix" /\ t.op = "=" ->
                Read("=", t.kids, IF ListTarget(t.kids[1]) THEN "list" ELSE "scalar")
          [] t.node = "infix" /\ t.op = "," -> Made("comma", ",", Flat(t))
          [] Linked(t) -> Made("chained", Signs(t), Links(t))
          [] t.node = "array" /\ t.kids # <<>> -> Made("array", "[", Elements(t.kids[1]))
          [] t.node = "postfix" /\ t.op = "->" -> Made("arrow", "->", t.kids)
          [] OTHER -> Made(t.node, t.op, t.kids)

Assignable(t) == Lvalue(Reading(t, "void"))

\* The trees of the tokens s.
RECURSIVE Trees(_)
Trees(s) ==
    LET n == Len(s)
        From(i, j) == Trees(SubSeq(s, i, j))
        Atoms == IF n = 1 /\ s[1] \in {"x", "@", "1"} THEN {Leaf(s[1])}
                    ELSE IF s = <<"return">> THEN {Node("leaf", "return", <<>>)}
                    ELSE IF s = <<"(", ")">> THEN {Node("empty", "(", <<>>)}
                    ELSE IF s = <<"[", "]">> THEN {Node("array", "[", <<>>)}
                    ELSE {}
        Parens == IF n > 2 /\ s[1] = "(" /\ s[n] = ")"
                  THEN {Node("paren", "(", <<t>>) : t \in From(2, n - 1)} ELSE {}
        \* Words like `or` bind looser than the commas between elements.
        Arrays == IF n > 2 /\ s[1] = "[" /\ s[n] = "]"
                  THEN {Node("array", "[", <<t>>) :
                            t \in {u \in From(2, n - 1) : \A o \in LeftEdge(u) : o.level >= Binding[","].level}}
                  ELSE {}
        Prefixed == IF n > 1 /\ s[1] \in DOMAIN InnerLevel
                    THEN {Node("prefix", s[1], <<t>>) :
                            t \in {u \in From(2, n) : /\ PrecededBy(u, Bind(InnerLevel[s[1]], "prefix"))
                                                      /\ s[1] = "++" => Assignable(u)}}
                    ELSE {}
        Followed(k, kind) == {Node(kind, s[k], <<t>>) : t \in {u \in From(1, k - 1) : FollowedBy(u, Binding[s[k]])}}
        Postfixed == IF n > 1 /\ s[n] \in Postfixes
                     THEN {t \in Followed(n, "postfix") : s[n] = "++" => Assignable(t.kids[1])} ELSE {}
        Trailing == IF n > 1 /\ s[n] = "," THEN Followed(n, "trailing") ELSE {}
        Joins(k) == IF s[k] \in DOMAIN Binding \ (Postfixes \cup {"?"})
                    THEN LET b == Binding[s[k]] IN
                         {Node("infix", s[k], <<l, r>>) :
                            l \in {u \in From(1, k - 1) : FollowedBy(u, b) /\ (s[k] = "=" => Assignable(u))},
                            r \in {u \in From(k + 1, n) : PrecededBy(u, b)}}
                    ELSE {}
        Picks(k, j) == IF s[k] = "?" /\ s[j] = ":" /\ s[j - 1] # ","
                       THEN {Node("ternary", "?", <<c, a, b>>) :
                                c \in {u \in From(1, k - 1) : FollowedBy(u, Binding["?"])},
                                a \in From(k + 1, j - 1),
                                b \in {u \in From(j + 1, n) : PrecededBy(u, Binding["?"])}}
                       ELSE {}
    IN  IF n = 0 THEN {} ELSE
        Atoms \cup Parens \cup Arrays \cup Prefixed \cup Postfixed \cup Trailing
        \cup UNION {Joins(k) : k \in 2 .. n - 1}
        \cup UNION {Picks(k, j) : k \in 2 .. n - 3, j \in 4 .. n - 1}

=============================================================================
