------------------------------ MODULE ExprTree ------------------------------
(***************************************************************************)
(* Expression trees of parser/src/ast.rs: what may be assigned to, which   *)
(* targets are aggregates, and the evaluation contexts that save_context   *)
(* stamps on the nodes.  Tokens stand for the operators of a binding       *)
(* level.                                                                  *)
(***************************************************************************)
EXTENDS Naturals, Sequences, TLC

\* A node; ctx is the context stamped on it.
Node(kind, op, kids) == [node |-> kind, op |-> op, kids |-> kids, ctx |-> "none"]

\* A leaf: "x" a scalar variable, "@" an array, "1" a literal.
Leaf(x) == Node("leaf", x, <<>>)

Unwrap(t) == IF t.node = "paren" THEN t.kids[1] ELSE t

Bind(l, a) == [level |-> l, assoc |-> a]

\* Infix and postfix operators, one for each level and associativity.
Binding ==
    "or" :> Bind(100, "left") @@ "and" :> Bind(200, "left") @@ "," :> Bind(500, "left")
    @@ "=" :> Bind(600, "right") @@ "?" :> Bind(700, "right") @@ ".." :> Bind(800, "non")
    @@ "||" :> Bind(900, "left") @@ "&&" :> Bind(1000, "left") @@ "|" :> Bind(1100, "left")
    @@ "&" :> Bind(1200, "left") @@ "==" :> Bind(1300, "chain") @@ "<=>" :> Bind(1300, "non")
    @@ "<" :> Bind(1400, "chain") @@ "isa" :> Bind(1500, "non") @@ "<<" :> Bind(1700, "left")
    @@ "+" :> Bind(1800, "left") @@ "*" :> Bind(1900, "left") @@ "=~" :> Bind(2000, "left")
    @@ "**" :> Bind(2200, "right") @@ "++" :> Bind(2300, "non") @@ "->" :> Bind(2400, "left")

\* The minimum level within the operand of a prefix operator.
InnerLevel == "not" :> 300 @@ "return" :> 500 @@ "-" :> 2100 @@ "ref" :> 2100 @@ "local" :> 2100 @@ "++" :> 2300

Postfixes == {"++", "->"}

\* The context a node in context c imposes on its i-th operand.  Assignments and
\* references are stamped when they are built.
TruthTested(c) == CASE c \in {"void", "boolean"} -> "boolean"
                    [] c \in {"scalar", "list"} -> "scalar"
                    [] OTHER -> "runtimeTruthTested"

KidContext(t, c, i) ==
    CASE t.node = "prefix" /\ t.op = "not" -> "boolean"
      [] t.node = "prefix" /\ t.op = "local" -> c
      [] t.node = "prefix" /\ t.op = "return" -> "runtime"
      [] t.node = "infix" /\ t.op \in {"or", "and", "||", "&&"} -> IF i = 1 THEN TruthTested(c) ELSE c
      [] t.node = "ternary" -> IF i = 1 THEN "boolean" ELSE c
      [] t.node = "comma" -> IF c = "list" \/ i = Len(t.kids) THEN c ELSE "void"
      [] t.node = "array" -> "list"
      [] OTHER -> "scalar"

\* is_valid_lvalue and is_aggregate_lvalue.
RECURSIVE Lvalue(_)
Lvalue(t) ==
    \/ t.node = "leaf" /\ t.op \in {"x", "@"}
    \/ t.node \in {"empty", "arrow"}
    \/ t.node = "prefix" /\ t.op = "local"
    \/ t.node \in {"paren", "comma"} /\ \A i \in DOMAIN t.kids : Lvalue(t.kids[i])

RECURSIVE Aggregate(_)
Aggregate(t) ==
    \/ t.node = "leaf" /\ t.op = "@"
    \/ t.node \in {"comma", "empty"}
    \/ t.node = "prefix" /\ t.op = "local" /\ Aggregate(t.kids[1])

=============================================================================
