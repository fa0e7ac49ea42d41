----------------------------- MODULE ExprParser -----------------------------
(***************************************************************************)
(* The iterative expression parser of parser/src/parser.rs.  Its frames    *)
(* and the operators that wait for a right operand in a recursive call     *)
(* share one stack here; each keeps the minimum level to go back to.  The  *)
(* lexer delivers any token the position allows, up to MaxTokens.          *)
(***************************************************************************)
EXTENDS ExprTree

LOCAL INSTANCE SequencesExt

CONSTANTS
    Operands,       \* leaves: "x" a scalar variable, "@" an array, "1" a literal
    PrefixOps,       \* prefix operators
    Operators,      \* infix and postfix operators
    Openers,        \* "(" and "["
    MaxTokens

VARIABLES
    read,       \* the tokens lexed so far, without the end of the input
    tok,        \* the token at hand, or NoToken
    mode,       \* "term" and "operator": the position; "done", "rejected"
    left,       \* the latest operand
    prec,       \* the minimum level
    stack       \* what waits for that operand

vars == <<read, tok, mode, left, prec, stack>>

NoToken == "none"
Eof == "eof"
NoTree == Node("none", "none", <<>>)
Closer == "(" :> ")" @@ "[" :> "]" @@ "?" :> ":"
Closers == {")", "]", ":", Eof}

Init ==
    /\ read = <<>> /\ tok = NoToken /\ mode = "term"
    /\ left = NoTree /\ prec = 0 /\ stack = <<>>

\* Frames: op is what was read, ops and kids what has been gathered, prec the
\* minimum level before.
Frame(kind, op, kids) == [kind |-> kind, op |-> op, ops |-> <<op>>, kids |-> kids, prec |-> prec, listed |-> FALSE]
Top == Last(stack)
Waits(kinds) == stack # <<>> /\ Top.kind \in kinds
Below == Front(stack)

\* The token t is at hand: it was, or the lexer delivers it.
Fresh == IF Len(read) < MaxTokens
         THEN (IF mode = "term" THEN Operands \cup PrefixOps \cup Openers ELSE Operators)
              \cup {Closer[stack[i].op] : i \in {j \in DOMAIN stack : stack[j].kind = "bracket"}} \cup {Eof}
         ELSE {Eof}
AtHand == IF tok = NoToken THEN Fresh ELSE {tok}
Seen(t) == IF tok = NoToken /\ t # Eof THEN Append(read, t) ELSE read
Consume(t) == read' = Seen(t) /\ tok' = NoToken
Keep(t) == read' = Seen(t) /\ tok' = t

\* save_context: a node that has a context keeps it, and so does all below it.
RECURSIVE Stamp(_, _)
Stamp(t, c) ==
    IF t.ctx # "none" THEN t
    ELSE [t EXCEPT !.ctx = c,
                   !.kids = IF t.node \in {"infix", "prefix"} /\ t.op \in {"=", "ref"} THEN @
                            ELSE [i \in DOMAIN @ |-> Stamp(@[i], KidContext(t, c, i))]]

\* The shortest rest of an input that is rejected where it stands.
RECURSIVE Ending(_)
Ending(fs) ==
    IF fs = <<>> THEN <<>>
    ELSE (IF Last(fs).kind # "bracket" THEN <<>>
          ELSE IF Last(fs).op = "?" THEN <<":", "x">> ELSE <<Closer[Last(fs).op]>>) \o Ending(Front(fs))

Reject(t) ==
    /\ mode' = "rejected" /\ left' = NoTree /\ tok' = NoToken
    /\ read' = IF t \in Operators \ Postfixes THEN Seen(t) \o <<"x">> \o Ending(stack)
               ELSE IF t = Eof THEN read ELSE Seen(t) \o Ending(stack)
    /\ UNCHANGED <<prec, stack>>

Done(t, p) == left' = t /\ prec' = p /\ mode' = "operator"

-----------------------------------------------------------------------------
(* The forward phase: try_prefix and parse_term.                           *)

Operand(t) ==
    /\ mode = "term" /\ t \in Operands
    /\ Done(Leaf(t), prec) /\ Consume(t)
    /\ UNCHANGED stack

\* Fault: the operator is left at hand.
PrefixKept(t) ==
    /\ mode = "term" /\ t \in PrefixOps
    /\ stack' = Append(stack, Frame("prefix", t, <<>>))
    /\ prec' = InnerLevel[t] /\ Keep(t)
    /\ UNCHANGED <<mode, left>>

Prefix(t) ==
    /\ mode = "term" /\ t \in PrefixOps
    /\ stack' = Append(stack, Frame("prefix", t, <<>>))
    /\ prec' = InnerLevel[t] /\ Consume(t)
    /\ UNCHANGED <<mode, left>>

Open(t) ==
    /\ mode = "term" /\ t \in Openers
    /\ stack' = Append(stack, Frame("bracket", t, <<>>))
    /\ prec' = (IF t = "[" THEN Binding[","].level + 1 ELSE 0) /\ Consume(t)
    /\ UNCHANGED <<mode, left>>

\* What has just been opened, or `return`, is followed by its end.
Empty(t) ==
    /\ mode = "term" /\ Waits({"bracket", "prefix"}) /\ Last(read) = Top.op /\ t \in Closers
    /\ \/ /\ Top.op = "(" /\ t = ")"
          /\ Done(Node("empty", "(", <<>>), Top.prec) /\ Consume(t)
       \/ /\ Top.op = "[" /\ t = "]"
          /\ Done(Node("array", "[", <<>>), Top.prec) /\ Consume(t)
       \/ /\ Top.op = "return" /\ t = Eof
          /\ Done(Node("leaf", "return", <<>>), Top.prec) /\ Keep(t)
    /\ stack' = Below

\* A comma is followed by the end of the list.
TrailingComma(t) ==
    /\ mode = "term" /\ stack # <<>> /\ Last(read) = "," /\ t \in Closers
    /\ \/ /\ Top.kind = "infix" /\ t # ":"
          /\ Done(Top.kids[1], Top.prec) /\ Keep(t)
       \/ /\ Top.op = "[" /\ t = "]"
          /\ Done(Node("array", "[", Top.kids), Top.prec) /\ Consume(t)
    /\ stack' = Below

NoTerm(t) ==
    /\ mode = "term" /\ t \in Closers
    /\ ~(\/ Waits({"bracket", "prefix"}) /\ Last(read) = Top.op /\ <<Top.op, t>> \in {<<"(", ")">>, <<"[", "]">>, <<"return", Eof>>}
         \/ Waits({"infix"}) /\ Last(read) = "," /\ t # ":"
         \/ Waits({"bracket"}) /\ Last(read) = "," /\ Top.op = "[" /\ t = "]")
    /\ Reject(t)

-----------------------------------------------------------------------------
(* The operator loop.                                                      *)

RightLevel(op) == IF Binding[op].assoc = "right" THEN Binding[op].level ELSE Binding[op].level + 1

Binds(t) == mode = "operator" /\ t \in Operators /\ Binding[t].level >= prec

\* An infix operator takes the operand on its left, and waits for the other.
Infix(t) ==
    /\ Binds(t) /\ t \notin Postfixes \cup {"?"}
    /\ IF t = "=" /\ ~Lvalue(left)
       THEN Reject(t)
       ELSE /\ stack' = Append(stack, [Frame("infix", t, <<Unwrap(left)>>) EXCEPT !.listed = left.node = "paren"])
            /\ prec' = RightLevel(t) /\ mode' = "term" /\ Consume(t)
            /\ UNCHANGED left

Question(t) ==
    /\ Binds(t) /\ t = "?"
    /\ stack' = Append(stack, Frame("bracket", t, <<Unwrap(left)>>))
    /\ prec' = 0 /\ mode' = "term" /\ Consume(t)
    /\ UNCHANGED left

\* "->" stands for all that parse_arrow_rhs reads.  Subscripts, that after
\* a parenthesized list included, are left out.
Postfix(t) ==
    /\ Binds(t) /\ t \in Postfixes
    /\ IF t = "++" /\ ~Lvalue(left)
       THEN Reject(t)
       ELSE /\ Done(Node(IF t = "->" THEN "arrow" ELSE "postfix", t, <<Unwrap(left)>>), prec) /\ Consume(t)
            /\ UNCHANGED stack

-----------------------------------------------------------------------------
(* The backward phase: no operator at hand binds tightly enough, and what  *)
(* waits on top gets its operand.                                          *)

Loose(t) == mode = "operator" /\ (t \in Closers \/ (t \in Operators /\ Binding[t].level < prec))

ApplyPrefix(t) ==
    /\ Loose(t) /\ Waits({"prefix"})
    /\ LET inner == IF Top.op = "ref" THEN Stamp(Unwrap(left), IF left.node = "paren" THEN "list" ELSE "scalar")
                    ELSE Unwrap(left) IN
       IF Top.op = "++" /\ ~Lvalue(inner)
       THEN Reject(t)
       ELSE /\ Done(Node("prefix", Top.op, <<inner>>), Top.prec) /\ Keep(t)
            /\ stack' = Below

CloseParen(t) ==
    /\ Loose(t) /\ Waits({"bracket"}) /\ Top.op = "(" /\ t = ")"
    /\ Done(Node("paren", "(", <<Unwrap(left)>>), Top.prec) /\ Consume(t)
    /\ stack' = Below

Element(t) ==
    /\ Loose(t) /\ Waits({"bracket"}) /\ Top.op = "[" /\ t = ","
    /\ stack' = Append(Below, [Top EXCEPT !.kids = Append(@, Unwrap(left))])
    /\ prec' = Binding[","].level + 1 /\ mode' = "term" /\ Consume(t)
    /\ UNCHANGED left

CloseArray(t) ==
    /\ Loose(t) /\ Waits({"bracket"}) /\ Top.op = "[" /\ t = "]"
    /\ Done(Node("array", "[", Append(Top.kids, Unwrap(left))), Top.prec) /\ Consume(t)
    /\ stack' = Below

Colon(t) ==
    /\ Loose(t) /\ Waits({"bracket"}) /\ Top.op = "?" /\ t = ":"
    /\ stack' = Append(Below, [Top EXCEPT !.kind = "else", !.kids = Append(@, Unwrap(left))])
    /\ prec' = RightLevel("?") /\ mode' = "term" /\ Consume(t)
    /\ UNCHANGED left

Unclosed(t) ==
    /\ Loose(t) /\ Waits({"bracket"}) /\ t # Closer[Top.op] /\ ~(Top.op = "[" /\ t = ",")
    /\ Reject(t)

PickBranches(t) ==
    /\ Loose(t) /\ Waits({"else"})
    /\ Done(Node("ternary", "?", Append(Top.kids, Unwrap(left))), Top.prec) /\ Keep(t)
    /\ stack' = Below

\* The operator on top and the one at hand are of one level, and one of them
\* does not chain.
SameLevel(t) == t \in Operators /\ Binding[t].level = Binding[Top.op].level
Linking(t) == SameLevel(t) /\ Binding[Top.op].assoc \in {"non", "chain"}

Link(t) ==
    /\ Loose(t) /\ Waits({"infix"}) /\ Linking(t)
    /\ IF Binding[t].assoc # "chain" \/ Binding[Top.op].assoc # "chain"
       THEN Reject(t)
       ELSE /\ stack' = Append(Below, [Top EXCEPT !.ops = Append(@, t), !.kids = Append(@, Unwrap(left))])
            /\ prec' = RightLevel(t) /\ mode' = "term" /\ Consume(t)
            /\ UNCHANGED left

Listed(t) == IF t.node = "comma" THEN t.kids ELSE <<t>>

\* Fault: the target's parentheses are looked for after they are gone.
JoinedUnlisted(f, r) ==
    LET l == f.kids[1]
        c == IF Unwrap(l).node = "paren" \/ Aggregate(l) THEN "list" ELSE "scalar"
    IN  CASE f.op = "," -> Node("comma", ",", Listed(l) \o Listed(r))
          [] f.op = "=" -> Node("infix", "=", <<Stamp(l, c), Stamp(r, c)>>)
          [] OTHER -> Node("infix", f.op, <<l, r>>)

\* Commas are flattened, and the sides of an assignment are stamped here.
Joined(f, r) ==
    LET l == f.kids[1]
        c == IF f.listed \/ Aggregate(l) THEN "list" ELSE "scalar"
    IN  CASE f.op = "," -> Node("comma", ",", Listed(l) \o Listed(r))
          [] f.op = "=" -> Node("infix", "=", <<Stamp(l, c), Stamp(r, c)>>)
          [] Len(f.ops) > 1 -> Node("chained", f.ops, Append(f.kids, r))
          [] OTHER -> Node("infix", f.op, <<l, r>>)

Combine(t) ==
    /\ Loose(t) /\ Waits({"infix"}) /\ ~Linking(t)
    /\ Done(Joined(Top, Unwrap(left)), Top.prec) /\ Keep(t)
    /\ stack' = Below

\* The expression ends, and its statement, the last of the program.
Finish(t) ==
    /\ Loose(t) /\ stack = <<>> /\ t = Eof
    /\ left' = Stamp(Unwrap(left), "runtime") /\ mode' = "done" /\ Keep(t)
    /\ UNCHANGED <<prec, stack>>

Forward(t) == Operand(t) \/ Prefix(t) \/ Open(t) \/ Empty(t) \/ TrailingComma(t) \/ NoTerm(t)
Loop(t) == Infix(t) \/ Question(t) \/ Postfix(t)
Backward(t) ==
    \/ ApplyPrefix(t) \/ CloseParen(t) \/ Element(t) \/ CloseArray(t) \/ Colon(t) \/ Unclosed(t)
    \/ PickBranches(t) \/ Link(t) \/ Combine(t) \/ Finish(t)

Next == \E t \in AtHand : Forward(t) \/ Loop(t) \/ Backward(t)

Spec == Init /\ [][Next]_vars

-----------------------------------------------------------------------------
(* Properties.                                                             *)

Grammar == INSTANCE ExprGrammar

\* In term position nothing has been lexed ahead.
TypeOK ==
    /\ mode \in {"term", "operator", "done", "rejected"}
    /\ mode = "term" => tok = NoToken
    /\ \A i \in DOMAIN stack : stack[i].kind \in {"prefix", "bracket", "infix", "else"}

\* What the parser accepts is licensed by the binding table in just one way, and
\* that is the tree it returns, each node in the context its place calls for.
Accepts == mode = "done" =>
    {Grammar!Reading(t, "runtime") : t \in Grammar!Trees(read)} = {left}

\* What it rejects has no licensed tree: chains of operators that do not chain,
\* targets that are none, operands and closers that are missing.
Rejects == mode = "rejected" => Grammar!Trees(read) = {}

=============================================================================
