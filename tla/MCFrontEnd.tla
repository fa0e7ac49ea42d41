----------------------------- MODULE MCFrontEnd -----------------------------
(***************************************************************************)
(* Instances for TLC of the modules of the parser crate, one run for all:  *)
(* a behaviour moves one part, and the others rest where they began.       *)
(***************************************************************************)
EXTENDS ParserScope, SourceLines

CONSTANTS
    Operands, PrefixOps, Operators, Openers, MaxTokens,     \* of ExprParser
    MaxNested   \* bound: open blocks and entries of the symbol table together

VARIABLES part, read, tok, mode, left, prec, frames

scope == scope_vars
lines == vars
expr == <<read, tok, mode, left, prec, frames>>
front_end == <<part, scope, lines, expr>>

\* A version with the feature that is followed in its bundle, and one without.
MCVersion == {<<5, 36>>, <<5, 8>>}

\* Subs are declared under bare names.
MCSpelling == {Bare(n) : n \in Name}

\* Rows that begin, end, nest and interrupt bodies, directives, comments and
\* pod, with and without a byte that is not ASCII.
MCRow == {<<>>, <<"T">>, <<"<<", "quote">>, <<"quote", "e">>, <<"(", "<<", ")">>, <<")", "w">>,
          <<" ", "T">>, <<" ", "<<~", "\\">>, <<"#line">>, <<"=pod">>, <<"=cut">>}

\* Of the texts of the greatest length, those whose first row begins something,
\* and whose last does not and ends in a newline: the shorter ones show the rest.
Begins(row) == \E i \in DOMAIN row : row[i] \in {"<<", "<<~", "(", "quote", "#line", "=pod"}
Longest ==
    /\ Begins(text[1].symbols)
    /\ ~Begins(Last(text).symbols) /\ Last(text).terminated

\* The expressions of the greatest length have one array at most.
Arrays(tokens) == {i \in DOMAIN tokens : tokens[i] = "@"}
FewArrays(tokens) == Len(tokens) >= MaxTokens => Cardinality(Arrays(tokens)) <= 1

Expr == INSTANCE ExprParser WITH stack <- frames

MCInit ==
    /\ part \in {"scope", "lines", "expr"}
    /\ ScopeInit /\ Expr!Init
    /\ \/ part = "lines" /\ Init /\ (Len(text) = MaxRows => Longest)
       \/ part # "lines" /\ Begin(<<>>)

MCNext ==
    /\ UNCHANGED part
    /\ \/ part = "scope" /\ ScopeNext /\ UNCHANGED <<lines, expr>>
          /\ Len(saved') + Cardinality(symbols') <= MaxNested
       \/ part = "lines" /\ Next /\ UNCHANGED <<scope, expr>>
       \/ part = "expr" /\ Expr!Next /\ UNCHANGED <<scope, lines>> /\ FewArrays(read')

MCSpec == MCInit /\ [][MCNext]_front_end

-----------------------------------------------------------------------------
(* Properties; each is stated in its module, those of the scopes and the   *)
(* lines in the ones this extends.                                         *)

\* The type invariants of the three parts.
\* (parser.rs Parser, source.rs Source)
Types ==
    /\ part = "scope" => ScopeTypeOK
    /\ part = "lines" => TypeOK
    /\ part = "expr" => Expr!TypeOK

\* Expressions are accepted, with the tree and the contexts, just as the binding
\* table has it.  (parser.rs parse_expr)
ParsesAsGrammar == part = "expr" => Expr!Accepts /\ Expr!Rejects

=============================================================================
