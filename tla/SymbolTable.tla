---------------------------- MODULE SymbolTable ----------------------------
(***************************************************************************)
(* The parser's symbol table, parser/src/symbol.rs: one namespace per      *)
(* package, each a map from the name a sub was declared under to what is   *)
(* known of it.  A name is written bare or qualified.                      *)
(***************************************************************************)
EXTENDS FiniteSets

CONSTANTS
    Package,    \* package names
    Name,       \* bare sub names
    None        \* no package before the name; no prototype

ASSUME SymbolTableAssumption == None \notin Package /\ None \notin Name

\* A name as written: Foo::bar has a package, bar has none.
Written == [package : Package \cup {None}, name : Name]
Bare(n) == [package |-> None, name |-> n]
Qualified(p, n) == [package |-> p, name |-> n]

\* What is known of a sub: whether it has a prototype, whether only a forward
\* declaration has been seen.
SubInfo == [prototype : BOOLEAN, forward : BOOLEAN]

NoSymbols == {}

\* A table is a set of entries, at most one for a namespace and a key.
Entry == [namespace : Package, key : Written, info : SubInfo]

\* declare_sub in p's namespace: the name is taken as the key as it is
\* written, and an entry under the same key is replaced.
DeclareSub(symbols, p, w, info) ==
    {e \in symbols : e.namespace # p \/ e.key # w}
    \cup {[namespace |-> p, key |-> w, info |-> info]}

\* The namespace and the bare name a written name stands for in package p.
SplitQualifiedName(w, p) ==
    [namespace |-> IF w.package = None THEN p ELSE w.package, key |-> Bare(w.name)]

\* The entries a call written w in package p resolves to: one or none.  No
\* statement of the parser fills a namespace's imports yet, so there is no
\* chain to follow.
Lookup(symbols, w, p) ==
    LET at == SplitQualifiedName(w, p)
    IN  {e \in symbols : e.namespace = at.namespace /\ e.key = at.key}

=============================================================================
