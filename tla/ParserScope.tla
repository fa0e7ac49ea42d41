---------------------------- MODULE ParserScope ----------------------------
(***************************************************************************)
(* What the parser of parser/src/parser.rs keeps per lexical scope: the    *)
(* feature set and use utf8 (its Pragmas), the copies of both that the     *)
(* lexer reads, the current package, and the symbol table that sub         *)
(* declarations write.  The parser holds one token, already lexed, so a    *)
(* construct that ends consumes its last token by lexing the one after it. *)
(* The source text is chosen as it is lexed.  Statements that change none  *)
(* of this are words.                                                      *)
(***************************************************************************)
EXTENDS SymbolTable, Naturals, SequencesExt

CONSTANTS
    Main,       \* the package a program begins in
    Feature,    \* the features that are followed
    Version,    \* the versions a program asks for: <<major, minor>>
    Spelling,   \* how sub names are written: a set of names
    Bom,        \* a subset of BOOLEAN: does the source begin with a mark
    MaxDepth,   \* bound: blocks open at once
    MaxEntries  \* bound: entries of the symbol table

ASSUME ParserScopeAssumption ==
    /\ Main \in Package /\ Spelling \subseteq Written /\ Bom \subseteq BOOLEAN
    /\ MaxDepth \in Nat /\ MaxEntries \in Nat

VARIABLES
    pragmas,    \* [features, utf8]: the parser's own
    lexer,      \* [features, utf8]: what the lexer reads
    package,
    saved,      \* what the open blocks restore, outermost first
    symbols,
    token,        \* the current token
    progress,     \* "parsing", "done" or "error"
    scopes,     \* history: what the source's nesting puts in force, outermost
                \* first; the last is in force at the place being lexed
    declared    \* history: the subs that have been declared, where Perl
                \* looks for them

scope_vars == <<pragmas, lexer, package, saved, symbols, token, progress, scopes, declared>>

-----------------------------------------------------------------------------
(* Features.                                                               *)

DEFAULT == {"indirect", "multidimensional", "bareword_filehandles",
            "apostrophe_as_package_separator", "smartmatch"}

Bundle10Through14(minor) ==
    DEFAULT \cup {"say", "state", "switch"}
    \cup (IF minor >= 12 THEN {"unicode_strings"} ELSE {})
Bundle16Through22 == Bundle10Through14(14) \cup {"current_sub", "evalbytes", "fc", "unicode_eval"}
Bundle24Through26 == Bundle16Through22 \cup {"postderef_qq"}
Bundle28Through34 == Bundle24Through26 \cup {"bitwise"}
Bundle36 == (Bundle28Through34 \ {"indirect", "multidimensional", "switch"}) \cup {"isa", "signatures"}
Bundle38 == (Bundle36 \ {"bareword_filehandles"}) \cup {"module_true"}
Bundle40 == Bundle38 \cup {"try"}
Bundle42 == Bundle40 \ {"apostrophe_as_package_separator", "smartmatch"}

VersionBundle(v) ==
    LET minor == v[2] - (v[2] % 2)
    IN  CASE v[1] < 5 \/ (v[1] = 5 /\ v[2] < 10) -> DEFAULT
          [] v[1] > 5 \/ minor >= 42 -> Bundle42
          [] minor \in 10 .. 14 -> Bundle10Through14(minor)
          [] minor \in 16 .. 22 -> Bundle16Through22
          [] minor \in 24 .. 26 -> Bundle24Through26
          [] minor \in 28 .. 34 -> Bundle28Through34
          [] minor = 36 -> Bundle36
          [] minor = 38 -> Bundle38
          [] minor = 40 -> Bundle40

\* What a use or a no of features makes of the pragmas.
UseFeature(P, f) == [P EXCEPT !.features = @ \cup {f}]
NoFeature(P, f) == [P EXCEPT !.features = @ \ {f}]
NoFeatures(P) == [P EXCEPT !.features = DEFAULT \cap Feature]
UseVersion(P, v) == [P EXCEPT !.features = VersionBundle(v) \cap Feature]

\* use or no of features, of a version, or of a module the parser knows
\* nothing about, which leaves P.
Applied(P) ==
    {UseFeature(P, f) : f \in Feature} \cup {NoFeature(P, f) : f \in Feature}
    \cup {NoFeatures(P), P} \cup {UseVersion(P, v) : v \in Version}

-----------------------------------------------------------------------------
(* Tokens.                                                                 *)

\* The next token, read by the lexer as l tells it to, at a place where the
\* source has s in force.
LexToken(l, s, past) ==
    \E k \in {"word", "use", "package", "sub", "block", "close", "end"} :
        token' = [kind |-> k, lexed |-> l,
                due |-> [features |-> s.features, utf8 |-> s.utf8], past |-> past]

InForce == scopes[Len(scopes)]
SetInForce(s) == scopes' = [scopes EXCEPT ![Len(scopes)] = s]

Parsing(k) == progress = "parsing" /\ token.kind = k

ScopeInit ==
    /\ pragmas = [features |-> DEFAULT \cap Feature, utf8 |-> FALSE]
    /\ \E mark \in Bom : lexer = [pragmas EXCEPT !.utf8 = mark]
    /\ package = Main /\ saved = <<>> /\ symbols = NoSymbols
    /\ progress = "parsing" /\ declared = {}
    /\ scopes = <<[features |-> pragmas.features, utf8 |-> lexer.utf8, package |-> Main]>>
    /\ token = [kind |-> "word", lexed |-> lexer, due |-> lexer, past |-> FALSE]

\* A declaration of w in p's namespace, at a place whose package is q.
Declare(p, w, info, q) ==
    /\ symbols' = DeclareSub(symbols, p, w, info)
    /\ declared' = declared \cup {SplitQualifiedName(w, q)}
    /\ Cardinality(symbols') <= MaxEntries

-----------------------------------------------------------------------------
(* Statements that open no block.                                          *)

PlainWord ==
    /\ Parsing("word")
    /\ LexToken(lexer, InForce, FALSE)
    /\ UNCHANGED <<pragmas, lexer, package, saved, symbols, progress, scopes, declared>>

\* The pragma takes effect, and the lexer is told, before the token after the
\* semicolon is read.
Use ==
    /\ Parsing("use")
    /\ \E P \in Applied(pragmas) :
        /\ pragmas' = P
        /\ lexer' = P
        /\ LET s == [InForce EXCEPT !.features = P.features]
           IN  SetInForce(s) /\ LexToken(P, s, FALSE)
    /\ UNCHANGED <<package, saved, symbols, progress, declared>>

\* use utf8, no utf8.
UseUtf8 ==
    /\ Parsing("use")
    /\ \E on \in BOOLEAN :
        /\ pragmas' = [pragmas EXCEPT !.utf8 = on]
        /\ lexer' = pragmas'
        /\ LET s == [InForce EXCEPT !.utf8 = on]
           IN  SetInForce(s) /\ LexToken(pragmas', s, FALSE)
    /\ UNCHANGED <<package, saved, symbols, progress, declared>>

\* use subs: a forward declaration of each name.
UseSubs ==
    /\ Parsing("use")
    /\ lexer' = pragmas
    /\ LexToken(pragmas, InForce, FALSE)
    /\ \E w \in Spelling :
        Declare(package, w, [prototype |-> FALSE, forward |-> TRUE], InForce.package)
    /\ UNCHANGED <<pragmas, package, saved, progress, scopes>>

PackageStatement ==
    /\ Parsing("package")
    /\ \E p \in Package : package' = p /\ SetInForce([InForce EXCEPT !.package = p])
    /\ LexToken(lexer, InForce, FALSE)
    /\ UNCHANGED <<pragmas, lexer, saved, symbols, progress, declared>>

\* With signatures on, what is in the parentheses is no prototype; an
\* attribute gives one either way.
Prototype(parenthesized, attribute) ==
    attribute \/ (parenthesized /\ "signatures" \notin pragmas.features)

SubForward ==
    /\ Parsing("sub")
    /\ LexToken(lexer, InForce, FALSE)
    /\ \E w \in Spelling, parenthesized, attribute \in BOOLEAN :
        Declare(package, w, [prototype |-> Prototype(parenthesized, attribute), forward |-> TRUE],
                InForce.package)
    /\ UNCHANGED <<pragmas, lexer, package, saved, progress, scopes>>

-----------------------------------------------------------------------------
(* Blocks.                                                                 *)

\* parse_scoped_block up to its first statement: pragmas and the package are
\* saved, with what the construct does when the block has ended.
Enter(p, after) ==
    /\ Len(saved) < MaxDepth
    /\ saved' = Append(saved, [pragmas |-> pragmas, package |-> p, after |-> after])
    /\ LET s == [InForce EXCEPT !.package = p]
       IN  scopes' = Append(scopes, s) /\ LexToken(lexer, s, FALSE)
    /\ UNCHANGED <<pragmas, lexer, symbols, progress, declared>>

\* A bare block, a branch or a loop body, a phaser, an anonymous sub, do, eval
\* or the replacement of s///e.
OpenBlock ==
    /\ Parsing("block")
    /\ Enter(package, [does |-> "nothing"])
    /\ UNCHANGED package

\* package P { ... } changes the package before the block saves it.
PackageBlock ==
    /\ Parsing("package")
    /\ \E p \in Package :
        /\ package' = p
        /\ Enter(p, [does |-> "package", package |-> package])

\* The head of a definition: the sub is declared when its body has ended.
SubBody ==
    /\ Parsing("sub")
    /\ \E w \in Spelling, parenthesized, attribute \in BOOLEAN :
        Enter(package, [does |-> "sub", name |-> w,
                        prototype |-> Prototype(parenthesized, attribute)])
    /\ UNCHANGED package

\* What the construct around a block does when the block has given p back.
Finish(after, p) ==
    CASE after.does = "nothing" ->
            package' = p /\ UNCHANGED <<symbols, declared>>
      [] after.does = "package" ->
            package' = after.package /\ UNCHANGED <<symbols, declared>>
      [] after.does = "sub" ->
            /\ package' = p
            /\ Declare(p, after.name, [prototype |-> after.prototype, forward |-> FALSE],
                       scopes[Len(scopes) - 1].package)

\* Fault: pragmas are restored, and the lexer not told.
CloseBlockUntold ==
    /\ Parsing("close") /\ saved # <<>>
    /\ LET outer == saved[Len(saved)]
       IN  /\ LexToken(lexer, scopes[Len(scopes) - 1], TRUE)
           /\ pragmas' = outer.pragmas
           /\ Finish(outer.after, outer.package)
    /\ saved' = Front(saved) /\ scopes' = Front(scopes)
    /\ UNCHANGED <<progress, lexer>>

\* Fault: the sub is declared before the package is restored.
CloseBlockInside ==
    /\ Parsing("close") /\ saved # <<>>
    /\ LET outer == saved[Len(saved)]
       IN  /\ LexToken(lexer, scopes[Len(scopes) - 1], TRUE)
           /\ pragmas' = outer.pragmas /\ lexer' = outer.pragmas
           /\ Finish(outer.after, package)
    /\ saved' = Front(saved) /\ scopes' = Front(scopes)
    /\ UNCHANGED progress

\* The closing brace is consumed first, so the token after it is lexed as the
\* block left things; then pragmas, package and the lexer's copies are
\* restored, and the construct finishes.
CloseBlock ==
    /\ Parsing("close") /\ saved # <<>>
    /\ LET outer == saved[Len(saved)]
       IN  /\ LexToken(lexer, scopes[Len(scopes) - 1], TRUE)
           /\ pragmas' = outer.pragmas /\ lexer' = outer.pragmas
           /\ Finish(outer.after, outer.package)
    /\ saved' = Front(saved) /\ scopes' = Front(scopes)
    /\ UNCHANGED progress

-----------------------------------------------------------------------------
(* The end.                                                                *)

EndOfProgram ==
    /\ Parsing("end") /\ saved = <<>>
    /\ progress' = "done"
    /\ UNCHANGED <<pragmas, lexer, package, saved, symbols, token, scopes, declared>>

\* An error at any token: the calls return through every open block, each of
\* which restores what it saved; package blocks do not restore theirs.
Error ==
    /\ progress = "parsing"
    /\ progress' = "error"
    /\ IF saved = <<>>
       THEN UNCHANGED <<pragmas, lexer, package>>
       ELSE /\ pragmas' = saved[1].pragmas /\ lexer' = saved[1].pragmas
            /\ package' = saved[1].package
    /\ saved' = <<>> /\ scopes' = <<scopes[1]>>
    /\ UNCHANGED <<symbols, token, declared>>

ScopeNext ==
    \/ PlainWord \/ Use \/ UseUtf8 \/ UseSubs \/ PackageStatement \/ SubForward
    \/ OpenBlock \/ PackageBlock \/ SubBody \/ CloseBlock
    \/ EndOfProgram \/ Error

ScopeSpec == ScopeInit /\ [][ScopeNext]_scope_vars

-----------------------------------------------------------------------------
(* Properties.                                                             *)

Settings == [features : SUBSET Feature, utf8 : BOOLEAN]

\* Types of pragmas, package, blocks and table; a block's end restores to a
\* scope that exists, and the table has one entry for a key.
ScopeTypeOK ==
    /\ pragmas \in Settings /\ lexer \in Settings /\ package \in Package
    /\ Len(scopes) = Len(saved) + 1
    /\ symbols \subseteq Entry
    /\ \A d, e \in symbols : d.namespace = e.namespace /\ d.key = e.key => d = e

\* Whatever use, no and package statements a program nests in its blocks, the
\* parser's pragmas and package are those the nesting of the source puts in
\* force, and the lexer's copies are in step with them, at every token.
Lexical ==
    progress = "parsing" =>
        /\ [features |-> pragmas.features, utf8 |-> pragmas.utf8, package |-> package] = InForce
        /\ lexer = pragmas

\* A word is lexed under the features and the encoding in force at its place,
\* the one after a block's closing brace excepted.
WordsInScope == token.past \/ token.lexed = token.due

\* The pragmas and the package in force are those of the source's nesting, and
\* words are lexed under them.  (parser.rs parse_scoped_block)
InScope == Lexical /\ WordsInScope

\* The same without the exception, of features: a block's features do not
\* leak out of it.
FeaturesInScope == token.lexed.features = token.due.features

\* A byte order mark enables use utf8 until the program says no utf8.
MarkHeeded == token.past \/ token.lexed.utf8 = token.due.utf8

\* A call finds exactly the subs that have been declared, in the package they
\* were declared in, from whichever package it is made: packages that change
\* inside a body, or for the length of a block, leave no sub in another's
\* namespace.  (symbol.rs declare_sub, lookup)
CallsFindSubs ==
    \A p \in Package, n \in Name, q \in Package :
        /\ Lookup(symbols, Qualified(p, n), q) # {} <=> SplitQualifiedName(Bare(n), p) \in declared
        /\ Lookup(symbols, Bare(n), p) = Lookup(symbols, Qualified(p, n), q)

\* A sub that has been defined is never again one of which only a forward
\* declaration has been seen.
StaysDefined ==
    [][\A d \in symbols : ~d.info.forward =>
        \E e \in symbols' : e.namespace = d.namespace /\ e.key = d.key /\ ~e.info.forward]_scope_vars

=============================================================================
