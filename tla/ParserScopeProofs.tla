------------------------- MODULE ParserScopeProofs -------------------------
(***************************************************************************)
(* Proofs about ParserScope: for programs of any depth, any packages, subs *)
(* and features, the parser's pragmas and package are those of the         *)
(* source's nesting, words are lexed under them, and a call finds the subs *)
(* that were declared.                                                     *)
(***************************************************************************)
EXTENDS ParserScope, SequenceTheorems, TLAPS

-----------------------------------------------------------------------------
(* The inductive invariant.                                                *)

Place == [features : SUBSET Feature, utf8 : BOOLEAN, package : Package]

After ==
    [does : {"nothing"}] \cup [does : {"package"}, package : Package]
    \cup [does : {"sub"}, name : Spelling, prototype : BOOLEAN]

Opened == [pragmas : Settings, package : Package, after : After]

\* Types; a scope is open for every block and one for the program.
Types ==
    /\ pragmas \in Settings /\ lexer \in Settings /\ package \in Package
    /\ saved \in Seq(Opened) /\ scopes \in Seq(Place)
    /\ Len(scopes) = Len(saved) + 1

\* The pragmas P and the package p are those in force in s.
Agree(P, p, s) == P.features = s.features /\ P.utf8 = s.utf8 /\ p = s.package

\* The package that is current when the block b has ended.
Returns(b) == IF b.after.does = "package" THEN b.after.package ELSE b.package

\* What is current agrees with the innermost scope, and what an open block gives
\* back agrees with the scope around it.
Nested ==
    progress = "parsing" =>
        /\ Agree(pragmas, package, InForce)
        /\ lexer = pragmas
        /\ \A i \in 1 .. Len(saved) : Agree(saved[i].pragmas, Returns(saved[i]), scopes[i])

ScopeInv == Types /\ Nested /\ WordsInScope

\* The entries of the table are the subs that have been declared, one for each.
TableInv ==
    /\ symbols \subseteq Entry
    /\ \A e \in symbols : e.key \in Spelling
    /\ \A d, e \in symbols : d.namespace = e.namespace /\ d.key = e.key => d = e
    /\ declared = {[namespace |-> e.namespace, key |-> e.key] : e \in symbols}

IInv == ScopeInv /\ TableInv

\* A program without a byte order mark, whose subs are declared under bare names.
Plain == Bom = {FALSE} /\ Spelling \subseteq {Bare(n) : n \in Name}

-----------------------------------------------------------------------------
(* Pragmas.                                                                *)

\* A pragma makes settings of settings, and leaves the encoding alone.
LEMMA AppliedSettings ==
    ASSUME NEW P \in Settings, NEW Q \in Applied(P)
    PROVE  Q \in Settings /\ Q.utf8 = P.utf8
  BY DEF Applied, Settings, UseFeature, NoFeature, NoFeatures, UseVersion

-----------------------------------------------------------------------------
(* The table.                                                              *)

\* A declaration of a bare name in the package in force keeps the table and the
\* history of declarations together.
LEMMA DeclareKeepsTable ==
    ASSUME Plain, TableInv,
           NEW p \in Package, NEW w \in Spelling, NEW info \in SubInfo,
           Declare(p, w, info, p)
    PROVE  TableInv'
  <1> DEFINE new == [namespace |-> p, key |-> w, info |-> info]
             old == {e \in symbols : e.namespace # p \/ e.key # w}
  <1>1. symbols' = old \cup {new}
    BY DEF Declare, DeclareSub
  <1>2. PICK n \in Name : w = Bare(n)
    BY DEF Plain
  <1>3. w \in Written
    BY <1>2 DEF Bare, Written
  <1>4. new \in Entry
    BY <1>3 DEF Entry
  <1>5. SplitQualifiedName(w, p) = [namespace |-> p, key |-> w]
    BY <1>2 DEF SplitQualifiedName, Bare
  <1>6. declared' = declared \cup {[namespace |-> p, key |-> w]}
    BY <1>5 DEF Declare
  <1>7. symbols' \subseteq Entry /\ \A e \in symbols' : e.key \in Spelling
    BY <1>1, <1>4 DEF TableInv
  <1>8. \A d, e \in symbols' : d.namespace = e.namespace /\ d.key = e.key => d = e
    BY <1>1 DEF TableInv
  <1>9. declared' = {[namespace |-> e.namespace, key |-> e.key] : e \in symbols'}
    <2>1. ASSUME NEW x \in declared'
          PROVE  x \in {[namespace |-> e.namespace, key |-> e.key] : e \in symbols'}
      <3>1. CASE x = [namespace |-> p, key |-> w]
        <4>1. new \in symbols' /\ x = [namespace |-> new.namespace, key |-> new.key]
          BY <3>1, <1>1
        <4> HIDE DEF new
        <4> QED
          BY <4>1
      <3>2. CASE x # [namespace |-> p, key |-> w]
        <4>1. PICK e \in symbols : x = [namespace |-> e.namespace, key |-> e.key]
          BY <2>1, <3>2, <1>6 DEF TableInv
        <4>2. e \in old
          BY <4>1, <3>2
        <4> QED
          BY <4>1, <4>2, <1>1
      <3> QED
        BY <3>1, <3>2
    <2>2. ASSUME NEW e \in symbols'
          PROVE  [namespace |-> e.namespace, key |-> e.key] \in declared'
      BY <2>2, <1>1, <1>6 DEF TableInv
    <2> QED
      BY <2>1, <2>2
  <1> QED
    BY <1>7, <1>8, <1>9 DEF TableInv

-----------------------------------------------------------------------------
(* Scopes.                                                                 *)

\* Before the first token, the parser and the one scope agree.
LEMMA InitInvariant ==
    ASSUME Plain, ScopeInit
    PROVE  IInv
  <1>1. pragmas \in Settings /\ lexer = pragmas
    BY DEF ScopeInit, Plain, Settings
  <1>2. package \in Package /\ package = Main /\ saved = <<>>
    BY ParserScopeAssumption DEF ScopeInit
  <1>3. /\ scopes = <<[features |-> pragmas.features, utf8 |-> lexer.utf8, package |-> Main]>>
        /\ token.past = FALSE /\ token.lexed = token.due
    BY DEF ScopeInit
  <1>4. [features |-> pragmas.features, utf8 |-> lexer.utf8, package |-> Main] \in Place
    BY <1>1, <1>2 DEF Settings, Place
  <1>5. Types
    BY <1>1, <1>2, <1>3, <1>4 DEF Types
  <1>6. Nested
    BY <1>1, <1>2, <1>3 DEF Nested, Agree, InForce
  <1>7. TableInv
    BY DEF ScopeInit, NoSymbols, TableInv
  <1> QED
    BY <1>3, <1>5, <1>6, <1>7 DEF IInv, ScopeInv, WordsInScope

\* A token read under settings that agree with its scope, or one after a block's
\* end, is one the exception of WordsInScope covers or one that is in scope.
LEMMA TokenInScope ==
    ASSUME NEW l \in Settings, NEW s, NEW past \in BOOLEAN, LexToken(l, s, past),
           past \/ (l.features = s.features /\ l.utf8 = s.utf8)
    PROVE  WordsInScope'
  <1>1. token'.past = past /\ token'.lexed = l /\ token'.due = [features |-> s.features, utf8 |-> s.utf8]
    BY DEF LexToken
  <1>2. l = [features |-> l.features, utf8 |-> l.utf8]
    BY DEF Settings
  <1> QED
    BY <1>1, <1>2 DEF WordsInScope

\* The scope in force is one of the scopes.
LEMMA InForceIsPlace == ASSUME Types PROVE InForce \in Place
  BY DEF Types, InForce

\* A statement that opens no block, and that changes pragmas, package and the
\* scope in force alike.
LEMMA StatementKeepsScope ==
    ASSUME Types, Nested, progress = "parsing", UNCHANGED <<saved, progress>>,
           NEW s \in Place, SetInForce(s),
           pragmas' \in Settings, package' \in Package, lexer' = pragmas',
           Agree(pragmas', package', s)
    PROVE  Types' /\ Nested'
  <1>1. scopes' \in Seq(Place) /\ Len(scopes') = Len(scopes) /\ scopes'[Len(scopes')] = s
    BY DEF SetInForce, Types
  <1>2. \A i \in 1 .. Len(saved) : scopes'[i] = scopes[i]
    BY DEF SetInForce, Types
  <1>3. Types'
    BY <1>1 DEF Types
  <1>4. InForce' = s
    BY <1>1 DEF InForce
  <1>5. \A i \in 1 .. Len(saved') : Agree(saved'[i].pragmas, Returns(saved'[i]), scopes'[i])
    BY <1>2 DEF Nested
  <1>6. Nested'
    BY <1>4, <1>5 DEF Nested
  <1> QED
    BY <1>3, <1>6

\* A block is entered with the package p; it gives back the one before.
LEMMA EnterKeepsScope ==
    ASSUME Types, Nested, progress = "parsing",
           NEW p \in Package, NEW after \in After, Enter(p, after), package' = p,
           (IF after.does = "package" THEN after.package ELSE p) = package
    PROVE  ScopeInv'
  <1> DEFINE s == [InForce EXCEPT !.package = p]
             b == [pragmas |-> pragmas, package |-> p, after |-> after]
  <1>1. s \in Place /\ s.features = InForce.features /\ s.utf8 = InForce.utf8 /\ s.package = p
    BY InForceIsPlace DEF Place
  <1>2. b \in Opened /\ Agree(b.pragmas, Returns(b), InForce)
    BY DEF Types, Opened, Nested, Agree, Returns
  <1>3. /\ saved' = Append(saved, b) /\ scopes' = Append(scopes, s) /\ LexToken(lexer, s, FALSE)
        /\ UNCHANGED <<pragmas, lexer, progress>>
    BY DEF Enter
  <1>4. WordsInScope'
    BY <1>1, <1>3, TokenInScope DEF Types, Nested, Agree
  <1> HIDE DEF s, b
  <1>5. Types'
    BY <1>1, <1>2, <1>3 DEF Types
  <1>6. Len(saved') = Len(saved) + 1 /\ Len(scopes') = Len(scopes) + 1
    BY <1>3 DEF Types
  <1>7. InForce' = s
    BY <1>3, <1>6 DEF InForce, Types
  <1>8. ASSUME NEW i \in 1 .. Len(saved')
        PROVE  Agree(saved'[i].pragmas, Returns(saved'[i]), scopes'[i])
    <2>1. CASE i \in 1 .. Len(saved)
      <3>1. saved'[i] = saved[i] /\ scopes'[i] = scopes[i]
        BY <2>1, <1>3 DEF Types
      <3> QED
        BY <2>1, <3>1 DEF Nested
    <2>2. CASE i = Len(saved) + 1
      <3>1. saved'[i] = b /\ scopes'[i] = InForce
        BY <2>2, <1>3 DEF Types, InForce
      <3> QED
        BY <3>1, <1>2
    <2> QED
      BY <2>1, <2>2, <1>6 DEF Types
  <1>9. Agree(pragmas', package', s) /\ lexer' = pragmas'
    BY <1>1, <1>3 DEF Nested, Agree
  <1> QED
    BY <1>4, <1>5, <1>7, <1>8, <1>9 DEF ScopeInv, Nested

\* A sequence without its last element.
LEMMA FrontShortens ==
    ASSUME NEW S, NEW q \in Seq(S), Len(q) > 0
    PROVE  /\ Front(q) \in Seq(S) /\ Len(Front(q)) = Len(q) - 1
           /\ \A i \in 1 .. Len(q) - 1 : Front(q)[i] = q[i]
  <1>1. \A i \in 1 .. Len(q) - 1 : q[i] \in S
    OBVIOUS
  <1>2. Len(q) - 1 \in Nat
    OBVIOUS
  <1> DEFINE n == Len(q) - 1
  <1> HIDE DEF n
  <1>3. n \in Int /\ 1 \in Int /\ \A i \in 1 .. n : q[i] \in S
    BY <1>1, <1>2 DEF n
  <1>4. /\ SubSeq(q, 1, n) \in Seq(S) /\ Len(SubSeq(q, 1, n)) = IF 1 <= n THEN n - 1 + 1 ELSE 0
        /\ \A i \in 1 .. n - 1 + 1 : SubSeq(q, 1, n)[i] = q[1 + i - 1]
    BY <1>3, SubSeqProperties
  <1>5. n \in Nat /\ Front(q) = SubSeq(q, 1, n)
    BY <1>2 DEF Front, n
  <1>6. Len(Front(q)) = n
    BY <1>4, <1>5
  <1>7. ASSUME NEW i \in 1 .. n PROVE Front(q)[i] = q[i]
    <2>1. i \in 1 .. n - 1 + 1 /\ 1 + i - 1 = i
      BY <1>5
    <2> QED
      BY <1>4, <1>5, <2>1
  <1> QED
    BY <1>4, <1>5, <1>6, <1>7 DEF n

\* A block ends, and the construct around it finishes.
LEMMA CloseKeepsScope ==
    ASSUME Types, Nested, CloseBlock
    PROVE  ScopeInv'
  <1> DEFINE n == Len(saved)
             b == saved[n]
  <1>1. /\ progress = "parsing" /\ saved # <<>> /\ progress' = progress
        /\ LexToken(lexer, scopes[Len(scopes) - 1], TRUE)
        /\ pragmas' = b.pragmas /\ lexer' = b.pragmas
        /\ Finish(b.after, b.package)
        /\ saved' = Front(saved) /\ scopes' = Front(scopes)
    BY DEF CloseBlock, Parsing
  <1>2. n \in Nat \ {0} /\ n \in 1 .. Len(saved) /\ b \in Opened /\ Len(scopes) = n + 1
    BY <1>1 DEF Types
  <1>3. package' = Returns(b) /\ Returns(b) \in Package
    BY <1>1, <1>2 DEF Finish, Returns, Opened, After
  <1>4. WordsInScope'
    BY <1>1, TokenInScope DEF Types
  <1>5. /\ saved' \in Seq(Opened) /\ Len(saved') = n - 1 /\ \A i \in 1 .. n - 1 : saved'[i] = saved[i]
        /\ scopes' \in Seq(Place) /\ Len(scopes') = n /\ \A i \in 1 .. n : scopes'[i] = scopes[i]
    <2>1. saved \in Seq(Opened) /\ Len(saved) > 0 /\ scopes \in Seq(Place) /\ Len(scopes) > 0
      BY <1>2 DEF Types
    <2>2. /\ Front(saved) \in Seq(Opened) /\ Len(Front(saved)) = n - 1
          /\ \A i \in 1 .. n - 1 : Front(saved)[i] = saved[i]
      BY <2>1, FrontShortens
    <2>3. /\ Front(scopes) \in Seq(Place) /\ Len(Front(scopes)) = n
          /\ \A i \in 1 .. n : Front(scopes)[i] = scopes[i]
      <3>1. /\ Front(scopes) \in Seq(Place) /\ Len(Front(scopes)) = Len(scopes) - 1
            /\ \A i \in 1 .. Len(scopes) - 1 : Front(scopes)[i] = scopes[i]
        BY <2>1, FrontShortens
      <3> QED
        BY <3>1, <1>2
    <2> QED
      BY <1>1, <2>2, <2>3
  <1>6. Types'
    BY <1>1, <1>2, <1>3, <1>5 DEF Types, Opened
  <1>7. InForce' = scopes[n]
    BY <1>2, <1>5 DEF InForce
  <1>8. Agree(b.pragmas, Returns(b), scopes[n])
    BY <1>1, <1>2 DEF Nested
  <1>9. \A i \in 1 .. Len(saved') : Agree(saved'[i].pragmas, Returns(saved'[i]), scopes'[i])
    BY <1>1, <1>2, <1>5 DEF Nested
  <1> HIDE DEF n, b
  <1> QED
    BY <1>1, <1>3, <1>4, <1>6, <1>7, <1>8, <1>9 DEF ScopeInv, Nested

\* A statement that leaves pragmas, package and scopes as they are.
LEMMA StillKeepsScope ==
    ASSUME Types, Nested, progress = "parsing", LexToken(lexer', InForce, FALSE),
           UNCHANGED <<pragmas, package, saved, progress, scopes>>, lexer' = pragmas
    PROVE  ScopeInv'
  <1>1. Types' /\ Nested'
    BY DEF Types, Nested, InForce
  <1>2. WordsInScope'
    BY TokenInScope DEF Types, Nested, Agree
  <1> QED
    BY <1>1, <1>2 DEF ScopeInv

\* Every step keeps the scopes nested.
LEMMA NextKeepsScope ==
    ASSUME ScopeInv, [ScopeNext]_scope_vars
    PROVE  ScopeInv'
  <1> USE DEF ScopeInv, Parsing
  <1>1. CASE PlainWord
    BY <1>1, StillKeepsScope DEF PlainWord, Nested
  <1>2. CASE Use
    <2>1. PICK P \in Applied(pragmas) :
            /\ pragmas' = P /\ lexer' = P
            /\ SetInForce([InForce EXCEPT !.features = P.features])
            /\ LexToken(P, [InForce EXCEPT !.features = P.features], FALSE)
      BY <1>2 DEF Use
    <2>2. UNCHANGED <<package, saved, progress>> /\ progress = "parsing"
      BY <1>2 DEF Use
    <2> DEFINE s == [InForce EXCEPT !.features = P.features]
    <2>3. P \in Settings /\ P.utf8 = pragmas.utf8
      BY AppliedSettings DEF Types
    <2>4. s \in Place /\ Agree(P, package, s)
      BY <2>2, <2>3, InForceIsPlace DEF Place, Settings, Agree, Nested
    <2>5. WordsInScope'
      BY <2>1, <2>3, <2>4, TokenInScope DEF Agree
    <2> QED
      BY <2>1, <2>2, <2>3, <2>4, <2>5, StatementKeepsScope DEF Types
  <1>3. CASE UseUtf8
    <2>1. PICK on \in BOOLEAN :
            /\ pragmas' = [pragmas EXCEPT !.utf8 = on] /\ lexer' = pragmas'
            /\ SetInForce([InForce EXCEPT !.utf8 = on])
            /\ LexToken(pragmas', [InForce EXCEPT !.utf8 = on], FALSE)
      BY <1>3 DEF UseUtf8
    <2>2. UNCHANGED <<package, saved, progress>> /\ progress = "parsing"
      BY <1>3 DEF UseUtf8
    <2> DEFINE s == [InForce EXCEPT !.utf8 = on]
    <2>3. pragmas' \in Settings /\ pragmas'.features = pragmas.features /\ pragmas'.utf8 = on
      BY <2>1 DEF Types, Settings
    <2>4. s \in Place /\ Agree(pragmas', package, s)
      BY <2>2, <2>3, InForceIsPlace DEF Place, Agree, Nested
    <2>5. WordsInScope'
      BY <2>1, <2>3, <2>4, TokenInScope DEF Agree
    <2> QED
      BY <2>1, <2>2, <2>3, <2>4, <2>5, StatementKeepsScope DEF Types
  <1>4. CASE UseSubs
    BY <1>4, StillKeepsScope DEF UseSubs
  <1>5. CASE PackageStatement
    <2>1. PICK p \in Package : package' = p /\ SetInForce([InForce EXCEPT !.package = p])
      BY <1>5 DEF PackageStatement
    <2>2. /\ UNCHANGED <<pragmas, lexer, saved, progress>> /\ progress = "parsing"
          /\ LexToken(lexer, InForce, FALSE)
      BY <1>5 DEF PackageStatement
    <2> DEFINE s == [InForce EXCEPT !.package = p]
    <2>3. s \in Place /\ Agree(pragmas, p, s)
      BY <2>2, InForceIsPlace DEF Place, Agree, Nested
    <2>4. WordsInScope'
      BY <2>2, TokenInScope DEF Types, Nested, Agree
    <2> QED
      BY <2>1, <2>2, <2>3, <2>4, StatementKeepsScope DEF Types, Nested
  <1>6. CASE SubForward
    BY <1>6, StillKeepsScope DEF SubForward, Nested
  <1>7. CASE OpenBlock
    <2>1. [does |-> "nothing"] \in After
      BY DEF After
    <2> QED
      BY <1>7, <2>1, EnterKeepsScope DEF OpenBlock, Types
  <1>8. CASE PackageBlock
    <2>1. PICK p \in Package : package' = p /\ Enter(p, [does |-> "package", package |-> package])
      BY <1>8 DEF PackageBlock
    <2>2. [does |-> "package", package |-> package] \in After
      BY DEF After, Types
    <2> QED
      BY <1>8, <2>1, <2>2, EnterKeepsScope DEF PackageBlock
  <1>9. CASE SubBody
    <2>1. PICK w \in Spelling, parenthesized, attribute \in BOOLEAN :
            Enter(package, [does |-> "sub", name |-> w,
                            prototype |-> Prototype(parenthesized, attribute)])
      BY <1>9 DEF SubBody
    <2>2. [does |-> "sub", name |-> w, prototype |-> Prototype(parenthesized, attribute)] \in After
      BY DEF After, Prototype
    <2> QED
      BY <1>9, <2>1, <2>2, EnterKeepsScope DEF SubBody, Types
  <1>10. CASE CloseBlock
    BY <1>10, CloseKeepsScope
  <1>11. CASE EndOfProgram
    BY <1>11 DEF EndOfProgram, Types, Nested, WordsInScope
  <1>12. CASE Error
    <2>1. progress' = "error" /\ saved' = <<>> /\ scopes' = <<scopes[1]>> /\ UNCHANGED token
      BY <1>12 DEF Error
    <2>2. scopes[1] \in Place
      BY DEF Types
    <2>3. saved # <<>> => saved[1] \in Opened
      BY DEF Types
    <2>4. pragmas' \in Settings /\ lexer' \in Settings /\ package' \in Package
      BY <1>12, <2>3 DEF Error, Opened, Types
    <2> QED
      BY <2>1, <2>2, <2>4 DEF Types, Nested, WordsInScope
  <1>13. CASE UNCHANGED scope_vars
    BY <1>13 DEF scope_vars, Types, Nested, WordsInScope, InForce
  <1> QED
    BY <1>1, <1>2, <1>3, <1>4, <1>5, <1>6, <1>7, <1>8, <1>9, <1>10, <1>11, <1>12, <1>13 DEF ScopeNext

\* Every step keeps the table and the history of declarations together.
LEMMA NextKeepsTable ==
    ASSUME Plain, IInv, [ScopeNext]_scope_vars
    PROVE  TableInv'
  <1> USE DEF IInv, ScopeInv, Parsing
  <1>1. CASE UNCHANGED <<symbols, declared>>
    BY <1>1 DEF TableInv
  <1>2. CASE UseSubs
    <2>1. PICK w \in Spelling :
            Declare(package, w, [prototype |-> FALSE, forward |-> TRUE], InForce.package)
      BY <1>2 DEF UseSubs
    <2>2. InForce.package = package
      BY <1>2 DEF UseSubs, Nested, Agree
    <2> QED
      BY <2>1, <2>2, DeclareKeepsTable DEF Types, SubInfo
  <1>3. CASE SubForward
    <2>1. PICK w \in Spelling, parenthesized, attribute \in BOOLEAN :
            Declare(package, w, [prototype |-> Prototype(parenthesized, attribute), forward |-> TRUE],
                    InForce.package)
      BY <1>3 DEF SubForward
    <2>2. InForce.package = package
      BY <1>3 DEF SubForward, Nested, Agree
    <2>3. [prototype |-> Prototype(parenthesized, attribute), forward |-> TRUE] \in SubInfo
      BY DEF SubInfo, Prototype
    <2> QED
      BY <2>1, <2>2, <2>3, DeclareKeepsTable DEF Types
  <1>4. CASE CloseBlock
    <2> DEFINE b == saved[Len(saved)]
    <2>1. progress = "parsing" /\ saved # <<>> /\ Finish(b.after, b.package)
      BY <1>4 DEF CloseBlock
    <2>2. Len(saved) \in 1 .. Len(saved) /\ b \in Opened /\ Len(scopes) - 1 = Len(saved)
      BY <2>1 DEF Types
    <2>3. CASE b.after.does = "sub"
      <3>1. b.package = scopes[Len(scopes) - 1].package
        BY <2>1, <2>2, <2>3 DEF Nested, Agree, Returns
      <3>2. b.after.name \in Spelling /\ b.package \in Package /\ b.after.prototype \in BOOLEAN
        BY <2>2, <2>3 DEF Opened, After
      <3>3. Declare(b.package, b.after.name, [prototype |-> b.after.prototype, forward |-> FALSE], b.package)
        BY <2>1, <2>3, <3>1 DEF Finish
      <3>4. [prototype |-> b.after.prototype, forward |-> FALSE] \in SubInfo
        BY <3>2 DEF SubInfo
      <3> QED
        BY <3>2, <3>3, <3>4, DeclareKeepsTable
    <2>4. CASE b.after.does # "sub"
      <3>1. b.after.does \in {"nothing", "package"}
        BY <2>2, <2>4 DEF Opened, After
      <3> QED
        BY <1>1, <2>1, <3>1 DEF Finish
    <2> QED
      BY <2>3, <2>4
  <1>5. CASE PlainWord \/ Use \/ UseUtf8 \/ PackageStatement \/ OpenBlock \/ PackageBlock \/ SubBody
               \/ EndOfProgram \/ Error
    BY <1>1, <1>5 DEF PlainWord, Use, UseUtf8, PackageStatement, OpenBlock, PackageBlock, SubBody, Enter, EndOfProgram, Error
  <1>6. CASE UNCHANGED scope_vars
    BY <1>1, <1>6 DEF scope_vars
  <1> QED
    BY <1>2, <1>3, <1>4, <1>5, <1>6 DEF ScopeNext

-----------------------------------------------------------------------------
(* Theorems.                                                               *)

\* The inductive invariant holds of the parser of any program: whatever nests,
\* what is current agrees with the innermost scope, and what an open block gives
\* back with the one around it.  (parser.rs parse_scoped_block)
THEOREM ScopeInvariant ==
    ASSUME Plain
    PROVE  ScopeSpec => []IInv
  <1>1. ScopeInit => IInv
    BY InitInvariant
  <1>2. IInv /\ [ScopeNext]_scope_vars => IInv'
    BY NextKeepsScope, NextKeepsTable DEF IInv
  <1> QED
    BY <1>1, <1>2, PTL DEF ScopeSpec

\* Pragmas, package, blocks and table have their types; there is a scope for
\* every open block, and one entry in the table for a name.
\* (parser.rs Parser, symbol.rs Namespace)
THEOREM ScopeTyped ==
    ASSUME Plain
    PROVE  ScopeSpec => []ScopeTypeOK
  <1>1. IInv => ScopeTypeOK
    BY DEF IInv, ScopeInv, TableInv, Types, ScopeTypeOK
  <1> QED
    BY <1>1, ScopeInvariant, PTL

\* At every token the parser's pragmas and package are those the nesting of the
\* source puts in force, the lexer's copies are in step, and a word is lexed
\* under the features and the encoding in force where it stands, unless it is
\* the first after a block's end.  (parser.rs parse_scoped_block, sync_lexer)
THEOREM PragmasAreLexical ==
    ASSUME Plain
    PROVE  ScopeSpec => []InScope
  <1>1. ASSUME IInv, progress = "parsing" PROVE Lexical
    <2>1. InForce = [features |-> InForce.features, utf8 |-> InForce.utf8, package |-> InForce.package]
      BY <1>1, InForceIsPlace DEF IInv, ScopeInv, Place
    <2> QED
      BY <1>1, <2>1 DEF Lexical, IInv, ScopeInv, Nested, Agree
  <1>2. IInv => InScope
    BY <1>1 DEF InScope, Lexical, IInv, ScopeInv
  <1> QED
    BY <1>2, ScopeInvariant, PTL

\* A call finds exactly the subs that were declared in the package it names or
\* stands in.  (symbol.rs declare_sub, lookup_sub)
THEOREM SubsAreFound ==
    ASSUME Plain
    PROVE  ScopeSpec => []CallsFindSubs
  <1>1. ASSUME IInv PROVE CallsFindSubs
    <2> SUFFICES ASSUME NEW p \in Package, NEW n \in Name, NEW q \in Package
                 PROVE  /\ Lookup(symbols, Qualified(p, n), q) # {}
                             <=> SplitQualifiedName(Bare(n), p) \in declared
                        /\ Lookup(symbols, Bare(n), p) = Lookup(symbols, Qualified(p, n), q)
      BY DEF CallsFindSubs
    <2> DEFINE at == [namespace |-> p, key |-> Bare(n)]
    <2>1. SplitQualifiedName(Bare(n), p) = at /\ SplitQualifiedName(Qualified(p, n), q) = at
      BY SymbolTableAssumption DEF SplitQualifiedName, Bare, Qualified
    <2>2. Lookup(symbols, Bare(n), p) = Lookup(symbols, Qualified(p, n), q)
      BY <2>1 DEF Lookup
    <2>3. Lookup(symbols, Qualified(p, n), q) = {e \in symbols : e.namespace = p /\ e.key = Bare(n)}
      BY <2>1 DEF Lookup
    <2>4. declared = {[namespace |-> e.namespace, key |-> e.key] : e \in symbols}
      BY <1>1 DEF IInv, TableInv
    <2>5. at \in declared <=> \E e \in symbols : e.namespace = p /\ e.key = Bare(n)
      BY <2>4
    <2> QED
      BY <2>1, <2>2, <2>3, <2>5
  <1> QED
    BY <1>1, ScopeInvariant, PTL

=============================================================================
