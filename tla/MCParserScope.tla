--------------------------- MODULE MCParserScope ---------------------------
(***************************************************************************)
(* Instances of ParserScope for TLC: a version with signatures in its      *)
(* bundle and one without, and subs declared under bare names.             *)
(***************************************************************************)
EXTENDS ParserScope

Versions == {<<5, 36>>, <<5, 8>>}
BareNames == {Bare(n) : n \in Name}

=============================================================================
