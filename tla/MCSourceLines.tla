--------------------------- MODULE MCSourceLines ---------------------------
(***************************************************************************)
(* Instances of SourceLines for TLC: rows without # line directives.       *)
(***************************************************************************)
EXTENDS SourceLines

Plain == {<<"w">>, <<"T">>, <<"<<", "quote">>, <<"quote", "w">>, <<"w", "quote">>, <<"<<", "w">>}

=============================================================================
