------------------------------ MODULE MCScalar ------------------------------
(***************************************************************************)
(* Instances of Scalar for TLC: a text with an exponent and something      *)
(* after it, and one number.                                               *)
(***************************************************************************)
EXTENDS Scalar

Exponents == {<<"3", "e", "1", "-">>}
Three == {Integer(3)}

=============================================================================
