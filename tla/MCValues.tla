----------------------------- MODULE MCValues ------------------------------
(***************************************************************************)
(* Instances for TLC of the modules of the values: arrays, hashes, scalars *)
(* and numbers, one run for all: a behaviour moves one part, and the       *)
(* others rest where they began.                                           *)
(***************************************************************************)
EXTENDS PerlArray, HashEach, Scalar, TLC

CONSTANTS Alphabet, MaxText

VARIABLES part, text

arrays == vars
hashes == hash_vars
scalars == scalar_vars
values == <<part, arrays, hashes, scalars, text>>

\* A text that warns, one that does not, and a number.
MCTexts == {<<"3", "e">>, <<"9">>}
MCNumbers == {Integer(3)}

Texting == INSTANCE Numification

ASSUME Texting!NumificationAssumption

Parts == {"arrays", "hashes", "scalars", "text"}

\* Values and threads are each interchangeable, and the properties are safety.
Symmetry == Permutations(Value) \cup Permutations(Thread)

MCInit ==
    /\ part \in Parts
    /\ Init /\ HashInit /\ ScalarInit /\ Texting!Init
    /\ part # "hashes" => engine = "Perl"
    /\ part # "scalars" => payload = Undefined

MCNext ==
    /\ UNCHANGED part
    /\ \/ part = "arrays" /\ Next /\ UNCHANGED <<hashes, scalars, text>>
       \/ part = "hashes" /\ HashNext /\ UNCHANGED <<arrays, scalars, text>>
       \/ part = "scalars" /\ ScalarNext /\ UNCHANGED <<arrays, hashes, text>>
       \/ part = "text" /\ Texting!Next /\ UNCHANGED <<arrays, hashes, scalars>>

MCSpec == MCInit /\ [][MCNext]_values

-----------------------------------------------------------------------------
(* Properties; each is stated in its module, those of the arrays, the      *)
(* hashes and the scalars in the ones this extends.                        *)

\* The type invariants of the arrays, the hashes and the scalars.
\* (containers.rs PerlArray, PerlHash; scalar.rs FullScalar)
Types ==
    /\ part = "arrays" => TypeOK
    /\ part = "hashes" => HashTypeOK
    /\ part = "scalars" => ScalarTypeOK

\* A text is read as the grammar of numerals has it, warnings included, and the
\* same in integer context.  (value.rs classify_numeric_noting_warning)
ReadsByGrammar == part = "text" => Texting!WarnsByGrammar /\ Texting!FacesAgree

\* A number written out reads back, from the digit cache or not.
\* (value.rs format_float_into, numeric.rs DigitCache)
WritesBack == part = "text" => Texting!ReadsBack /\ Texting!CacheUnseen

=============================================================================
