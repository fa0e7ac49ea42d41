---------------------------- MODULE Numification ----------------------------
(***************************************************************************)
(* Every text of at most MaxText marks over Alphabet, built a mark at a    *)
(* time, read as a number, written back and read again.  The reference the *)
(* readings are checked against is the grammar of numeric strings, which   *)
(* the tests of value.rs keep as a second statement of the same law.       *)
(***************************************************************************)
EXTENDS Numerals, FiniteSets

CONSTANTS Alphabet, MaxText, Precision

NumificationAssumption ==
  /\ Alphabet \subseteq Marks \union Digit
  /\ MaxText \in Nat
  /\ Precision >= MaxText       \* no text has more digits than %g keeps

VARIABLE text

Init == text = <<>>

\* A longer text.
Type ==
  /\ Len(text) < MaxText
  /\ \E c \in Alphabet : text' = Append(text, c)

Next == Type

Spec == Init /\ [][Next]_text

-----------------------------------------------------------------------------
(* The grammar. *)

Mantissa(m) ==
  /\ Cardinality({i \in DOMAIN m : m[i] = "."}) <= 1
  /\ Range(m) \subseteq Digit \union {"."}
  /\ Range(m) \intersect Digit # {}

Marker(x) ==
  \/ x = <<>>
  \/ /\ Starts(x, 1, {"e"})
     /\ LET tail == Suffix(x, IF Starts(x, 2, {"+", "-"}) THEN 3 ELSE 2)
        IN tail # <<>> /\ AllDigits(tail)

Numeral(body) ==
  \/ body \in {<<"inf">>, <<"inf", "inity">>, <<"nan">>}
  \/ \E k \in 1 .. Len(body) : Mantissa(SubSeq(body, 1, k)) /\ Marker(Suffix(body, k + 1))

\* The strings a numification is silent about.
Silent(s) ==
  \/ s = <<"0", " but true">>
  \/ \E i, j \in 0 .. Len(s) :
       /\ i < j
       /\ Range(SubSeq(s, 1, i) \o Suffix(s, j + 1)) \subseteq {" "}
       /\ \/ Numeral(SubSeq(s, i + 1, j))
          \/ s[i + 1] \in {"+", "-"} /\ Numeral(SubSeq(s, i + 2, j))

-----------------------------------------------------------------------------
(* Properties. *)

Number == Classify(text).number

\* The warning the one walk of numification raises is the grammar's: a text
\* warns exactly when, trimmed, it is not one complete numeral.
\* (value.rs classify_numeric_noting_warning)
WarnsByGrammar == Classify(text).warns <=> ~Silent(text)

\* Without an exponent or an infinity the integer a string is in integer
\* context, read digit by digit, is the integer its number is, through every
\* overflow: wrapped, saturated or clamped.  (value.rs parse_int_i64_visible,
\* float_to_int_i64_visible)
FacesAgree ==
  Range(text) \intersect {"e", "inf"} = {} => ParseInt(text) = ToInt(Number)

\* A number written out and read back is the number it was, silently.
\* (value.rs format_float_into, present_float, Value::stringify)
ReadsBack ==
  LET again == Classify(Formatted(Number, Precision))
      plain(n) == IF n.kind = "float"
                    THEN (IF n.class # "finite" THEN n
                          ELSE Finite(n.negative /\ n.mant # 0, n.mant, n.exp))
                    ELSE Finite(n.value < 0, Magnitude(n.value), 0)
  IN plain(again.number) = plain(Number) /\ ~again.warns

\* A cached rendering is the rendering: carrying digits never changes what a
\* number prints.  (numeric.rs DigitCache, render)
CacheUnseen ==
  Rendered(Number, Filled(Number), Precision) = Formatted(Number, Precision)
=============================================================================
