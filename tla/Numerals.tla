------------------------------- MODULE Numerals -------------------------------
(***************************************************************************)
(* What a Perl string is worth as a number, and how a number is written    *)
(* back: the coercions of src/core/src/value.rs and the digit caches of    *)
(* src/core/src/numeric.rs, as operators.                                  *)
(*                                                                         *)
(* A text is a sequence of marks.  A mark is one character, except the     *)
(* words "inf", "inity" and "nan" (compared without case) and the tail     *)
(* " but true" of the one string Perl keeps silent about, which are marks  *)
(* of their own.  Integers are Width bits wide where the code's are 64; a  *)
(* finite float is an exact decimal, mant * 10^exp, so the rounding of     *)
(* binary floats is left out.                                              *)
(***************************************************************************)
EXTENDS Integers, Sequences, SequencesExt

CONSTANTS Width,            \* bits of an integer
          IntegerCapacity,  \* digits an integer's cache holds
          FloatCapacity     \* digits a float's cache holds

Marks == {" ", "+", "-", ".", "e", "inf", "inity", "nan", " but true"}

Figure == <<"0", "1", "2", "3", "4", "5", "6", "7", "8", "9">>
Digit == Range(Figure)
Worth(d) == CHOOSE n \in 0 .. 9 : Figure[n + 1] = d

IntMax == 2 ^ (Width - 1) - 1
IntMin == -(IntMax + 1)
UnsignedMax == 2 ^ Width - 1

Suffix(s, i) == SubSeq(s, i, Len(s))
Starts(s, i, marks) == i <= Len(s) /\ s[i] \in marks
AllDigits(s) == Range(s) \subseteq Digit

-----------------------------------------------------------------------------
(* Reading. *)

\* How many digits the text starts with.
DigitRun(s) ==
  CHOOSE n \in 0 .. Len(s) :
    AllDigits(SubSeq(s, 1, n)) /\ ~Starts(s, n + 1, Digit)

Decimal(s) == FoldLeft(LAMBDA v, d : 10 * v + Worth(d), 0, s)

\* The text without leading spaces and one sign.
SplitSign(s) ==
  LET at == CHOOSE n \in 1 .. Len(s) + 1 :
              Range(SubSeq(s, 1, n - 1)) \subseteq {" "} /\ ~Starts(s, n, {" "})
  IN [negative |-> Starts(s, at, {"-"}),
      rest |-> Suffix(s, IF Starts(s, at, {"+", "-"}) THEN at + 1 ELSE at)]

TrimEnd(s) ==
  SubSeq(s, 1, CHOOSE n \in 0 .. Len(s) :
                 Range(Suffix(s, n + 1)) \subseteq {" "} /\ (n = 0 \/ s[n] # " "))

\* The unsigned reading of the same bits, as a signed number.
Wrapped(v) == IF v > IntMax THEN v - (UnsignedMax + 1) ELSE v

\* The integer a string is in integer context: its leading digits only.
ParseInt(s) ==
  LET split == SplitSign(s)
      value == Decimal(SubSeq(split.rest, 1, DigitRun(split.rest)))
  IN IF split.negative
       THEN (IF value <= IntMax THEN -value ELSE IntMin)
       ELSE (IF value <= UnsignedMax THEN Wrapped(value) ELSE -1)

Integer(n) == [kind |-> "integer", value |-> n]
Unsigned(n) == [kind |-> "unsigned", value |-> n]
Special(negative, word) ==
  [kind |-> "float", class |-> word, negative |-> negative, mant |-> 0, exp |-> 0]

\* A finite float in its one form: no factor of ten in the mantissa.
Finite(negative, mant, exp) ==
  LET zeros == CHOOSE k \in 0 .. 10 :
                 mant % (10 ^ k) = 0 /\ (k = 10 \/ mant % (10 ^ (k + 1)) # 0)
  IN [kind |-> "float", class |-> "finite", negative |-> negative,
      mant |-> IF mant = 0 THEN 0 ELSE mant \div 10 ^ zeros,
      exp |-> IF mant = 0 THEN 0 ELSE exp + zeros]

\* Fault: the marker taken whether or not digits follow.
DanglingSpan(s) ==
  LET first == IF Starts(s, 2, {"+", "-"}) THEN 3 ELSE 2
      run == DigitRun(Suffix(s, first))
  IN IF Starts(s, 1, {"e"})
       THEN [len |-> first + run - 1, value |-> Decimal(SubSeq(s, first, first + run - 1))]
       ELSE [len |-> 0, value |-> 0]

\* The exponent that follows a mantissa: its marks and its value.  A marker
\* with no digits behind it is not part of the number.
ExponentSpan(s) ==
  LET signed == Starts(s, 2, {"+", "-"})
      first == IF signed THEN 3 ELSE 2
      run == DigitRun(Suffix(s, first))
      value == Decimal(SubSeq(s, first, first + run - 1))
  IN IF Starts(s, 1, {"e"}) /\ run > 0
       THEN [len |-> first + run - 1,
             value |-> IF Starts(s, 2, {"-"}) THEN -value ELSE value]
       ELSE [len |-> 0, value |-> 0]

\* The float a string starts with, and how many marks after the sign it took.
FloatSpan(s) ==
  LET split == SplitSign(s)
      rest == split.rest
      whole == DigitRun(rest)
      fraction == IF Starts(rest, whole + 1, {"."})
                    THEN DigitRun(Suffix(rest, whole + 2)) ELSE 0
      mantissa == IF Starts(rest, whole + 1, {"."}) /\ whole + fraction > 0
                    THEN whole + 1 + fraction ELSE whole
      exponent == IF mantissa = 0 THEN [len |-> 0, value |-> 0]
                    ELSE ExponentSpan(Suffix(rest, mantissa + 1))
      digits == SelectSeq(SubSeq(rest, 1, mantissa), LAMBDA c : c # ".")
  IN IF Starts(rest, 1, {"inf"})
       THEN [number |-> Special(split.negative, "inf"),
             span |-> IF Starts(rest, 2, {"inity"}) THEN 2 ELSE 1]
     ELSE IF Starts(rest, 1, {"nan"})
       THEN [number |-> Special(FALSE, "nan"), span |-> 1]
     ELSE [number |-> Finite(split.negative, Decimal(digits), exponent.value - fraction),
           span |-> mantissa + exponent.len]

\* What the string numifies to, and whether doing so warns, from one walk.
Classify(s) ==
  LET token == TrimEnd(s)
      split == SplitSign(token)
      run == DigitRun(split.rest)
      value == Decimal(SubSeq(split.rest, 1, run))
      integral == run > 0 /\ ~Starts(split.rest, run + 1, {".", "e"})
      complete == run = Len(split.rest)
      float == FloatSpan(token)
  IN IF s = <<"0", " but true">>
       THEN [number |-> Integer(0), warns |-> FALSE]
     ELSE CASE integral /\ split.negative /\ -value >= IntMin ->
                 [number |-> Integer(-value), warns |-> ~complete]
            [] integral /\ ~split.negative /\ value <= IntMax ->
                 [number |-> Integer(value), warns |-> ~complete]
            [] integral /\ ~split.negative /\ value \in IntMax + 1 .. UnsignedMax ->
                 [number |-> Unsigned(value), warns |-> ~complete]
            [] OTHER ->
                 [number |-> float.number,
                  warns |-> float.span # Len(split.rest) \/ split.rest = <<>>]

-----------------------------------------------------------------------------
(* The signed reading of a number. *)

Truncated(x) ==
  LET huge == IF x.mant > 0 /\ x.exp > 5 THEN UnsignedMax + 1
              ELSE IF x.exp >= 0 THEN x.mant * 10 ^ x.exp
              ELSE IF x.exp < -9 THEN 0
              ELSE x.mant \div 10 ^ (-x.exp)
  IN IF x.negative THEN -huge ELSE huge

FloatToInt(x) ==
  CASE x.class = "nan" -> 0
    [] x.class = "inf" -> IF x.negative THEN IntMin ELSE -1
    [] x.class = "finite" /\ Truncated(x) > UnsignedMax -> -1
    [] x.class = "finite" /\ Truncated(x) \in IntMax + 1 .. UnsignedMax ->
         Wrapped(Truncated(x))
    [] x.class = "finite" /\ Truncated(x) < IntMin -> IntMin
    [] OTHER -> Truncated(x)

ToInt(n) ==
  CASE n.kind = "integer" -> n.value
    [] n.kind = "unsigned" -> Wrapped(n.value)
    [] n.kind = "float" -> FloatToInt(n)

-----------------------------------------------------------------------------
(* Writing. *)

\* The decimal digits of a magnitude, as marks.
DigitsOf(m) ==
  LET width == CHOOSE k \in 1 .. 10 :
                 (k = 10 \/ m < 10 ^ k) /\ (k = 1 \/ m >= 10 ^ (k - 1))
  IN [i \in 1 .. width |-> Figure[((m \div 10 ^ (width - i)) % 10) + 1]]

Zeros(k) == [i \in 1 .. k |-> "0"]
Sign(negative) == IF negative THEN <<"-">> ELSE <<>>

\* Fault: fixed notation kept one place too far.
PresentedFixed(digits, exp, negative, precision) ==
  Sign(negative) \o
  (IF exp < 0 THEN <<"0", ".">> \o Zeros(-exp) \o digits
   ELSE digits \o Zeros(exp + 1 - Len(digits)))

\* %g's choice between fixed and exponent notation, for digits whose first
\* stands at the decimal exponent exp.
Presented(digits, exp, negative, precision) ==
  LET count == Len(digits)
      magnitude == DigitsOf(IF exp < 0 THEN -exp ELSE exp)
      padded == IF Len(magnitude) = 1 THEN <<"0">> \o magnitude ELSE magnitude
  IN Sign(negative) \o
     (IF exp < -4 \/ exp >= precision
        THEN SubSeq(digits, 1, 1)
             \o (IF count > 1 THEN <<".">> \o Suffix(digits, 2) ELSE <<>>)
             \o <<"e", IF exp < 0 THEN "-" ELSE "+">> \o padded
      ELSE IF exp < 0
        THEN <<"0", ".">> \o Zeros(-exp - 1) \o digits
      ELSE IF count <= exp + 1
        THEN digits \o Zeros(exp + 1 - count)
      ELSE SubSeq(digits, 1, exp + 1) \o <<".">> \o Suffix(digits, exp + 2))

NoCache == [digits |-> <<>>, exp |-> 0]

\* The digits are cached whole or not at all.
Cache(digits, exp, capacity) ==
  IF Len(digits) > capacity \/ exp \notin -128 .. 127
    THEN NoCache ELSE [digits |-> digits, exp |-> exp]

Magnitude(n) == IF n < 0 THEN -n ELSE n
Exponent(x) == x.exp + Len(DigitsOf(x.mant)) - 1

\* The cache of a number asked to carry its digits.
Filled(n) ==
  CASE n.kind # "float" -> Cache(DigitsOf(Magnitude(n.value)), 0, IntegerCapacity)
    [] n.kind = "float" /\ n.class = "finite" /\ n.mant # 0 ->
         Cache(DigitsOf(n.mant), Exponent(n), FloatCapacity)
    [] OTHER -> NoCache

\* Rendering without a cache.
Formatted(n, precision) ==
  CASE n.kind # "float" -> Sign(n.value < 0) \o DigitsOf(Magnitude(n.value))
    [] n.kind = "float" /\ n.class = "nan" -> <<"nan">>
    [] n.kind = "float" /\ n.class = "inf" -> Sign(n.negative) \o <<"inf">>
    [] n.kind = "float" /\ n.class = "finite" /\ n.mant = 0 -> <<"0">>
    [] OTHER -> Presented(DigitsOf(n.mant), Exponent(n), n.negative, precision)

\* Rendering a number that carries the cache.
Rendered(n, cache, precision) ==
  CASE cache = NoCache -> Formatted(n, precision)
    [] cache # NoCache /\ n.kind = "float" ->
         Presented(cache.digits, cache.exp, n.negative, precision)
    [] OTHER -> Sign(n.value < 0) \o cache.digits
=============================================================================
