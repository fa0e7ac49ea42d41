------------------------------ MODULE Encoding ------------------------------
(***************************************************************************)
(* The byte-level facts every other string module is judged against: what  *)
(* classify_full says of a sequence of bytes, and what upgrading and       *)
(* contracting do to it.                                                   *)
(*                                                                         *)
(* Bytes are abstracted to the five classes those walks tell apart:        *)
(*   "a"  0x00-0x7F                                                        *)
(*   "c"  a continuation byte 0x80-0xBF                                    *)
(*   "l"  0xC2 or 0xC3, the lead of U+0080-U+00FF                          *)
(*   "h"  a lead of a code point at or above U+0100 that Rust accepts      *)
(*   "x"  a lead of a form perl decodes and Rust rejects                   *)
(* A multi-byte sequence is a lead and one continuation byte: the longer   *)
(* forms differ in length only, which no property here depends on.         *)
(***************************************************************************)
EXTENDS Integers, Sequences, FiniteSets

Byte == {"a", "c", "l", "h", "x"}
Lead == {"l", "h", "x"}
HighBit == Byte \ {"a"}

\* The bytes that occur in b.
BytesOf(b) == {b[i] : i \in DOMAIN b}

\* Every lead has its continuation and every continuation its lead: perl's
\* extended validity (overlong forms have no representative here).
IsPerlValid(b) ==
    \A i \in DOMAIN b :
        /\ b[i] \in Lead => i < Len(b) /\ b[i + 1] = "c"
        /\ b[i] = "c" => i > 1 /\ b[i - 1] \in Lead

\* The terminal state a full classification lands on.
Classify(b) ==
    CASE ~IsPerlValid(b) -> "MalformedUtf8"
      [] IsPerlValid(b) /\ "x" \in BytesOf(b) -> "ExtendedUtf8"
      [] IsPerlValid(b) /\ "x" \notin BytesOf(b) /\ "h" \in BytesOf(b) -> "Utf8NonLatin1"
      [] IsPerlValid(b) /\ BytesOf(b) \cap {"x", "h"} = {} /\ "l" \in BytesOf(b) -> "Utf8Latin1"
      [] OTHER -> "Ascii"

\* The character count that comes with it; zero when the bytes are malformed.
Chars(b) ==
    IF IsPerlValid(b) THEN Cardinality({i \in DOMAIN b : b[i] # "c"}) ELSE 0

IsAsciiOnly(b) == BytesOf(b) \subseteq {"a"}

\* The characters below U+0100 that a flagged string contracts to octets:
\* every high byte belongs to an "l" sequence.
Contractible(b) == IsPerlValid(b) /\ BytesOf(b) \subseteq {"a", "l", "c"}

\* The results of contracting b: one octet per character, an ASCII character
\* staying itself and a character of U+0080-U+00FF becoming any high octet.
Contractions(b) ==
    LET starts == {i \in DOMAIN b : b[i] # "c"}
        nth(n) == CHOOSE i \in starts : Cardinality({j \in starts : j <= i}) = n
    IN  {d \in [1 .. Cardinality(starts) -> Byte] :
            \A n \in DOMAIN d : (d[n] = "a") <=> (b[nth(n)] = "a")}

\* The result of upgrading b: each high octet becomes a two-byte sequence.
Expansion(b) ==
    LET width(i) == IF b[i] = "a" THEN 1 ELSE 2
        offset(i) == i - 1 + Cardinality({j \in 1 .. i - 1 : b[j] # "a"})
        total == Len(b) + Cardinality({j \in DOMAIN b : b[j] # "a"})
    IN  [k \in 1 .. total |->
            LET i == CHOOSE i \in DOMAIN b : offset(i) < k /\ k <= offset(i) + width(i)
            IN  IF b[i] = "a" THEN "a" ELSE IF k = offset(i) + 1 THEN "l" ELSE "c"]

=============================================================================
