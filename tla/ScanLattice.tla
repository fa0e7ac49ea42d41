---------------------------- MODULE ScanLattice ----------------------------
(***************************************************************************)
(* The scan lattice of core/src/string.rs (mod scan): what a cached state  *)
(* asserts of the bytes, how two true assertions are merged, and how an    *)
(* append or a slice carries an assertion over to new bytes.               *)
(***************************************************************************)
EXTENDS Integers, Sequences, FiniteSets, Encoding

Terminal == {"Ascii", "Utf8Latin1", "Utf8NonLatin1", "ExtendedUtf8", "MalformedUtf8"}

ScanState == Terminal \cup
    {"Unknown", "ValidUtf8", "Utf8NonAscii", "NonAscii",
     "MaybeUtf8Latin1", "MaybeExtendedUtf8", "PerlValidNonAscii"}

ValidRange == {"Ascii", "Utf8Latin1", "Utf8NonLatin1"}

IsRustValid(s) ==
    s \in {"Ascii", "Utf8Latin1", "MaybeUtf8Latin1", "Utf8NonLatin1", "ValidUtf8", "Utf8NonAscii"}

IsPerlDecodable(s) ==
    IsRustValid(s) \/ s \in {"ExtendedUtf8", "MaybeExtendedUtf8", "PerlValidNonAscii"}

IsKnownLatin1Range(s) == s \in {"Ascii", "Utf8Latin1", "MaybeUtf8Latin1"}

IsKnownNonAscii(s) ==
    s \notin {"Unknown", "Ascii", "ValidUtf8", "MaybeUtf8Latin1", "MaybeExtendedUtf8"}

IsKnownBeyondLatin1(s) == s \in {"Utf8NonLatin1", "ExtendedUtf8"}

-----------------------------------------------------------------------------
(* The assertion set of a state, and the meet of two states.               *)

Fact == {"RUST_VALID", "PERL_VALID", "ALL_LE_00FF", "CONTAINS_GE_0080", "CONTAINS_GE_0100",
         "RUST_INVALID", "MALFORMED", "HIGH_BIT", "ALL_ASCII"}

Facts(s) ==
    [ Unknown |-> {},
      PerlValidNonAscii |-> {"PERL_VALID", "HIGH_BIT"},
      Ascii |-> {"RUST_VALID", "PERL_VALID", "ALL_LE_00FF", "ALL_ASCII"},
      Utf8Latin1 |-> {"RUST_VALID", "PERL_VALID", "ALL_LE_00FF", "CONTAINS_GE_0080"},
      MaybeUtf8Latin1 |-> {"RUST_VALID", "PERL_VALID", "ALL_LE_00FF"},
      Utf8NonLatin1 |-> {"RUST_VALID", "PERL_VALID", "CONTAINS_GE_0100"},
      ValidUtf8 |-> {"RUST_VALID", "PERL_VALID"},
      Utf8NonAscii |-> {"RUST_VALID", "PERL_VALID", "CONTAINS_GE_0080"},
      ExtendedUtf8 |-> {"PERL_VALID", "RUST_INVALID"},
      MaybeExtendedUtf8 |-> {"PERL_VALID"},
      MalformedUtf8 |-> {"MALFORMED"},
      NonAscii |-> {"HIGH_BIT"} ][s]

\* The derivations meet closes a union of facts under.
Derived(f) ==
    f \cup (IF \/ {"RUST_VALID", "HIGH_BIT"} \subseteq f
               \/ f \cap {"CONTAINS_GE_0100", "RUST_INVALID"} # {}
            THEN {"CONTAINS_GE_0080"} ELSE {})

\* The contradiction census: what two truths of the same bytes never union to.
Contradiction(f) ==
    \/ {"MALFORMED", "PERL_VALID"} \subseteq f
    \/ {"RUST_VALID", "RUST_INVALID"} \subseteq f
    \/ "ALL_ASCII" \in f /\ f \cap {"HIGH_BIT", "CONTAINS_GE_0080"} # {}
    \/ {"ALL_LE_00FF", "CONTAINS_GE_0100"} \subseteq f

\* The most precise state a closed set of facts certifies; malformed first.
Canonical(f) ==
    IF "MALFORMED" \in f THEN "MalformedUtf8"
    ELSE IF "RUST_INVALID" \in f THEN "ExtendedUtf8"
    ELSE IF "RUST_VALID" \in f THEN
        IF "ALL_ASCII" \in f THEN "Ascii"
        ELSE IF "CONTAINS_GE_0100" \in f THEN "Utf8NonLatin1"
        ELSE IF "ALL_LE_00FF" \in f THEN
            IF "CONTAINS_GE_0080" \in f THEN "Utf8Latin1" ELSE "MaybeUtf8Latin1"
        ELSE IF "CONTAINS_GE_0080" \in f THEN "Utf8NonAscii" ELSE "ValidUtf8"
    ELSE IF "PERL_VALID" \in f THEN
        IF "HIGH_BIT" \in f THEN "PerlValidNonAscii" ELSE "MaybeExtendedUtf8"
    ELSE IF "HIGH_BIT" \in f THEN "NonAscii" ELSE "Unknown"

Meet(s, t) == Canonical(Derived(Facts(s) \cup Facts(t)))

-----------------------------------------------------------------------------
(* What a state means: the classes of byte content it is true of.          *)

Admits(s) ==
    IF s \in Terminal THEN {s}
    ELSE [ Unknown |-> Terminal,
           ValidUtf8 |-> {"Ascii", "Utf8Latin1", "Utf8NonLatin1"},
           Utf8NonAscii |-> {"Utf8Latin1", "Utf8NonLatin1"},
           MaybeUtf8Latin1 |-> {"Ascii", "Utf8Latin1"},
           NonAscii |-> Terminal \ {"Ascii"},
           MaybeExtendedUtf8 |-> Terminal \ {"MalformedUtf8"},
           PerlValidNonAscii |-> Terminal \ {"MalformedUtf8", "Ascii"} ][s]

\* s is true of the bytes b.
TrueOf(s, b) == Classify(b) \in Admits(s)

\* t says at least what s says.
Narrows(t, s) == Admits(t) \subseteq Admits(s)

-----------------------------------------------------------------------------
(* Appending: the state of the joined bytes from the prior state and what  *)
(* is known of the addition.  A kind is a range of the valid chain, or     *)
(* "Unknown".                                                              *)

AppendKind == ValidRange \cup {"Unknown"}

\* The range join: Ascii < Utf8Latin1 < Utf8NonLatin1.
Join(r, q) ==
    IF "Utf8NonLatin1" \in {r, q} THEN "Utf8NonLatin1"
    ELSE IF "Utf8Latin1" \in {r, q} THEN "Utf8Latin1" ELSE "Ascii"

AppendTransition(prior, kind) ==
    CASE kind = "Unknown" -> "Unknown"
      [] kind = "Ascii" -> prior
      [] kind \notin {"Unknown", "Ascii"} /\ prior \in ValidRange -> Join(prior, kind)
      [] kind \notin {"Unknown", "Ascii"} /\ prior \in {"ValidUtf8", "Utf8NonAscii"} ->
            IF kind = "Utf8NonLatin1" THEN "Utf8NonLatin1" ELSE "Utf8NonAscii"
      [] kind \notin {"Unknown", "Ascii"} /\ prior = "MaybeUtf8Latin1" ->
            IF kind = "Utf8NonLatin1" THEN "Utf8NonLatin1" ELSE "Utf8Latin1"
      [] kind \notin {"Unknown", "Ascii"}
            /\ prior \in {"ExtendedUtf8", "MaybeExtendedUtf8", "PerlValidNonAscii"} -> prior
      [] OTHER -> "Unknown"

\* The kind push_bytes gives an addition: only all-ASCII bytes are known.
KindOfBytes(b) == IF IsAsciiOnly(b) THEN "Ascii" ELSE "Unknown"

-----------------------------------------------------------------------------
(* Slicing: the state a view is born with.  Offsets are zero-based.        *)

CutIsClean(b, offset, len) ==
    /\ offset = 0 \/ offset >= Len(b) \/ b[offset + 1] # "c"
    /\ offset + len >= Len(b) \/ b[offset + len + 1] # "c"

\* Fault: a clean cut inherits the witness with the range.
SliceBirthInherits(parent, clean) ==
    IF clean THEN parent
    ELSE IF parent = "Ascii" THEN "Ascii"
    ELSE IF parent \in {"Unknown", "NonAscii", "MalformedUtf8"} THEN "Unknown"
    ELSE "MalformedUtf8"

SliceBirth(parent, clean) ==
    IF clean THEN
        CASE parent = "Ascii" -> "Ascii"
          [] parent \in {"Utf8Latin1", "MaybeUtf8Latin1"} -> "MaybeUtf8Latin1"
          [] parent \in {"Utf8NonLatin1", "Utf8NonAscii", "ValidUtf8"} -> "ValidUtf8"
          [] parent \in {"ExtendedUtf8", "MaybeExtendedUtf8", "PerlValidNonAscii"} -> "MaybeExtendedUtf8"
          [] OTHER -> "Unknown"
    ELSE
        CASE parent = "Ascii" -> "Ascii"
          [] parent \in {"Unknown", "NonAscii", "MalformedUtf8"} -> "Unknown"
          [] OTHER -> "MalformedUtf8"

Slice(b, offset, len) == SubSeq(b, offset + 1, offset + len)

\* below: the view is under SLICE_EAGER_FLOOR and classifies at birth.
ViewBirthState(parent, b, offset, len, below) ==
    LET table == SliceBirth(parent, CutIsClean(b, offset, len))
    IN  IF below /\ table \notin {"Ascii", "MalformedUtf8"}
        THEN Classify(Slice(b, offset, len)) ELSE table

=============================================================================
