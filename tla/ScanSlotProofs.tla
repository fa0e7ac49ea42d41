--------------------------- MODULE ScanSlotProofs ---------------------------
(***************************************************************************)
(* What the two caches of a shared buffer say is true of its bytes, for    *)
(* any number of threads, any length of the buffer and any number of       *)
(* views.                                                                  *)
(*                                                                         *)
(* The slot's history carries the argument: every state the slot held      *)
(* since the bytes last changed is true of them, and the state it holds    *)
(* now narrows each of those.  So whichever of them a relaxed load returns *)
(* meets the reader's certificate in a true state, the compare-exchange    *)
(* installs one that narrows them all, and a merge that changes nothing    *)
(* shows that the slot already narrows the certificate.                    *)
(***************************************************************************)
EXTENDS ScanSlot, ScanLattice, SequenceTheorems, FiniteSetTheorems,
    FunctionTheorems, WellFoundedInduction, TLAPS

-----------------------------------------------------------------------------
(***************************************************************************)
(* What the algebra of the scan lattice guarantees, for every pair of      *)
(* states and all bytes: the meet of two true states is true and forfeits  *)
(* nothing, so the order in which racing readers merge theirs does not     *)
(* matter; and what an append, a slice or an upgrade makes of a true state *)
(* is true of the bytes it makes.                                          *)
(*                                                                         *)
(* The argument for the meet goes through the facts that hold of a class   *)
(* of bytes: a state admits a class exactly when the class has the state's *)
(* facts, and neither the derivations nor the canonicalization of a union  *)
(* of facts changes which classes have them all.  The rest rests on what   *)
(* joining, cutting and expanding do to the validity of bytes, and on the  *)
(* leads they hold.                                                        *)
(***************************************************************************)

\* Everything that holds of bytes of class c.
Truths(c) ==
    [ Ascii |-> {"RUST_VALID", "PERL_VALID", "ALL_LE_00FF", "ALL_ASCII"},
      Utf8Latin1 |-> {"RUST_VALID", "PERL_VALID", "ALL_LE_00FF", "CONTAINS_GE_0080", "HIGH_BIT"},
      Utf8NonLatin1 |-> {"RUST_VALID", "PERL_VALID", "CONTAINS_GE_0080", "CONTAINS_GE_0100", "HIGH_BIT"},
      ExtendedUtf8 |-> {"PERL_VALID", "RUST_INVALID", "CONTAINS_GE_0080", "CONTAINS_GE_0100", "HIGH_BIT"},
      MalformedUtf8 |-> {"MALFORMED", "HIGH_BIT"} ][c]

\* The shape of every union of assertion sets: what asserts more asserts the
\* validity it rests on.
WellFormed(f) ==
    /\ f \subseteq Fact
    /\ f \cap {"ALL_ASCII", "ALL_LE_00FF", "CONTAINS_GE_0080", "CONTAINS_GE_0100"} # {} => "RUST_VALID" \in f
    /\ "ALL_ASCII" \in f => "ALL_LE_00FF" \in f
    /\ "RUST_VALID" \in f \/ "RUST_INVALID" \in f => "PERL_VALID" \in f

\* A state admits a class exactly when its assertion set holds of the class.
LEMMA AdmitsByFacts ==
    ASSUME NEW s \in ScanState, NEW c \in Terminal
    PROVE  c \in Admits(s) <=> Facts(s) \subseteq Truths(c)
  <1>1. CASE c = "Ascii"
    BY <1>1 DEF ScanState, Terminal, Admits, Facts, Truths
  <1>2. CASE c = "Utf8Latin1"
    BY <1>2 DEF ScanState, Terminal, Admits, Facts, Truths
  <1>3. CASE c = "Utf8NonLatin1"
    BY <1>3 DEF ScanState, Terminal, Admits, Facts, Truths
  <1>4. CASE c = "ExtendedUtf8"
    BY <1>4 DEF ScanState, Terminal, Admits, Facts, Truths
  <1>5. CASE c = "MalformedUtf8"
    BY <1>5 DEF ScanState, Terminal, Admits, Facts, Truths
  <1> QED BY <1>1, <1>2, <1>3, <1>4, <1>5 DEF Terminal

\* The assertion set of a state is well formed.
LEMMA FactsWellFormed ==
    ASSUME NEW s \in ScanState
    PROVE  WellFormed(Facts(s))
  BY DEF ScanState, Terminal, Facts, WellFormed, Fact

\* The derivations add nothing to a class that was not true of it.
LEMMA DerivedSound ==
    ASSUME NEW f, NEW c \in Terminal
    PROVE  Derived(f) \subseteq Truths(c) <=> f \subseteq Truths(c)
  <1>1. {"RUST_VALID", "HIGH_BIT"} \subseteq Truths(c) => "CONTAINS_GE_0080" \in Truths(c)
    BY DEF Truths, Terminal
  <1>2. Truths(c) \cap {"CONTAINS_GE_0100", "RUST_INVALID"} # {} => "CONTAINS_GE_0080" \in Truths(c)
    BY DEF Truths, Terminal
  <1> QED BY <1>1, <1>2 DEF Derived

\* Canonicalizing a closed, consistent union of assertion sets changes no
\* class's verdict on it.
LEMMA CanonicalExact ==
    ASSUME NEW g, WellFormed(g), NEW c \in Terminal, NEW d \in Terminal,
           g \subseteq Truths(d)
    PROVE  /\ Canonical(Derived(g)) \in ScanState
           /\ Facts(Canonical(Derived(g))) \subseteq Truths(c) <=> g \subseteq Truths(c)
  <1> DEFINE f == Derived(g)
  <1>0. f \subseteq Truths(d) /\ (f \subseteq Truths(c) <=> g \subseteq Truths(c))
    BY DerivedSound
  <1>1. Canonical(f) \in ScanState
    BY DEF Canonical, ScanState, Terminal
  <1>2. Facts(Canonical(f)) \subseteq Truths(c) <=> f \subseteq Truths(c)
    <2>1. CASE d = "MalformedUtf8"
      BY <1>0, <2>1
      DEF Canonical, Derived, Facts, Truths, Terminal, WellFormed, Fact
    <2>2. CASE d = "ExtendedUtf8"
      BY <1>0, <2>2
      DEF Canonical, Derived, Facts, Truths, Terminal, WellFormed, Fact
    <2>3. CASE d = "Ascii"
      BY <1>0, <2>3
      DEF Canonical, Derived, Facts, Truths, Terminal, WellFormed, Fact
    <2>4. CASE d = "Utf8Latin1"
      BY <1>0, <2>4
      DEF Canonical, Derived, Facts, Truths, Terminal, WellFormed, Fact
    <2>5. CASE d = "Utf8NonLatin1"
      BY <1>0, <2>5
      DEF Canonical, Derived, Facts, Truths, Terminal, WellFormed, Fact
    <2> QED BY <2>1, <2>2, <2>3, <2>4, <2>5 DEF Terminal
  <1> QED BY <1>0, <1>1, <1>2

\* The meet of two states admits exactly the classes both admit, whenever
\* there is one: "every union of true certifications lands exactly" (the
\* narrowing meet of core/src/string.rs).
THEOREM MeetExact ==
    ASSUME NEW s \in ScanState, NEW t \in ScanState,
           Admits(s) \cap Admits(t) # {}
    PROVE  /\ Meet(s, t) \in ScanState
           /\ Admits(Meet(s, t)) = Admits(s) \cap Admits(t)
  <1> DEFINE g == Facts(s) \cup Facts(t)
  <1>1. \A u \in ScanState : Admits(u) \subseteq Terminal
    BY DEF Admits, ScanState, Terminal
  <1>2. PICK d \in Terminal : d \in Admits(s) /\ d \in Admits(t)
    BY <1>1
  <1>3. g \subseteq Truths(d)
    BY <1>2, AdmitsByFacts
  <1>4. WellFormed(g)
    <2>1. WellFormed(Facts(s)) /\ WellFormed(Facts(t))
      BY FactsWellFormed
    <2> QED BY <2>1 DEF WellFormed
  <1>5. Meet(s, t) \in ScanState
    BY <1>3, <1>4, CanonicalExact DEF Meet
  <1>6. ASSUME NEW c \in Terminal
        PROVE  c \in Admits(Meet(s, t)) <=> c \in Admits(s) /\ c \in Admits(t)
    <2>1. c \in Admits(Meet(s, t)) <=> Facts(Meet(s, t)) \subseteq Truths(c)
      BY <1>5, AdmitsByFacts
    <2>2. Facts(Meet(s, t)) \subseteq Truths(c) <=> g \subseteq Truths(c)
      BY <1>3, <1>4, CanonicalExact DEF Meet
    <2>3. g \subseteq Truths(c) <=> c \in Admits(s) /\ c \in Admits(t)
      BY AdmitsByFacts
    <2> QED BY <2>1, <2>2, <2>3
  <1> QED BY <1>1, <1>5, <1>6

-----------------------------------------------------------------------------
(* The classes of bytes.                                                   *)

\* Bytes are ASCII only exactly when they are valid and hold no lead.
LEMMA AsciiIsValid ==
    ASSUME NEW b \in Seq(Byte)
    PROVE  IsAsciiOnly(b) <=> IsPerlValid(b) /\ BytesOf(b) \cap {"x", "h", "l"} = {}
  <1>1. \A i \in DOMAIN b : b[i] \in Byte /\ i \in Nat
    OBVIOUS
  <1>2. ASSUME IsAsciiOnly(b) PROVE IsPerlValid(b) /\ BytesOf(b) \cap {"x", "h", "l"} = {}
    <2>1. \A i \in DOMAIN b : b[i] = "a"
      BY <1>2 DEF IsAsciiOnly, BytesOf
    <2>2. QED
      BY <2>1 DEF IsPerlValid, BytesOf, Lead
  <1>3. ASSUME IsPerlValid(b), BytesOf(b) \cap {"x", "h", "l"} = {} PROVE IsAsciiOnly(b)
    <2>1. \A i \in DOMAIN b : b[i] \notin Lead
      BY <1>3 DEF BytesOf, Lead
    <2>2. ASSUME NEW i \in DOMAIN b PROVE b[i] = "a"
      <3>1. b[i] # "c"
        <4>1. SUFFICES ASSUME b[i] = "c" PROVE FALSE
          OBVIOUS
        <4>2. i > 1 /\ b[i - 1] \in Lead
          BY <1>3, <4>1 DEF IsPerlValid
        <4>3. i - 1 \in DOMAIN b
          BY <4>2
        <4>4. QED
          BY <2>1, <4>2, <4>3
      <3>2. QED
        BY <1>1, <2>1, <3>1 DEF Byte, Lead
    <2>3. QED
      BY <2>2 DEF IsAsciiOnly, BytesOf
  <1>4. QED
    BY <1>2, <1>3

\* What the class of bytes says.
LEMMA Classes ==
    ASSUME NEW b \in Seq(Byte)
    PROVE  /\ Classify(b) \in Terminal
           /\ Classify(b) = "MalformedUtf8" <=> ~IsPerlValid(b)
           /\ Classify(b) = "ExtendedUtf8" <=> IsPerlValid(b) /\ "x" \in BytesOf(b)
           /\ Classify(b) = "Utf8NonLatin1" <=> IsPerlValid(b) /\ "x" \notin BytesOf(b) /\ "h" \in BytesOf(b)
           /\ Classify(b) = "Utf8Latin1" <=>
                IsPerlValid(b) /\ BytesOf(b) \cap {"x", "h"} = {} /\ "l" \in BytesOf(b)
           /\ Classify(b) = "Ascii" <=> IsAsciiOnly(b)
  <1>1. IsAsciiOnly(b) <=> IsPerlValid(b) /\ "x" \notin BytesOf(b) /\ "h" \notin BytesOf(b) /\ "l" \notin BytesOf(b)
    BY AsciiIsValid
  <1> DEFINE v == IsPerlValid(b)
             x == "x" \in BytesOf(b)
             h == "h" \in BytesOf(b)
             l == "l" \in BytesOf(b)
  <1>2. BytesOf(b) \cap {"x", "h"} = {} <=> ~x /\ ~h
    OBVIOUS
  <1>3. Classify(b) = CASE ~v -> "MalformedUtf8"
                        [] v /\ x -> "ExtendedUtf8"
                        [] v /\ ~x /\ h -> "Utf8NonLatin1"
                        [] v /\ (~x /\ ~h) /\ l -> "Utf8Latin1"
                        [] OTHER -> "Ascii"
    BY <1>2 DEF Classify
  <1> HIDE DEF v, x, h, l
  <1>4. CASE ~v
    <2>1. Classify(b) = "MalformedUtf8"
      BY <1>3, <1>4
    <2>2. QED
      BY <1>1, <1>2, <1>4, <2>1 DEF Terminal, v, x, h, l
  <1>5. CASE v /\ x
    <2>1. Classify(b) = "ExtendedUtf8"
      BY <1>3, <1>5
    <2>2. QED
      BY <1>1, <1>2, <1>5, <2>1 DEF Terminal, v, x, h, l
  <1>6. CASE v /\ ~x /\ h
    <2>1. Classify(b) = "Utf8NonLatin1"
      BY <1>3, <1>6
    <2>2. QED
      BY <1>1, <1>2, <1>6, <2>1 DEF Terminal, v, x, h, l
  <1>7. CASE v /\ ~x /\ ~h /\ l
    <2>1. Classify(b) = "Utf8Latin1"
      BY <1>3, <1>7
    <2>2. QED
      BY <1>1, <1>2, <1>7, <2>1 DEF Terminal, v, x, h, l
  <1>8. CASE v /\ ~x /\ ~h /\ ~l
    <2>1. Classify(b) = "Ascii"
      BY <1>3, <1>8
    <2>2. QED
      BY <1>1, <1>2, <1>8, <2>1 DEF Terminal, v, x, h, l
  <1>9. QED
    BY <1>4, <1>5, <1>6, <1>7, <1>8

\* Bytes joined end to end.
LEMMA JoinedBytes ==
    ASSUME NEW b \in Seq(Byte), NEW d \in Seq(Byte)
    PROVE  /\ b \o d \in Seq(Byte)
           /\ BytesOf(b \o d) = BytesOf(b) \cup BytesOf(d)
           /\ IsPerlValid(b) /\ IsPerlValid(d) => IsPerlValid(b \o d)
           /\ IsPerlValid(b \o d) /\ IsAsciiOnly(d) => IsPerlValid(b)
  <1> DEFINE e == b \o d
             m == Len(b)
             n == Len(d)
  <1>1. /\ m \in Nat /\ n \in Nat /\ DOMAIN b = 1 .. m /\ DOMAIN d = 1 .. n
        /\ e \in Seq(Byte) /\ Len(e) = m + n /\ DOMAIN e = 1 .. m + n
    OBVIOUS
  <1>2. (\A i \in 1 .. m : e[i] = b[i]) /\ \A i \in 1 .. n : e[m + i] = d[i]
    BY <1>1
  <1> HIDE DEF e, m, n
  <1>3. BytesOf(e) = BytesOf(b) \cup BytesOf(d)
    <2>1. ASSUME NEW i \in 1 .. m + n PROVE e[i] \in BytesOf(b) \cup BytesOf(d)
      <3>1. CASE i <= m
        <4>1. i \in 1 .. m /\ i \in DOMAIN b
          BY <1>1, <3>1
        <4>2. e[i] = b[i] /\ b[i] \in BytesOf(b)
          BY <1>2, <4>1 DEF BytesOf
        <4>3. QED
          BY <4>2
      <3>2. CASE i > m
        <4>1. PICK j \in 1 .. n : i = m + j
          BY <1>1, <3>2
        <4>2. e[i] = d[j]
          BY <1>2, <4>1
        <4>3. QED
          BY <1>1, <4>2 DEF BytesOf
      <3>3. QED
        BY <1>1, <3>1, <3>2
    <2>2. ASSUME NEW i \in 1 .. m PROVE b[i] \in BytesOf(e)
      BY <1>1, <1>2 DEF BytesOf
    <2>3. ASSUME NEW i \in 1 .. n PROVE d[i] \in BytesOf(e)
      <3>1. m + i \in DOMAIN e /\ e[m + i] = d[i]
        BY <1>1, <1>2
      <3>2. QED
        BY <3>1 DEF BytesOf
    <2>4. BytesOf(e) \subseteq BytesOf(b) \cup BytesOf(d)
      BY <1>1, <2>1 DEF BytesOf
    <2>5. BytesOf(b) \subseteq BytesOf(e)
      BY <1>1, <2>2 DEF BytesOf
    <2>6. BytesOf(d) \subseteq BytesOf(e)
      BY <1>1, <2>3 DEF BytesOf
    <2>7. QED
      BY <2>4, <2>5, <2>6
  <1>4. ASSUME IsPerlValid(b), IsPerlValid(d) PROVE IsPerlValid(e)
    <2>1. ASSUME NEW i \in 1 .. m + n
          PROVE  /\ e[i] \in Lead => i < m + n /\ e[i + 1] = "c"
                 /\ e[i] = "c" => i > 1 /\ e[i - 1] \in Lead
      <3>1. CASE i <= m
        <4>1. i \in 1 .. m /\ e[i] = b[i]
          BY <1>1, <1>2, <3>1
        <4>2. /\ b[i] \in Lead => i < m /\ b[i + 1] = "c"
              /\ b[i] = "c" => i > 1 /\ b[i - 1] \in Lead
          BY <1>1, <1>4, <4>1 DEF IsPerlValid, m, n
        <4>3. i < m => e[i + 1] = b[i + 1] /\ i < m + n
          BY <1>1, <1>2, <4>1
        <4>4. i > 1 => e[i - 1] = b[i - 1]
          BY <1>1, <1>2, <4>1
        <4>5. QED
          BY <4>1, <4>2, <4>3, <4>4
      <3>2. CASE i > m
        <4> DEFINE j == i - m
        <4>1. j \in 1 .. n /\ i = m + j
          BY <1>1, <3>2
        <4> HIDE DEF j
        <4>2. e[i] = d[j]
          BY <1>2, <4>1
        <4>3. /\ d[j] \in Lead => j < n /\ d[j + 1] = "c"
              /\ d[j] = "c" => j > 1 /\ d[j - 1] \in Lead
          BY <1>1, <1>4, <4>1 DEF IsPerlValid, m, n
        <4>4. j < n => i < m + n /\ e[i + 1] = d[j + 1]
          <5>1. j < n => j + 1 \in 1 .. n /\ i + 1 = m + (j + 1) /\ i < m + n
            BY <1>1, <4>1
          <5>2. QED
            BY <1>2, <5>1
        <4>5. j > 1 => i > 1 /\ e[i - 1] = d[j - 1]
          <5>1. j > 1 => j - 1 \in 1 .. n /\ i - 1 = m + (j - 1) /\ i > 1
            BY <1>1, <4>1
          <5>2. QED
            BY <1>2, <5>1
        <4>6. QED
          BY <4>2, <4>3, <4>4, <4>5
      <3>3. QED
        BY <1>1, <3>1, <3>2
    <2>2. QED
      BY <1>1, <2>1 DEF IsPerlValid
  <1>5. ASSUME IsPerlValid(e), IsAsciiOnly(d) PROVE IsPerlValid(b)
    <2>1. ASSUME NEW i \in 1 .. m
          PROVE  /\ b[i] \in Lead => i < m /\ b[i + 1] = "c"
                 /\ b[i] = "c" => i > 1 /\ b[i - 1] \in Lead
      <3>0. i \in DOMAIN e
        BY <1>1
      <3>1. /\ e[i] \in Lead => i < m + n /\ e[i + 1] = "c"
            /\ e[i] = "c" => i > 1 /\ e[i - 1] \in Lead
        BY <1>1, <1>5, <3>0 DEF IsPerlValid
      <3>2. e[i] = b[i] /\ (i > 1 => e[i - 1] = b[i - 1]) /\ (i < m => e[i + 1] = b[i + 1])
        BY <1>1, <1>2
      <3>3. ~(i = m /\ e[i] \in Lead)
        <4>1. SUFFICES ASSUME i = m, e[i] \in Lead PROVE FALSE
          OBVIOUS
        <4>2. 1 \in 1 .. n /\ e[m + 1] = d[1] /\ e[m + 1] = "c"
          BY <1>1, <1>2, <3>1, <4>1
        <4>3. d[1] = "a"
          BY <1>1, <1>5, <4>2 DEF IsAsciiOnly, BytesOf
        <4>4. QED
          BY <4>2, <4>3
      <3>4. b[i] \in Lead => i < m
        BY <1>1, <3>2, <3>3
      <3>5. QED
        BY <1>1, <3>1, <3>2, <3>4
    <2>2. QED
      BY <1>1, <2>1 DEF IsPerlValid, m
  <1>6. QED
    BY <1>1, <1>3, <1>4, <1>5 DEF e

\* A piece of valid bytes.
LEMMA SlicedBytes ==
    ASSUME NEW b \in Seq(Byte), NEW o \in Nat, NEW n \in Nat \ {0}, o + n <= Len(b)
    PROVE  /\ Slice(b, o, n) \in Seq(Byte) /\ Len(Slice(b, o, n)) = n
           /\ BytesOf(Slice(b, o, n)) \subseteq BytesOf(b)
           /\ IsPerlValid(b) => (IsPerlValid(Slice(b, o, n)) <=> CutIsClean(b, o, n))
  <1> DEFINE s == Slice(b, o, n)
             m == Len(b)
  <1>1. m \in Nat /\ DOMAIN b = 1 .. m /\ o + n <= m /\ \A i \in 1 .. m : b[i] \in Byte
    OBVIOUS
  <1>2. /\ s \in Seq(Byte) /\ Len(s) = n /\ DOMAIN s = 1 .. n
        /\ \A i \in 1 .. n : s[i] = b[o + i] /\ o + i \in 1 .. m
    <2>1. \A i \in o + 1 .. o + n : b[i] \in Byte
      BY <1>1
    <2>2. o + 1 \in Int /\ o + n \in Int /\ o + 1 <= o + n
      OBVIOUS
    <2>3. /\ SubSeq(b, o + 1, o + n) \in Seq(Byte) /\ Len(SubSeq(b, o + 1, o + n)) = o + n - (o + 1) + 1
          /\ \A i \in 1 .. o + n - (o + 1) + 1 : SubSeq(b, o + 1, o + n)[i] = b[o + 1 + i - 1]
      BY <2>1, <2>2, SubSeqProperties
    <2>4. o + n - (o + 1) + 1 = n /\ \A i \in 1 .. n : o + 1 + i - 1 = o + i /\ o + i \in 1 .. m
      BY <1>1
    <2>5. QED
      BY <2>3, <2>4 DEF Slice
  <1> HIDE DEF s
  <1>3. BytesOf(s) \subseteq BytesOf(b)
    BY <1>1, <1>2 DEF BytesOf
  <1>4. CutIsClean(b, o, n) <=> (o = 0 \/ b[o + 1] # "c") /\ (o + n = m \/ b[o + n + 1] # "c")
    <2>1. Len(b) = m /\ m \in Nat /\ o + n <= m
      BY <1>1
    <2> HIDE DEF m
    <2>3. ~(o >= m) /\ (o + n >= m => o + n = m) /\ (o + n = m => o + n >= m)
      BY <2>1
    <2>2. QED
      BY <2>1, <2>3 DEF CutIsClean
  <1> HIDE DEF m
  <1>5. ASSUME IsPerlValid(b)
        PROVE  \A i \in 1 .. m : /\ b[i] \in Lead => i < m /\ b[i + 1] = "c"
                                 /\ b[i] = "c" => i > 1 /\ b[i - 1] \in Lead
    BY <1>1, <1>5 DEF IsPerlValid, m
  <1>6. ASSUME IsPerlValid(b), CutIsClean(b, o, n) PROVE IsPerlValid(s)
    <2>1. ASSUME NEW i \in 1 .. n, s[i] \in Lead PROVE i < n /\ s[i + 1] = "c"
      <3>1. PICK k \in 1 .. m : k = o + i
        BY <1>2
      <3>2. b[k] \in Lead
        BY <1>2, <2>1, <3>1
      <3>3. k < m /\ b[k + 1] = "c"
        BY <1>1, <1>5, <1>6, <3>2
      <3>4. i # n
        <4>1. SUFFICES ASSUME i = n PROVE FALSE
          OBVIOUS
        <4>2. o + n < m /\ b[o + n + 1] = "c"
          BY <3>1, <3>3, <4>1
        <4>3. QED
          BY <1>1, <1>4, <1>6, <4>2
      <3>5. i + 1 \in 1 .. n /\ i < n /\ o + (i + 1) = k + 1
        BY <3>1, <3>4
      <3>6. s[i + 1] = b[o + (i + 1)]
        BY <1>2, <3>5
      <3>7. QED
        BY <3>3, <3>5, <3>6
    <2>2. ASSUME NEW i \in 1 .. n, s[i] = "c" PROVE i > 1 /\ s[i - 1] \in Lead
      <3>1. PICK k \in 1 .. m : k = o + i
        BY <1>2
      <3>2. b[k] = "c"
        BY <1>2, <2>2, <3>1
      <3>3. k > 1 /\ b[k - 1] \in Lead
        BY <1>1, <1>5, <1>6, <3>2
      <3>4. i # 1
        <4>1. SUFFICES ASSUME i = 1 PROVE FALSE
          OBVIOUS
        <4>2. b[o + 1] = "c" /\ o # 0
          BY <3>1, <3>2, <3>3, <4>1
        <4>3. QED
          BY <1>4, <1>6, <4>2
      <3>5. i - 1 \in 1 .. n /\ i > 1 /\ o + (i - 1) = k - 1
        BY <3>1, <3>4
      <3>6. s[i - 1] = b[o + (i - 1)]
        BY <1>2, <3>5
      <3>7. QED
        BY <3>3, <3>5, <3>6
    <2>3. QED
      BY <1>2, <2>1, <2>2 DEF IsPerlValid
  <1>7. ASSUME IsPerlValid(b), IsPerlValid(s) PROVE CutIsClean(b, o, n)
    <2>1. \A i \in 1 .. n : /\ s[i] \in Lead => i < n /\ s[i + 1] = "c"
                            /\ s[i] = "c" => i > 1 /\ s[i - 1] \in Lead
      BY <1>2, <1>7 DEF IsPerlValid
    <2>2. 1 \in 1 .. n /\ n \in 1 .. n /\ o + n \in Nat
      OBVIOUS
    <2>3. b[o + 1] # "c"
      <3>1. s[1] = b[o + 1]
        BY <1>2, <2>2
      <3>2. s[1] = "c" => 1 > 1
        BY Zenon, <2>1, <2>2
      <3>3. QED
        BY <3>1, <3>2
    <2>4. b[o + n] \notin Lead
      <3>1. s[n] = b[o + n]
        BY <1>2, <2>2
      <3>2. s[n] \in Lead => n < n
        BY Zenon, <2>1, <2>2
      <3>3. QED
        BY <3>1, <3>2
    <2>5. o + n = m \/ b[o + n + 1] # "c"
      <3>1. SUFFICES ASSUME o + n < m, b[o + n + 1] = "c" PROVE FALSE
        BY <1>1
      <3>2. PICK k \in 1 .. m : k = o + n + 1
        BY <1>1, <3>1
      <3>3. b[k] = "c"
        BY <3>1, <3>2
      <3>4. b[k - 1] \in Lead /\ k - 1 = o + n
        BY <1>1, <1>5, <1>7, <3>2, <3>3
      <3>5. QED
        BY <2>4, <3>4
    <2>6. QED
      BY <1>4, <2>3, <2>5
  <1>8. QED
    BY <1>2, <1>3, <1>6, <1>7 DEF s

\* The class of joined bytes.
LEMMA JoinedClass ==
    ASSUME NEW b \in Seq(Byte), NEW d \in Seq(Byte)
    PROVE  /\ Classify(d) = "Ascii" => Classify(b \o d) = Classify(b)
           /\ Classify(b) \in ValidRange /\ Classify(d) \in ValidRange =>
                Classify(b \o d) = Join(Classify(b), Classify(d))
           /\ Classify(b) = "ExtendedUtf8" /\ Classify(d) \in ValidRange => Classify(b \o d) = "ExtendedUtf8"
  <1> DEFINE e == b \o d
  <1>1. /\ e \in Seq(Byte) /\ BytesOf(e) = BytesOf(b) \cup BytesOf(d)
        /\ IsPerlValid(b) /\ IsPerlValid(d) => IsPerlValid(e)
        /\ IsPerlValid(e) /\ IsAsciiOnly(d) => IsPerlValid(b)
    BY JoinedBytes
  <1> HIDE DEF e
  <1>2. IsAsciiOnly(d) => IsPerlValid(d) /\ BytesOf(d) \cap {"x", "h", "l"} = {}
    BY AsciiIsValid
  <1>3. /\ Classify(e) \in Terminal
        /\ Classify(e) = "MalformedUtf8" <=> ~IsPerlValid(e)
        /\ Classify(e) = "ExtendedUtf8" <=> IsPerlValid(e) /\ "x" \in BytesOf(e)
        /\ Classify(e) = "Utf8NonLatin1" <=> IsPerlValid(e) /\ "x" \notin BytesOf(e) /\ "h" \in BytesOf(e)
        /\ Classify(e) = "Utf8Latin1" <=>
             IsPerlValid(e) /\ BytesOf(e) \cap {"x", "h"} = {} /\ "l" \in BytesOf(e)
        /\ Classify(e) = "Ascii" <=> IsAsciiOnly(e)
    BY <1>1, Classes
  <1>4. /\ Classify(b) \in Terminal
        /\ Classify(b) = "MalformedUtf8" <=> ~IsPerlValid(b)
        /\ Classify(b) = "ExtendedUtf8" <=> IsPerlValid(b) /\ "x" \in BytesOf(b)
        /\ Classify(b) = "Utf8NonLatin1" <=> IsPerlValid(b) /\ "x" \notin BytesOf(b) /\ "h" \in BytesOf(b)
        /\ Classify(b) = "Utf8Latin1" <=>
             IsPerlValid(b) /\ BytesOf(b) \cap {"x", "h"} = {} /\ "l" \in BytesOf(b)
        /\ Classify(b) = "Ascii" <=> IsAsciiOnly(b)
    BY Classes
  <1>5. /\ Classify(d) \in Terminal
        /\ Classify(d) = "MalformedUtf8" <=> ~IsPerlValid(d)
        /\ Classify(d) = "ExtendedUtf8" <=> IsPerlValid(d) /\ "x" \in BytesOf(d)
        /\ Classify(d) = "Utf8NonLatin1" <=> IsPerlValid(d) /\ "x" \notin BytesOf(d) /\ "h" \in BytesOf(d)
        /\ Classify(d) = "Utf8Latin1" <=>
             IsPerlValid(d) /\ BytesOf(d) \cap {"x", "h"} = {} /\ "l" \in BytesOf(d)
        /\ Classify(d) = "Ascii" <=> IsAsciiOnly(d)
    BY Classes
  <1>6. IsAsciiOnly(b) /\ IsAsciiOnly(d) <=> IsAsciiOnly(e)
    BY <1>1 DEF IsAsciiOnly
  <1> DEFINE cb == Classify(b)
             cd == Classify(d)
             ce == Classify(e)
  <1> HIDE DEF cb, cd, ce
  <1>7. ASSUME cd = "Ascii" PROVE ce = cb
    <2>1. IsAsciiOnly(d) /\ IsPerlValid(d) /\ BytesOf(d) \cap {"x", "h", "l"} = {}
      BY <1>2, <1>5, <1>7 DEF cd
    <2>2. (IsPerlValid(e) <=> IsPerlValid(b)) /\ (IsAsciiOnly(e) <=> IsAsciiOnly(b))
      BY <1>1, <1>6, <2>1
    <2>3. /\ "x" \in BytesOf(e) <=> "x" \in BytesOf(b)
          /\ "h" \in BytesOf(e) <=> "h" \in BytesOf(b)
          /\ "l" \in BytesOf(e) <=> "l" \in BytesOf(b)
      BY <1>1, <2>1
    <2>4. \A c \in Terminal : cb = c => ce = c
      BY <1>3, <1>4, <2>2, <2>3 DEF Terminal, cb, ce
    <2>5. QED
      BY <1>4, <2>4 DEF cb
  <1>8. ASSUME cb \in ValidRange, cd \in ValidRange PROVE ce = Join(cb, cd)
    <2>1. IsPerlValid(b) /\ IsPerlValid(d) /\ "x" \notin BytesOf(b) /\ "x" \notin BytesOf(d)
      BY <1>4, <1>5, <1>8, <1>2, AsciiIsValid DEF ValidRange, cb, cd
    <2>2. IsPerlValid(e) /\ "x" \notin BytesOf(e)
      BY <1>1, <2>1
    <2>3. CASE "Utf8NonLatin1" \in {cb, cd}
      <3>1. "h" \in BytesOf(e)
        BY <1>1, <1>4, <1>5, <2>3 DEF cb, cd
      <3>2. ce = "Utf8NonLatin1"
        BY <1>3, <2>2, <3>1 DEF ce
      <3>3. QED
        BY <2>3, <3>2 DEF Join
    <2>4. CASE "Utf8NonLatin1" \notin {cb, cd}
      <3>1. "h" \notin BytesOf(b) /\ "h" \notin BytesOf(d)
        BY <1>4, <1>5, <2>1, <2>4 DEF cb, cd
      <3>2. "h" \notin BytesOf(e)
        BY <1>1, <3>1
      <3>3. CASE "Utf8Latin1" \in {cb, cd}
        <4>1. "l" \in BytesOf(e)
          BY <1>1, <1>4, <1>5, <3>3 DEF cb, cd
        <4>2. ce = "Utf8Latin1"
          BY <1>3, <2>2, <3>2, <4>1 DEF ce
        <4>3. QED
          BY <2>4, <3>3, <4>2 DEF Join
      <3>4. CASE "Utf8Latin1" \notin {cb, cd}
        <4>1. cb = "Ascii" /\ cd = "Ascii"
          BY <1>8, <2>4, <3>4 DEF ValidRange
        <4>2. IsAsciiOnly(e)
          BY <1>4, <1>5, <1>6, <4>1 DEF cb, cd
        <4>3. ce = "Ascii"
          BY <1>3, <4>2 DEF ce
        <4>4. QED
          BY <4>1, <4>3 DEF Join
      <3>5. QED
        BY <3>3, <3>4
    <2>5. QED
      BY <2>3, <2>4
  <1>9. ASSUME cb = "ExtendedUtf8", cd \in ValidRange PROVE ce = "ExtendedUtf8"
    <2>1. IsPerlValid(b) /\ IsPerlValid(d) /\ "x" \in BytesOf(b)
      BY <1>4, <1>5, <1>9, <1>2 DEF ValidRange, cb, cd
    <2>2. QED
      BY <1>1, <1>3, <2>1 DEF ce
  <1>10. QED
    BY <1>7, <1>8, <1>9 DEF cb, cd, ce, e

\* What an append does to a cached state: if it was true of the bytes, the state
\* of the transition table is true of the joined bytes, whatever is added
\* (append_transition in core/src/string.rs).
THEOREM AppendSound ==
    ASSUME NEW b \in Seq(Byte), NEW d \in Seq(Byte), NEW s \in ScanState, TrueOf(s, b),
           NEW k \in AppendKind, k = "Unknown" \/ k = Classify(d)
    PROVE  AppendTransition(s, k) \in ScanState /\ TrueOf(AppendTransition(s, k), b \o d)
  <1> DEFINE cb == Classify(b)
             ce == Classify(b \o d)
  <1>1. cb \in Terminal /\ ce \in Terminal
    BY Classes, JoinedBytes
  <1>2. k # "Unknown" =>
          /\ k = "Ascii" => ce = cb
          /\ cb \in ValidRange => ce = Join(cb, k)
          /\ cb = "ExtendedUtf8" => ce = "ExtendedUtf8"
    BY JoinedClass DEF AppendKind
  <1>3. cb \in Admits(s)
    BY DEF TrueOf
  <1> HIDE DEF cb, ce
  <1>4. CASE k = "Unknown"
    BY <1>1, <1>4 DEF AppendTransition, TrueOf, Admits, ScanState, Terminal, ce
  <1>5. CASE k = "Ascii"
    <2>1. AppendTransition(s, k) = s
      BY <1>5 DEF AppendTransition
    <2>2. QED
      BY <1>2, <1>3, <1>5, <2>1 DEF TrueOf, ce
  <1>6. ASSUME k = "Utf8Latin1" \/ k = "Utf8NonLatin1" PROVE AppendTransition(s, k) \in ScanState /\ ce \in Admits(AppendTransition(s, k))
    <2>1. CASE s \in ValidRange
      <3>1. AppendTransition(s, k) = Join(s, k)
        BY <1>6, <2>1 DEF AppendTransition, ValidRange
      <3>2. cb = s
        BY <1>3, <2>1 DEF Admits, ValidRange, Terminal
      <3>3. ce = Join(s, k)
        BY <1>2, <1>6, <2>1, <3>2
      <3>4. Join(s, k) \in Terminal
        BY DEF Join, Terminal
      <3>5. QED
        BY <3>1, <3>3, <3>4 DEF Admits, ScanState
    <2>2. CASE s \in {"ValidUtf8", "Utf8NonAscii", "MaybeUtf8Latin1"}
      <3>1. cb \in ValidRange /\ (s = "MaybeUtf8Latin1" => cb # "Utf8NonLatin1")
        BY <1>3, <2>2 DEF Admits, ValidRange, Terminal
      <3>2. ce = Join(cb, k)
        BY <1>2, <1>6, <3>1
      <3>3. CASE k = "Utf8NonLatin1"
        <4>1. ce = "Utf8NonLatin1" /\ AppendTransition(s, k) = "Utf8NonLatin1"
          BY <2>2, <3>2, <3>3 DEF Join, AppendTransition, ValidRange
        <4>2. QED
          BY <4>1 DEF Admits, ScanState, Terminal
      <3>4. CASE k = "Utf8Latin1" /\ s = "MaybeUtf8Latin1"
        <4>1. ce = "Utf8Latin1" /\ AppendTransition(s, k) = "Utf8Latin1"
          BY <3>1, <3>2, <3>4 DEF Join, AppendTransition, ValidRange
        <4>2. QED
          BY <4>1 DEF Admits, ScanState, Terminal
      <3>5. CASE k = "Utf8Latin1" /\ s # "MaybeUtf8Latin1"
        <4>1. ce \in {"Utf8Latin1", "Utf8NonLatin1"}
          BY <3>1, <3>2, <3>5 DEF Join, ValidRange
        <4>2. AppendTransition(s, k) = "Utf8NonAscii"
          BY <2>2, <3>5 DEF AppendTransition, ValidRange
        <4>3. QED
          BY <4>1, <4>2 DEF Admits, ScanState, Terminal
      <3>6. QED
        BY <1>6, <3>3, <3>4, <3>5
    <2>3. CASE s \in {"ExtendedUtf8", "MaybeExtendedUtf8", "PerlValidNonAscii"}
      <3>1. AppendTransition(s, k) = s
        BY <1>6, <2>3 DEF AppendTransition, ValidRange
      <3>2. cb \in {"Ascii", "Utf8Latin1", "Utf8NonLatin1", "ExtendedUtf8"} /\ (s # "MaybeExtendedUtf8" => cb # "Ascii")
            /\ (s = "ExtendedUtf8" => cb = "ExtendedUtf8")
        BY <1>3, <2>3 DEF Admits, Terminal
      <3>3. CASE cb = "ExtendedUtf8"
        <4>1. ce = "ExtendedUtf8"
          BY <1>2, <1>6, <3>3
        <4>2. QED
          BY <2>3, <3>1, <4>1 DEF Admits, Terminal
      <3>4. CASE cb # "ExtendedUtf8"
        <4>1. ce \in {"Utf8Latin1", "Utf8NonLatin1"}
          BY <1>2, <1>6, <3>2, <3>4 DEF Join, ValidRange
        <4>2. QED
          BY <2>3, <3>1, <3>2, <3>4, <4>1 DEF Admits, Terminal
      <3>5. QED
        BY <3>3, <3>4
    <2>4. CASE s \in {"Unknown", "NonAscii", "MalformedUtf8"}
      <3>1. AppendTransition(s, k) = "Unknown"
        BY <1>6, <2>4 DEF AppendTransition, ValidRange
      <3>2. QED
        BY <1>1, <3>1 DEF Admits, ScanState, Terminal
    <2>5. QED
      BY <2>1, <2>2, <2>3, <2>4 DEF ScanState, Terminal, ValidRange
  <1>7. QED
    BY <1>4, <1>5, <1>6 DEF AppendKind, ValidRange, TrueOf, ce

\* What a slice is born with: if the state of the parent was true of its bytes,
\* the state of the slice table, or the classification of a short slice, is
\* true of the slice's (slice_birth_state in core/src/string.rs).
THEOREM SliceSound ==
    ASSUME NEW b \in Seq(Byte), NEW s \in ScanState, TrueOf(s, b),
           NEW o \in Nat, NEW n \in Nat \ {0}, o + n <= Len(b), NEW below \in BOOLEAN
    PROVE  /\ ViewBirthState(s, b, o, n, below) \in ScanState
           /\ TrueOf(ViewBirthState(s, b, o, n, below), Slice(b, o, n))
  <1> DEFINE v == Slice(b, o, n)
             cb == Classify(b)
             cv == Classify(v)
             clean == CutIsClean(b, o, n)
             table == SliceBirth(s, clean)
  <1>1. /\ v \in Seq(Byte) /\ BytesOf(v) \subseteq BytesOf(b)
        /\ IsPerlValid(b) => (IsPerlValid(v) <=> clean)
    BY SlicedBytes
  <1>2. /\ cb \in Terminal
        /\ cb = "MalformedUtf8" <=> ~IsPerlValid(b)
        /\ cb = "ExtendedUtf8" <=> IsPerlValid(b) /\ "x" \in BytesOf(b)
        /\ cb = "Utf8NonLatin1" <=> IsPerlValid(b) /\ "x" \notin BytesOf(b) /\ "h" \in BytesOf(b)
        /\ cb = "Utf8Latin1" <=> IsPerlValid(b) /\ BytesOf(b) \cap {"x", "h"} = {} /\ "l" \in BytesOf(b)
        /\ cb = "Ascii" <=> IsAsciiOnly(b)
    BY Classes
  <1>3. /\ cv \in Terminal
        /\ cv = "MalformedUtf8" <=> ~IsPerlValid(v)
        /\ cv = "ExtendedUtf8" <=> IsPerlValid(v) /\ "x" \in BytesOf(v)
        /\ cv = "Utf8NonLatin1" <=> IsPerlValid(v) /\ "x" \notin BytesOf(v) /\ "h" \in BytesOf(v)
        /\ cv = "Utf8Latin1" <=> IsPerlValid(v) /\ BytesOf(v) \cap {"x", "h"} = {} /\ "l" \in BytesOf(v)
        /\ cv = "Ascii" <=> IsAsciiOnly(v)
    BY <1>1, Classes
  <1>4. cb \in Admits(s)
    BY DEF TrueOf
  <1>5. cb = "Ascii" => cv = "Ascii"
    BY <1>1, <1>2, <1>3 DEF IsAsciiOnly
  <1>6. cb # "MalformedUtf8" => (cv = "MalformedUtf8" <=> ~clean)
    BY <1>1, <1>2, <1>3
  <1>7. cb \in {"Ascii", "Utf8Latin1"} => "h" \notin BytesOf(b) /\ "x" \notin BytesOf(b)
    BY <1>2, AsciiIsValid
  <1>8. cb \in ValidRange => "x" \notin BytesOf(b)
    BY <1>2, <1>7 DEF ValidRange
  <1>9. /\ cb \in {"Ascii", "Utf8Latin1"} => cv \notin {"Utf8NonLatin1", "ExtendedUtf8"}
        /\ cb \in ValidRange => cv # "ExtendedUtf8"
    BY <1>1, <1>3, <1>7, <1>8
  <1> HIDE DEF v, cb, cv, clean
  <1>10. table \in ScanState
    BY DEF SliceBirth, ScanState, Terminal
  <1>11. cv \in Admits(table)
    <2>1. CASE s = "Ascii"
      <3>1. cb = "Ascii" /\ table = "Ascii"
        BY <1>4, <2>1 DEF Admits, Terminal, SliceBirth
      <3>2. QED
        BY <1>5, <3>1 DEF Admits, Terminal
    <2>2. CASE s \in {"Unknown", "NonAscii", "MalformedUtf8"}
      <3>1. table = "Unknown"
        BY <2>2 DEF SliceBirth
      <3>2. QED
        BY <1>3, <3>1 DEF Admits, Terminal
    <2>3. CASE s \in {"Utf8Latin1", "MaybeUtf8Latin1"}
      <3>1. cb \in {"Ascii", "Utf8Latin1"}
        BY <1>4, <2>3 DEF Admits, Terminal
      <3>2. CASE clean
        <4>1. table = "MaybeUtf8Latin1"
          BY <2>3, <3>2 DEF SliceBirth
        <4>2. cv \in {"Ascii", "Utf8Latin1"}
          BY <1>3, <1>6, <1>9, <3>1, <3>2 DEF Terminal
        <4>3. QED
          BY <4>1, <4>2 DEF Admits, Terminal
      <3>3. CASE ~clean
        <4>1. table = "MalformedUtf8" /\ cv = "MalformedUtf8"
          BY <1>6, <2>3, <3>1, <3>3 DEF SliceBirth
        <4>2. QED
          BY <4>1 DEF Admits, Terminal
      <3>4. QED
        BY <3>2, <3>3
    <2>4. CASE s \in {"Utf8NonLatin1", "Utf8NonAscii", "ValidUtf8"}
      <3>1. cb \in ValidRange
        BY <1>4, <2>4 DEF Admits, Terminal, ValidRange
      <3>2. CASE clean
        <4>1. table = "ValidUtf8"
          BY <2>4, <3>2 DEF SliceBirth
        <4>2. cv \in ValidRange
          BY <1>3, <1>6, <1>9, <3>1, <3>2 DEF Terminal, ValidRange
        <4>3. QED
          BY <4>1, <4>2 DEF Admits, Terminal, ValidRange
      <3>3. CASE ~clean
        <4>1. table = "MalformedUtf8" /\ cv = "MalformedUtf8"
          BY <1>6, <2>4, <3>1, <3>3 DEF SliceBirth, ValidRange
        <4>2. QED
          BY <4>1 DEF Admits, Terminal
      <3>4. QED
        BY <3>2, <3>3
    <2>5. CASE s \in {"ExtendedUtf8", "MaybeExtendedUtf8", "PerlValidNonAscii"}
      <3>1. cb # "MalformedUtf8"
        BY <1>4, <2>5 DEF Admits, Terminal
      <3>2. CASE clean
        <4>1. table = "MaybeExtendedUtf8"
          BY <2>5, <3>2 DEF SliceBirth
        <4>2. QED
          <5>1. cv \in Terminal /\ cv # "MalformedUtf8"
            BY <1>3, <1>6, <3>1, <3>2
          <5>2. QED
            BY <4>1, <5>1 DEF Admits, Terminal
      <3>3. CASE ~clean
        <4>1. table = "MalformedUtf8" /\ cv = "MalformedUtf8"
          BY <1>6, <2>5, <3>1, <3>3 DEF SliceBirth
        <4>2. QED
          BY <4>1 DEF Admits, Terminal
      <3>4. QED
        BY <3>2, <3>3
    <2>6. QED
      BY <2>1, <2>2, <2>3, <2>4, <2>5 DEF ScanState, Terminal
  <1>12. cv \in Admits(cv) /\ cv \in ScanState
    BY <1>3 DEF Admits, ScanState
  <1>13. ViewBirthState(s, b, o, n, below) \in {table, cv}
    BY DEF ViewBirthState, cv, v, clean
  <1>14. QED
    BY <1>10, <1>11, <1>12, <1>13 DEF TrueOf, cv, v

-----------------------------------------------------------------------------
(* Characters.                                                             *)

\* The positions a character starts at.
Starts(b) == {i \in DOMAIN b : b[i] # "c"}

\* The first n indices.
LEMMA FirstIndices ==
    ASSUME NEW n \in Nat
    PROVE  IsFiniteSet(1 .. n) /\ Cardinality(1 .. n) = n
  <1>1. 1 \in Int /\ n \in Int
    OBVIOUS
  <1>2. IsFiniteSet(1 .. n) /\ Cardinality(1 .. n) = IF 1 > n THEN 0 ELSE n - 1 + 1
    BY <1>1, FS_Interval
  <1>3. n - 1 + 1 = n /\ (1 > n => n = 0)
    OBVIOUS
  <1>4. QED
    BY <1>2, <1>3

\* They are finitely many, no more than the bytes.
LEMMA StartsFinite ==
    ASSUME NEW b \in Seq(Byte)
    PROVE  IsFiniteSet(Starts(b)) /\ Cardinality(Starts(b)) \in Nat /\ Cardinality(Starts(b)) <= Len(b)
  <1>1. IsFiniteSet(1 .. Len(b)) /\ Cardinality(1 .. Len(b)) = Len(b) /\ Len(b) \in Nat
    <2>1. Len(b) \in Nat
      OBVIOUS
    <2>2. QED
      BY <2>1, FirstIndices
  <1>2. Starts(b) \in SUBSET (1 .. Len(b))
    BY DEF Starts
  <1> DEFINE T == Starts(b)
             n == Len(b)
  <1> HIDE DEF T, n
  <1>3. IsFiniteSet(T) /\ Cardinality(T) <= Cardinality(1 .. n)
    BY <1>1, <1>2, FS_Subset DEF T, n
  <1>4. Cardinality(T) \in Nat
    BY <1>3, FS_CardinalityType
  <1>5. QED
    BY <1>1, <1>3, <1>4 DEF T, n

\* A character count is a number, and one of valid bytes is positive.
LEMMA CharsType ==
    ASSUME NEW b \in Seq(Byte)
    PROVE  /\ Chars(b) \in Nat
           /\ Chars(b) > 0 => IsPerlValid(b)
           /\ IsAsciiOnly(b) => Chars(b) = Len(b)
  <1>1. Cardinality(Starts(b)) \in Nat
    BY StartsFinite
  <1>2. Chars(b) = IF IsPerlValid(b) THEN Cardinality(Starts(b)) ELSE 0
    BY DEF Chars, Starts
  <1>3. ASSUME IsAsciiOnly(b) PROVE Chars(b) = Len(b)
    <2>1. \A i \in 1 .. Len(b) : b[i] = "a"
      BY <1>3 DEF IsAsciiOnly, BytesOf
    <2>2. Starts(b) = 1 .. Len(b)
      <3> DEFINE D == 1 .. Len(b)
      <3>1. DOMAIN b = D
        OBVIOUS
      <3>2. \A i \in D : b[i] # "c"
        BY <2>1
      <3> HIDE DEF D
      <3>3. Starts(b) = D
        BY <3>1, <3>2, Zenon DEF Starts
      <3> QED
        BY <3>3 DEF D
    <2>3. Cardinality(1 .. Len(b)) = Len(b)
      <3>1. Len(b) \in Nat
        OBVIOUS
      <3>2. QED
        BY <3>1, FirstIndices
    <2>4. IsPerlValid(b)
      BY <1>3, AsciiIsValid
    <2>5. QED
      BY <1>2, <2>2, <2>3, <2>4
  <1>4. QED
    BY <1>1, <1>2, <1>3

\* The characters of joined bytes are those of both.
LEMMA CharsAdd ==
    ASSUME NEW b \in Seq(Byte), NEW d \in Seq(Byte), IsPerlValid(b), IsPerlValid(d)
    PROVE  Chars(b \o d) = Chars(b) + Chars(d)
  <1> DEFINE e == b \o d
             m == Len(b)
             n == Len(d)
             S == Starts(b)
             T == Starts(d)
             U == {i \in Starts(e) : i > m}
             f == [i \in T |-> m + i]
  <1>1. /\ m \in Nat /\ n \in Nat /\ DOMAIN b = 1 .. m /\ DOMAIN d = 1 .. n
        /\ e \in Seq(Byte) /\ Len(e) = m + n /\ DOMAIN e = 1 .. m + n
    OBVIOUS
  <1>2. (\A i \in 1 .. m : e[i] = b[i]) /\ \A i \in 1 .. n : e[m + i] = d[i]
    BY <1>1
  <1> HIDE DEF e, m, n
  <1>3. S \subseteq 1 .. m /\ T \subseteq 1 .. n
    BY <1>1 DEF Starts
  <1>4. Starts(e) = S \cup U
    <2>1. \A i : i \in 1 .. m + n /\ ~(i > m) <=> i \in 1 .. m
      BY <1>1
    <2>2. QED
      BY <1>1, <1>2, <2>1 DEF Starts
  <1>5. f \in Bijection(T, U)
    <2>1. ASSUME NEW i \in T PROVE m + i \in U
      <3>1. i \in 1 .. n /\ d[i] # "c"
        BY <1>1 DEF Starts
      <3>2. m + i \in 1 .. m + n /\ m + i > m /\ e[m + i] # "c"
        BY <1>1, <1>2, <3>1
      <3>3. QED
        BY <1>1, <3>2 DEF Starts
    <2>2. ASSUME NEW u \in U PROVE \E i \in T : m + i = u
      <3>1. u \in 1 .. m + n /\ u > m /\ e[u] # "c"
        BY <1>1 DEF Starts
      <3>2. PICK i \in 1 .. n : m + i = u
        BY <1>1, <3>1
      <3>3. i \in T
        BY <1>1, <1>2, <3>1, <3>2 DEF Starts
      <3>4. QED
        BY <3>2, <3>3
    <2>3. \A i, j \in T : m + i = m + j => i = j
      BY <1>1, <1>3
    <2>4. f \in [T -> U]
      BY <2>1
    <2>5. \A i, j \in T : f[i] = f[j] => i = j
      BY <2>3
    <2>6. \A u \in U : \E i \in T : f[i] = u
      BY <2>2
    <2> HIDE DEF f, T, U
    <2>7. QED
      BY <2>4, <2>5, <2>6, Fun_IsBij
  <1>6. S \cap U = {}
    BY <1>1, <1>3
  <1>7. /\ IsFiniteSet(S) /\ IsFiniteSet(T) /\ Cardinality(S) \in Nat /\ Cardinality(T) \in Nat
    BY StartsFinite
  <1>8. ExistsBijection(T, U)
    BY <1>5 DEF ExistsBijection
  <1> HIDE DEF f, S, T, U
  <1>9. IsFiniteSet(U) /\ Cardinality(U) = Cardinality(T)
    BY <1>7, <1>8, FS_Bijection
  <1>10. Cardinality(S \cup U) = Cardinality(S) + Cardinality(U) - Cardinality({})
    BY <1>6, <1>7, <1>9, FS_Union
  <1>11. Cardinality(Starts(e)) = Cardinality(S) + Cardinality(T)
    BY <1>4, <1>7, <1>9, <1>10, FS_EmptySet
  <1>12. IsPerlValid(e)
    BY JoinedBytes DEF e
  <1>13. QED
    BY <1>11, <1>12 DEF Chars, Starts, S, T, e

-----------------------------------------------------------------------------
(* Contracting and upgrading.                                              *)

\* A contraction of bytes that are not plain ASCII is shorter, and not empty.
LEMMA ContractionType ==
    ASSUME NEW b \in Seq(Byte), IsPerlValid(b), ~IsAsciiOnly(b), NEW d \in Contractions(b)
    PROVE  d \in Seq(Byte) /\ Len(d) > 0 /\ Len(d) < Len(b)
  <1> DEFINE T == Starts(b)
             n == Len(b)
  <1>1. IsFiniteSet(T) /\ Cardinality(T) \in Nat /\ T \subseteq 1 .. n /\ n \in Nat
    BY StartsFinite DEF Starts
  <1>2. PICK i \in 1 .. n : b[i] \in Lead
    <2>1. BytesOf(b) \cap {"x", "h", "l"} # {}
      BY AsciiIsValid
    <2>2. QED
      BY <2>1 DEF BytesOf, Lead
  <1>3. i < n /\ b[i + 1] = "c"
    <2>1. i \in DOMAIN b
      OBVIOUS
    <2>2. b[i] \in Lead => i < Len(b) /\ b[i + 1] = "c"
      BY <2>1 DEF IsPerlValid
    <2>3. QED
      BY <1>2, <2>2
  <1>4. b[1] # "c" /\ 1 \in 1 .. n
    <2>1. 1 \in DOMAIN b
      BY <1>2
    <2>2. b[1] = "c" => 1 > 1
      BY <2>1, Zenon DEF IsPerlValid
    <2>3. QED
      BY <2>1, <2>2
  <1>5. 1 \in T /\ i + 1 \in 1 .. n /\ i + 1 \notin T
    BY <1>3, <1>4 DEF Starts
  <1>6. d \in [1 .. Cardinality(T) -> Byte]
    BY DEF Contractions, Starts
  <1> HIDE DEF T, n
  <1>7. Cardinality(T) > 0
    BY <1>1, <1>5, FS_EmptySet
  <1>8. Cardinality(T) < n
    <2>0. 1 \in Int /\ n \in Int /\ n >= 1 /\ n - 1 + 1 = n
      BY <1>1, <1>5
    <2>1. IsFiniteSet(1 .. n) /\ Cardinality(1 .. n) = n
      <3>1. IsFiniteSet(1 .. n) /\ Cardinality(1 .. n) = IF 1 > n THEN 0 ELSE n - 1 + 1
        BY <2>0, FS_Interval
      <3>2. QED
        BY <2>0, <3>1
    <2>2. T \in SUBSET (1 .. n) /\ T # 1 .. n
      BY <1>1, <1>5
    <2>3. Cardinality(T) <= Cardinality(1 .. n) /\ Cardinality(1 .. n) # Cardinality(T)
      BY <2>1, <2>2, FS_Subset
    <2>4. QED
      BY <1>1, <2>1, <2>3
  <1>9. d \in Seq(Byte) /\ Len(d) = Cardinality(T)
    BY <1>1, <1>6
  <1>10. QED
    BY <1>7, <1>8, <1>9 DEF n

\* Where in the expansion the form of byte i lies: after one byte for each byte
\* before it, and one more for each high one.
High(b, i) == {j \in 1 .. i - 1 : b[j] # "a"}
Offset(b, i) == i - 1 + Cardinality(High(b, i))
Width(b, i) == IF b[i] = "a" THEN 1 ELSE 2

\* The forms follow one another without a gap.
LEMMA Offsets ==
    ASSUME NEW b \in Seq(Byte)
    PROVE  /\ \A i \in 1 .. Len(b) + 1 : Offset(b, i) \in Nat
           /\ Offset(b, 1) = 0
           /\ \A i \in 1 .. Len(b) : Offset(b, i + 1) = Offset(b, i) + Width(b, i)
           /\ \A i, j \in 1 .. Len(b) + 1 : i <= j => Offset(b, i) <= Offset(b, j)
  <1> DEFINE n == Len(b)
  <1>0. n \in Nat
    OBVIOUS
  <1>1. ASSUME NEW i \in 1 .. n + 1 PROVE IsFiniteSet(High(b, i)) /\ Cardinality(High(b, i)) \in Nat
    <2>1. i - 1 \in Int /\ High(b, i) \in SUBSET (1 .. i - 1)
      BY <1>0 DEF High
    <2>2. IsFiniteSet(1 .. i - 1)
      BY <2>1, FS_Interval
    <2>3. IsFiniteSet(High(b, i))
      BY <2>1, <2>2, FS_Subset
    <2>4. QED
      BY <2>3, FS_CardinalityType
  <1>2. Offset(b, 1) = 0
    <2>1. High(b, 1) = {}
      BY DEF High
    <2>2. Cardinality({}) = 0
      BY FS_EmptySet
    <2>3. Offset(b, 1) = 1 - 1 + 0
      BY <2>1, <2>2 DEF Offset
    <2>4. QED
      BY <2>3
  <1>3. ASSUME NEW i \in 1 .. n PROVE Offset(b, i + 1) = Offset(b, i) + Width(b, i)
    <2>1. i \in 1 .. n + 1 /\ i + 1 - 1 = i /\ i - 1 \in Nat /\ i \notin High(b, i)
      BY <1>0 DEF High
    <2>2. High(b, i + 1) = High(b, i) \cup (IF b[i] = "a" THEN {} ELSE {i})
      <3>1. ASSUME NEW j PROVE j \in 1 .. i <=> j \in 1 .. i - 1 \/ j = i
        BY <2>1
      <3>2. QED
        BY <2>1, <3>1 DEF High
    <2>3. IsFiniteSet(High(b, i)) /\ Cardinality(High(b, i)) \in Nat
      BY <1>1, <2>1
    <2>4. CASE b[i] = "a"
      <3>1. High(b, i + 1) = High(b, i)
        BY <2>2, <2>4
      <3>2. QED
        BY <2>1, <2>3, <2>4, <3>1 DEF Offset, Width
    <2>5. CASE b[i] # "a"
      <3>1. High(b, i + 1) = High(b, i) \cup {i}
        BY <2>2, <2>5
      <3>2. Cardinality(High(b, i + 1)) = Cardinality(High(b, i)) + 1
        BY <2>1, <2>3, <3>1, FS_AddElement
      <3>3. QED
        BY <2>1, <2>3, <2>5, <3>2 DEF Offset, Width
    <2>6. QED
      BY <2>4, <2>5
  <1>4. ASSUME NEW i \in 1 .. n + 1, NEW j \in 1 .. n + 1, i <= j PROVE Offset(b, i) <= Offset(b, j)
    <2>1. High(b, i) \in SUBSET High(b, j)
      BY <1>0, <1>4 DEF High
    <2>2. Cardinality(High(b, i)) <= Cardinality(High(b, j))
      BY <1>1, <2>1, FS_Subset
    <2>3. QED
      BY <1>0, <1>1, <1>4, <2>2 DEF Offset
  <1>5. \A i \in 1 .. n + 1 : Offset(b, i) \in Nat
    BY <1>0, <1>1 DEF Offset
  <1>6. QED
    BY <1>2, <1>3, <1>4, <1>5

\* A set of naturals has a least element.
LEMMA LeastExists ==
    ASSUME NEW T \in SUBSET Nat, T # {}
    PROVE  \E x \in T : \A y \in T : x <= y
  <1>1. IsWellFoundedOn(OpToRel(<, Nat), Nat)
    BY NatLessThanWellFounded
  <1>2. PICK x \in T : \A y \in T : ~(<<y, x>> \in OpToRel(<, Nat))
    BY <1>1, WFMin
  <1>3. \A y \in T : ~(y < x)
    BY <1>2 DEF OpToRel
  <1>4. QED
    BY <1>3

\* Each place of the expansion belongs to the form of one byte.
LEMMA Origins ==
    ASSUME NEW b \in Seq(Byte), NEW k \in 1 .. Offset(b, Len(b) + 1)
    PROVE  \E i \in 1 .. Len(b) : Offset(b, i) < k /\ k <= Offset(b, i) + Width(b, i)
  <1> DEFINE n == Len(b)
             T == {i \in 1 .. n : k <= Offset(b, i + 1)}
  <1>1. n \in Nat
    OBVIOUS
  <1>2. /\ \A i \in 1 .. n + 1 : Offset(b, i) \in Nat
        /\ Offset(b, 1) = 0
        /\ \A i \in 1 .. n : Offset(b, i + 1) = Offset(b, i) + Width(b, i)
    BY Offsets
  <1>3. k \in 1 .. Offset(b, n + 1) /\ n + 1 \in 1 .. n + 1 /\ Offset(b, n + 1) \in Nat
    BY <1>1, <1>2
  <1> HIDE DEF n
  <1>4. n # 0
    <2>1. SUFFICES ASSUME n = 0 PROVE FALSE
      OBVIOUS
    <2>2. n + 1 = 1
      BY <2>1
    <2>3. Offset(b, n + 1) = 0
      BY <1>2, <2>2
    <2>4. QED
      BY <1>3, <2>3
  <1>5. n \in T
    BY <1>1, <1>3, <1>4
  <1>6. T \in SUBSET Nat
    OBVIOUS
  <1> HIDE DEF T
  <1>7. PICK i \in T : \A j \in T : i <= j
    BY <1>5, <1>6, LeastExists
  <1>8. i \in 1 .. n /\ k <= Offset(b, i + 1)
    BY <1>7 DEF T
  <1>9. Offset(b, i) < k
    <2>1. CASE i = 1
      BY <1>2, <1>3, <2>1
    <2>2. CASE i # 1
      <3>1. i - 1 \in 1 .. n /\ ~(i <= i - 1) /\ (i - 1) + 1 = i /\ i \in 1 .. n + 1
        BY <1>1, <1>8, <2>2
      <3>2. i - 1 \notin T
        BY <1>7, <3>1
      <3>3. ~(k <= Offset(b, i))
        BY <3>1, <3>2 DEF T
      <3>4. QED
        BY <1>2, <1>3, <3>1, <3>3
    <2>3. QED
      BY <2>1, <2>2
  <1>10. k <= Offset(b, i) + Width(b, i)
    BY <1>2, <1>8
  <1>11. QED
    BY <1>8, <1>9, <1>10 DEF n

\* The expansion, byte by byte.
Grown(b, e) ==
    /\ e \in Seq(Byte)
    /\ Len(e) = Offset(b, Len(b) + 1)
    /\ \A i \in 1 .. Len(b) :
        /\ Offset(b, i) + 1 \in DOMAIN e
        /\ b[i] = "a" => e[Offset(b, i) + 1] = "a"
        /\ b[i] # "a" => /\ e[Offset(b, i) + 1] = "l"
                         /\ Offset(b, i) + 2 \in DOMAIN e
                         /\ e[Offset(b, i) + 2] = "c"

LEMMA ExpansionGrown ==
    ASSUME NEW b \in Seq(Byte)
    PROVE  Grown(b, Expansion(b))
  <1> DEFINE n == Len(b)
             N == Offset(b, n + 1)
             Mine(i, k) == Offset(b, i) < k /\ k <= Offset(b, i) + Width(b, i)
             at(k) == CHOOSE i \in DOMAIN b : Mine(i, k)
             e == [k \in 1 .. N |-> IF b[at(k)] = "a" THEN "a" ELSE IF k = Offset(b, at(k)) + 1 THEN "l" ELSE "c"]
  <1>1. n \in Nat /\ DOMAIN b = 1 .. n
    OBVIOUS
  <1>2. /\ \A i \in 1 .. n + 1 : Offset(b, i) \in Nat
        /\ \A i \in 1 .. n : Offset(b, i + 1) = Offset(b, i) + Width(b, i)
        /\ \A i, j \in 1 .. n + 1 : i <= j => Offset(b, i) <= Offset(b, j)
    BY Offsets
  <1>3. Expansion(b) = e
    <2>1. n + Cardinality({j \in DOMAIN b : b[j] # "a"}) = N
      <3>1. n + 1 - 1 = n
        BY <1>1
      <3>2. {j \in DOMAIN b : b[j] # "a"} = High(b, n + 1)
        BY <1>1, <3>1 DEF High
      <3>3. Offset(b, n + 1) = (n + 1) - 1 + Cardinality(High(b, n + 1))
        BY DEF Offset
      <3>4. (n + 1) - 1 = n
        BY <1>1
      <3>5. QED
        BY <3>2, <3>3, <3>4
    <2>2. QED
      BY <2>1 DEF Expansion, Offset, High, Width
  <1>4. N \in Nat
    BY <1>1, <1>2
  <1>5. \A i \in 1 .. n : Width(b, i) \in {1, 2} /\ (Width(b, i) = 1 <=> b[i] = "a")
    BY DEF Width
  <1>6. ASSUME NEW i \in 1 .. n, NEW k \in Nat, Mine(i, k)
        PROVE  k \in 1 .. N /\ at(k) = i
    <2>1. i \in 1 .. n + 1 /\ i + 1 \in 1 .. n + 1 /\ n + 1 \in 1 .. n + 1
      BY <1>1
    <2>2. Offset(b, i) \in Nat /\ Offset(b, i + 1) = Offset(b, i) + Width(b, i) /\ Offset(b, i + 1) <= N
      BY <1>1, <1>2, <2>1
    <2>3. k \in 1 .. N
      BY <1>4, <1>5, <1>6, <2>2
    <2>4. at(k) \in DOMAIN b /\ Mine(at(k), k)
      BY <1>1, <1>6
    <2>5. PICK j \in 1 .. n : j = at(k)
      BY <1>1, <2>4
    <2>6. Mine(j, k)
      BY <2>4, <2>5
    <2>7. j \in 1 .. n + 1 /\ j + 1 \in 1 .. n + 1
      BY <1>1
    <2>8. Offset(b, j) \in Nat /\ Offset(b, j + 1) = Offset(b, j) + Width(b, j)
      BY <1>2, <2>7
    <2>9. ~(i < j)
      <3>1. SUFFICES ASSUME i < j PROVE FALSE
        OBVIOUS
      <3>2. i + 1 <= j
        BY <1>1, <3>1
      <3>3. Offset(b, i + 1) <= Offset(b, j)
        BY <1>2, <2>1, <2>7, <3>2
      <3>4. Offset(b, j) < k /\ k <= Offset(b, i) + Width(b, i)
        BY <1>6, <2>6
      <3>5. QED
        BY <1>5, <2>2, <2>8, <3>3, <3>4
    <2>10. ~(j < i)
      <3>1. SUFFICES ASSUME j < i PROVE FALSE
        OBVIOUS
      <3>2. j + 1 <= i
        BY <1>1, <3>1
      <3>3. Offset(b, j + 1) <= Offset(b, i)
        BY <1>2, <2>1, <2>7, <3>2
      <3>4. Offset(b, i) < k /\ k <= Offset(b, j) + Width(b, j)
        BY <1>6, <2>6
      <3>5. QED
        BY <1>5, <2>2, <2>8, <3>3, <3>4
    <2>11. i = j
      BY <1>1, <2>9, <2>10
    <2>12. QED
      BY <2>3, <2>5, <2>11
  <1> HIDE DEF n, N, at
  <1>7. ASSUME NEW i \in 1 .. n
        PROVE  /\ Offset(b, i) + 1 \in 1 .. N
               /\ b[i] = "a" => e[Offset(b, i) + 1] = "a"
               /\ b[i] # "a" => /\ e[Offset(b, i) + 1] = "l"
                                /\ Offset(b, i) + 2 \in 1 .. N
                                /\ e[Offset(b, i) + 2] = "c"
    <2>1. Offset(b, i) \in Nat /\ Width(b, i) \in {1, 2} /\ (Width(b, i) = 1 <=> b[i] = "a")
      <3>1. i \in 1 .. n + 1
        BY <1>1
      <3>2. QED
        BY <1>2, <1>5, <3>1
    <2>2. PICK k \in Nat : k = Offset(b, i) + 1
      BY <2>1
    <2>3. Mine(i, k)
      BY <2>1, <2>2
    <2>4. k \in 1 .. N /\ at(k) = i
      BY <1>6, <2>3
    <2>5. e[k] = IF b[i] = "a" THEN "a" ELSE "l"
      BY <2>2, <2>4
    <2>6. ASSUME b[i] # "a" PROVE Offset(b, i) + 2 \in 1 .. N /\ e[Offset(b, i) + 2] = "c"
      <3>1. PICK m \in Nat : m = Offset(b, i) + 2
        BY <2>1
      <3>2. Mine(i, m) /\ m # Offset(b, i) + 1
        BY <2>1, <2>6, <3>1
      <3>3. m \in 1 .. N /\ at(m) = i
        BY <1>6, <3>2
      <3>4. e[m] = "c"
        BY <2>6, <3>2, <3>3
      <3>5. QED
        BY <3>1, <3>3, <3>4
    <2>7. QED
      BY <2>2, <2>4, <2>5, <2>6
  <1>8. e \in Seq(Byte) /\ Len(e) = N /\ DOMAIN e = 1 .. N
    <2>1. e \in [1 .. N -> Byte]
      BY DEF Byte
    <2> HIDE DEF e
    <2>2. QED
      BY <1>4, <2>1
  <1> HIDE DEF e
  <1>9. Grown(b, e)
    BY <1>7, <1>8 DEF Grown, n, N
  <1>10. QED
    BY <1>3, <1>9

\* What upgrading gives: valid bytes of the Latin-1 range, longer than the old
\* ones, with one character for each of them (upgrade_in_place in
\* core/src/cow_buffer.rs).
THEOREM ExpansionSound ==
    ASSUME NEW b \in Seq(Byte), ~IsAsciiOnly(b)
    PROVE  /\ Expansion(b) \in Seq(Byte) /\ Len(Expansion(b)) > Len(b)
           /\ Classify(Expansion(b)) = "Utf8Latin1"
           /\ Chars(Expansion(b)) = Len(b)
  <1> DEFINE e == Expansion(b)
             n == Len(b)
             N == Offset(b, n + 1)
             At(i) == Offset(b, i) + 1
  <1>1. n \in Nat /\ DOMAIN b = 1 .. n
    OBVIOUS
  <1>2. /\ \A i \in 1 .. n + 1 : Offset(b, i) \in Nat
        /\ \A i \in 1 .. n : Offset(b, i + 1) = Offset(b, i) + Width(b, i)
        /\ \A i, j \in 1 .. n + 1 : i <= j => Offset(b, i) <= Offset(b, j)
    BY Offsets
  <1>3. /\ e \in Seq(Byte) /\ Len(e) = N /\ DOMAIN e = 1 .. N /\ N \in Nat
        /\ \A i \in 1 .. n :
            /\ Offset(b, i) + 1 \in 1 .. N
            /\ b[i] = "a" => e[Offset(b, i) + 1] = "a"
            /\ b[i] # "a" => /\ e[Offset(b, i) + 1] = "l"
                             /\ Offset(b, i) + 2 \in 1 .. N
                             /\ e[Offset(b, i) + 2] = "c"
    <2>1. Grown(b, e)
      BY ExpansionGrown
    <2>2. e \in Seq(Byte) /\ Len(e) = N
      BY <2>1 DEF Grown
    <2>3. DOMAIN e = 1 .. N /\ N \in Nat
      BY <2>2
    <2>4. QED
      BY <2>1, <2>2, <2>3 DEF Grown
  <1>4. \A i \in 1 .. n : Width(b, i) \in {1, 2} /\ (Width(b, i) = 1 <=> b[i] = "a")
    BY DEF Width
  <1> HIDE DEF e, N
  <1>5. ASSUME NEW k \in 1 .. N
        PROVE  \E i \in 1 .. n : \/ k = Offset(b, i) + 1
                                 \/ k = Offset(b, i) + 2 /\ b[i] # "a"
    <2>1. PICK i \in 1 .. n : Offset(b, i) < k /\ k <= Offset(b, i) + Width(b, i)
      BY Origins DEF N
    <2>2. Offset(b, i) \in Nat /\ Width(b, i) \in {1, 2} /\ (Width(b, i) = 1 <=> b[i] = "a")
      <3>1. i \in 1 .. n + 1
        BY <1>1
      <3>2. QED
        BY <1>2, <1>4, <3>1
    <2>3. QED
      BY <2>1, <2>2
  <1>6. \A i \in 1 .. n : Offset(b, i) \in Nat
    <2>1. \A i \in 1 .. n : i \in 1 .. n + 1
      BY <1>1
    <2>2. QED
      BY <1>2, <2>1
  <1> HIDE DEF n
  <1>7. ASSUME NEW k \in 1 .. N
        PROVE  /\ e[k] \in {"a", "l", "c"}
               /\ e[k] = "l" => k < N /\ e[k + 1] = "c"
               /\ e[k] = "c" => k > 1 /\ e[k - 1] = "l"
    <2>1. PICK i \in 1 .. n : \/ k = Offset(b, i) + 1
                              \/ k = Offset(b, i) + 2 /\ b[i] # "a"
      BY <1>5
    <2>2. Offset(b, i) \in Nat
      BY <1>6
    <2>3. CASE k = Offset(b, i) + 1 /\ b[i] = "a"
      <3>1. e[k] = "a"
        BY <1>3, <2>3
      <3>2. QED
        BY <3>1
    <2>4. CASE k = Offset(b, i) + 1 /\ b[i] # "a"
      <3>1. e[k] = "l" /\ Offset(b, i) + 2 \in 1 .. N /\ e[Offset(b, i) + 2] = "c"
        BY <1>3, <2>4
      <3>2. k + 1 = Offset(b, i) + 2 /\ k < N
        BY <1>3, <2>2, <2>4, <3>1
      <3>3. QED
        BY <3>1, <3>2
    <2>5. CASE k = Offset(b, i) + 2 /\ b[i] # "a"
      <3>1. e[k] = "c" /\ e[Offset(b, i) + 1] = "l"
        BY <1>3, <2>5
      <3>2. k - 1 = Offset(b, i) + 1 /\ k > 1
        BY <2>2, <2>5
      <3>3. QED
        BY <3>1, <3>2
    <2>6. QED
      BY <2>1, <2>3, <2>4, <2>5
  <1>8. IsPerlValid(e)
    BY <1>3, <1>7 DEF IsPerlValid, Lead
  <1>9. BytesOf(e) \subseteq {"a", "l", "c"}
    BY <1>3, <1>7 DEF BytesOf
  <1>10. PICK i \in 1 .. n : b[i] # "a"
    BY <1>1 DEF IsAsciiOnly, BytesOf
  <1>11. "l" \in BytesOf(e)
    <2>1. Offset(b, i) + 1 \in DOMAIN e /\ e[Offset(b, i) + 1] = "l"
      BY <1>3, <1>10
    <2>2. QED
      BY <2>1 DEF BytesOf
  <1>12. Classify(e) = "Utf8Latin1"
    <2>1. BytesOf(e) \cap {"x", "h"} = {}
      BY <1>9
    <2>2. QED
      BY <1>3, <1>8, <1>11, <2>1, Classes
  <1>13. N > n
    <2>1. N = n + Cardinality(High(b, n + 1))
      <3>1. N = (n + 1) - 1 + Cardinality(High(b, n + 1))
        BY DEF N, n, Offset
      <3>2. (n + 1) - 1 = n
        BY <1>1
      <3>3. QED
        BY <3>1, <3>2
    <2>2. IsFiniteSet(High(b, n + 1))
      <3>1. (n + 1) - 1 = n
        BY <1>1
      <3>2. IsFiniteSet(1 .. n) /\ High(b, n + 1) \in SUBSET (1 .. n)
        BY <1>1, <3>1, FS_Interval DEF High
      <3>3. QED
        BY <3>2, FS_Subset
    <2>3. i \in High(b, n + 1)
      <3>1. (n + 1) - 1 = n
        BY <1>1
      <3>2. QED
        BY <1>10, <3>1 DEF High
    <2>4. Cardinality(High(b, n + 1)) \in Nat /\ Cardinality(High(b, n + 1)) # 0
      BY <2>2, <2>3, FS_CardinalityType, FS_EmptySet
    <2>5. QED
      BY <1>1, <2>1, <2>4
  <1>14. Cardinality(Starts(e)) = n
    <2> DEFINE f == [j \in 1 .. n |-> Offset(b, j) + 1]
    <2>1. ASSUME NEW j \in 1 .. n PROVE Offset(b, j) + 1 \in Starts(e)
      <3>1. Offset(b, j) + 1 \in 1 .. N /\ e[Offset(b, j) + 1] # "c"
        BY <1>3
      <3>2. QED
        BY <1>3, <3>1 DEF Starts
    <2>2. ASSUME NEW k \in Starts(e) PROVE \E j \in 1 .. n : Offset(b, j) + 1 = k
      <3>1. k \in 1 .. N /\ e[k] # "c"
        BY <1>3 DEF Starts
      <3>2. PICK j \in 1 .. n : \/ k = Offset(b, j) + 1
                                \/ k = Offset(b, j) + 2 /\ b[j] # "a"
        BY <1>5, <3>1
      <3>3. k # Offset(b, j) + 2 \/ b[j] = "a"
        BY <1>3, <3>1
      <3>4. QED
        BY <3>2, <3>3
    <2>3. ASSUME NEW u \in 1 .. n, NEW v \in 1 .. n, u < v PROVE Offset(b, u) < Offset(b, v)
      <3>1. u + 1 \in 1 .. n + 1 /\ v \in 1 .. n + 1 /\ u + 1 <= v
        BY <1>1, <2>3
      <3>2. Offset(b, u + 1) <= Offset(b, v)
        BY <1>2, <3>1 DEF n
      <3>3. Offset(b, u + 1) = Offset(b, u) + Width(b, u)
        BY <1>2 DEF n
      <3>4. Width(b, u) \in {1, 2}
        BY <1>4 DEF n
      <3>5. QED
        BY <1>6, <3>2, <3>3, <3>4
    <2>4. \A u, v \in 1 .. n : Offset(b, u) + 1 = Offset(b, v) + 1 => u = v
      <3>1. SUFFICES ASSUME NEW u \in 1 .. n, NEW v \in 1 .. n, Offset(b, u) + 1 = Offset(b, v) + 1
                     PROVE  u = v
        OBVIOUS
      <3>2. Offset(b, u) = Offset(b, v) /\ Offset(b, u) \in Nat /\ Offset(b, v) \in Nat
        BY <1>6, <3>1
      <3>3. ~(u < v) /\ ~(v < u)
        BY <2>3, <3>2
      <3>4. QED
        BY <1>1, <3>3
    <2>5. f \in [1 .. n -> Starts(e)]
      BY <2>1
    <2>6. \A u, v \in 1 .. n : f[u] = f[v] => u = v
      BY <2>4
    <2>7. \A k \in Starts(e) : \E j \in 1 .. n : f[j] = k
      BY <2>2
    <2> HIDE DEF f
    <2>8. f \in Bijection(1 .. n, Starts(e))
      BY <2>5, <2>6, <2>7, Fun_IsBij
    <2>9. ExistsBijection(1 .. n, Starts(e))
      BY <2>8 DEF ExistsBijection
    <2>10. IsFiniteSet(1 .. n) /\ Cardinality(1 .. n) = n
      <3>1. i \in Int /\ 1 \in Int /\ n \in Int /\ ~(1 > n) /\ n - 1 + 1 = n
        BY <1>1, <1>10
      <3>2. IsFiniteSet(1 .. n) /\ Cardinality(1 .. n) = IF 1 > n THEN 0 ELSE n - 1 + 1
        BY <3>1, FS_Interval
      <3>3. QED
        BY <3>1, <3>2
    <2>11. QED
      BY <2>9, <2>10, FS_Bijection
  <1>15. Chars(e) = n
    BY <1>8, <1>14 DEF Chars, Starts
  <1>16. QED
    BY <1>3, <1>12, <1>13, <1>15 DEF e, n

-----------------------------------------------------------------------------
(* The slot and its readers.                                               *)

\* Every variable has its type; what the slot held is remembered with it.
Types ==
    /\ backing \in {"heap", "adopted"}
    /\ bytes \in Contents
    /\ past \subseteq ScanState /\ scan \in past
    /\ count \in Nat
    /\ holds \subseteq Reader
    /\ env \in [Reader -> ScanState]
    /\ \A v \in views : v.bytes \in Contents /\ v.scan \in ScanState
    /\ task = [r \in Reader |-> task[r]]

\* Whatever a load of the slot can return is true, and the slot narrows it.
Slots ==
    /\ \A s \in past : TrueOf(s, bytes) /\ Narrows(scan, s)
    /\ count \in {0, Chars(bytes)}

\* The envelopes are true; those of heap handles say nothing, so that a
\* rewrite cannot make them lie.
Envelopes ==
    /\ \A r \in Reader : TrueOf(env[r], bytes)
    /\ backing = "heap" => \A r \in Reader : env[r] = "Unknown"
    /\ ViewsTrue

\* An as_str of the bytes that gives out a valid string or withholds one that
\* is not plain ASCII.
StrSound(given) == IF given THEN Classify(bytes) \in ValidRange ELSE ~IsAsciiOnly(bytes)

\* What a thread carries from step to step is true: its certificate, the state
\* it last saw, its answer, and that its certificate is recorded.
Good(t) ==
    /\ t.pc \in TaskPc
    /\ t.pc \in {"load", "narrow", "store", "recorded"} => t.cert \in ScanState /\ TrueOf(t.cert, bytes)
    /\ t.pc = "load" => t.counts \in BOOLEAN
    /\ t.pc = "narrow" => t \in [pc : {"narrow"}, cert : ScanState, counts : BOOLEAN, current : past]
    /\ t.pc \in {"store", "recorded"} => Narrows(scan, t.cert)
    /\ t.pc = "answered" /\ ~(backing = "adopted" /\ t.q = "as_str") => t.answer = Truth(t.q, bytes)
    /\ t.pc = "answered" /\ backing = "adopted" /\ t.q = "as_str" => StrSound(t.answer)

\* A thread that is in the middle of a question holds the buffer.
Steps == \A r \in Reader : Good(task[r]) /\ (task[r].pc # "idle" => r \in holds)

IInv == Types /\ Slots /\ Envelopes /\ Steps

-----------------------------------------------------------------------------
(* The contents and the caches of a buffer.                                *)

\* The contents a buffer can have.
LEMMA ContentsAre ==
    /\ \A b : b \in Contents <=> b \in Seq(Byte) /\ Len(b) \in 1 .. MaxBytes
    /\ MaxBytes \in Nat
  <1>1. MaxBytes \in Nat
    BY ScanSlotAssumption
  <1>2. ASSUME NEW b \in Contents PROVE b \in Seq(Byte) /\ Len(b) \in 1 .. MaxBytes
    <2>1. PICK n \in 1 .. MaxBytes : b \in [1 .. n -> Byte]
      BY DEF Contents
    <2>2. n \in Nat
      BY <1>1
    <2>3. b \in Seq(Byte) /\ Len(b) = n
      BY <2>1, <2>2
    <2>4. QED
      BY <2>3
  <1>3. ASSUME NEW b \in Seq(Byte), Len(b) \in 1 .. MaxBytes PROVE b \in Contents
    <2>1. b \in [1 .. Len(b) -> Byte]
      OBVIOUS
    <2>2. QED
      BY <1>3, <2>1 DEF Contents
  <1>4. QED
    BY <1>1, <1>2, <1>3

\* The state that says nothing is true of everything; a class is true of its
\* own bytes.
LEMMA TruthsOf ==
    ASSUME NEW b \in Seq(Byte)
    PROVE  /\ TrueOf("Unknown", b)
           /\ Classify(b) \in ScanState
           /\ TrueOf(Classify(b), b)
           /\ "Unknown" \in ScanState /\ "Utf8Latin1" \in ScanState
  <1>1. Classify(b) \in Terminal
    BY Classes
  <1>2. Classify(b) \in ScanState /\ TrueOf(Classify(b), b)
    BY <1>1 DEF ScanState, TrueOf, Admits
  <1>3. TrueOf("Unknown", b)
    BY <1>1 DEF TrueOf, Admits, Terminal
  <1>4. QED
    BY <1>2, <1>3 DEF ScanState, Terminal

\* Two states true of the same bytes meet in a true state that narrows both.
LEMMA MeetTrue ==
    ASSUME NEW s \in ScanState, NEW t \in ScanState, NEW b, TrueOf(s, b), TrueOf(t, b)
    PROVE  /\ Meet(s, t) \in ScanState /\ TrueOf(Meet(s, t), b)
           /\ Narrows(Meet(s, t), s) /\ Narrows(Meet(s, t), t)
  <1>1. Classify(b) \in Admits(s) \cap Admits(t)
    BY DEF TrueOf
  <1>2. Meet(s, t) \in ScanState /\ Admits(Meet(s, t)) = Admits(s) \cap Admits(t)
    BY <1>1, MeetExact
  <1>3. QED
    BY <1>1, <1>2 DEF TrueOf, Narrows

\* The facts of two states true of the same bytes do not contradict each other.
LEMMA NoContradictionOf ==
    ASSUME NEW s \in ScanState, NEW t \in ScanState, NEW b \in Seq(Byte), TrueOf(s, b), TrueOf(t, b)
    PROVE  ~Contradiction(Derived(Facts(s) \cup Facts(t)))
  <1> DEFINE c == Classify(b)
             f == Derived(Facts(s) \cup Facts(t))
  <1>1. c \in Terminal /\ c \in Admits(s) /\ c \in Admits(t)
    BY Classes DEF TrueOf
  <1> HIDE DEF c
  <1>2. Facts(s) \subseteq Truths(c) /\ Facts(t) \subseteq Truths(c)
    BY <1>1, AdmitsByFacts
  <1>3. f \subseteq Truths(c)
    BY <1>1, <1>2, DerivedSound
  <1> HIDE DEF f
  <1>4. ~Contradiction(f)
    BY <1>1, <1>3 DEF Contradiction, Truths, Terminal
  <1>5. QED
    BY <1>4 DEF f

\* A state that decides a question answers it right, except as_str through a
\* view of an adopted object, which is answered by what is known so far.
LEMMA DecidedRight ==
    ASSUME bytes \in Seq(Byte), backing \in {"heap", "adopted"},
           NEW q \in Question, NEW s \in ScanState, TrueOf(s, bytes), Decided(q, s),
           ~(backing = "adopted" /\ q = "as_str")
    PROVE  FromState(q, s) = Truth(q, bytes)
  <1> DEFINE c == Classify(bytes)
  <1>1. /\ c \in Terminal /\ c \in Admits(s)
        /\ c = "MalformedUtf8" <=> ~IsPerlValid(bytes)
        /\ c = "Ascii" <=> IsAsciiOnly(bytes)
    BY Classes DEF TrueOf
  <1>2. IsAsciiOnly(bytes) => Chars(bytes) = Len(bytes)
    BY CharsType
  <1> HIDE DEF c
  <1>3. CASE q = "as_str"
    <2>1. AsStrDecided(s) /\ backing = "heap"
      BY <1>3 DEF Decided
    <2>2. s \in Terminal \cup {"MaybeUtf8Latin1", "ValidUtf8", "Utf8NonAscii"}
      BY <2>1 DEF AsStrDecided, IsRustValid, Terminal
    <2>3. IsRustValid(s) = (c \in ValidRange)
      BY <1>1, <2>2 DEF IsRustValid, ValidRange, Admits, Terminal
    <2>4. FromState(q, s) = IsRustValid(s) /\ Truth(q, bytes) = (c \in ValidRange)
      BY <1>3 DEF FromState, Truth, c
    <2>5. QED
      BY <2>3, <2>4, Zenon
  <1>4. CASE q = "is_ascii"
    <2>1. IsAsciiDecided(s)
      BY <1>4 DEF Decided
    <2>2. (s = "Ascii") = (c = "Ascii")
      BY <1>1, <2>1 DEF IsAsciiDecided, IsKnownNonAscii, Admits, Terminal, ScanState
    <2>3. FromState(q, s) = (s = "Ascii") /\ Truth(q, bytes) = IsAsciiOnly(bytes)
      BY <1>4 DEF FromState, Truth
    <2>4. IsAsciiOnly(bytes) \in BOOLEAN
      BY DEF IsAsciiOnly
    <2>5. (c = "Ascii") = IsAsciiOnly(bytes)
      BY <1>1, <2>4, Zenon
    <2>6. QED
      BY <2>2, <2>3, <2>5, Zenon
  <1>5. CASE q = "is_perl_utf8_valid"
    <2>1. PerlValidDecided(s)
      BY <1>5 DEF Decided
    <2>2. IsPerlDecodable(s) = (c # "MalformedUtf8")
      BY <1>1, <2>1 DEF PerlValidDecided, IsPerlDecodable, IsRustValid, Admits, Terminal, ScanState
    <2>3. FromState(q, s) = IsPerlDecodable(s) /\ Truth(q, bytes) = IsPerlValid(bytes)
      BY <1>5 DEF FromState, Truth
    <2>4. IsPerlValid(bytes) \in BOOLEAN
      BY DEF IsPerlValid
    <2>5. (c # "MalformedUtf8") = IsPerlValid(bytes)
      BY <1>1, <2>4, Zenon
    <2>6. QED
      BY <2>2, <2>3, <2>5, Zenon
  <1>6. CASE q = "char_len"
    <2>1. s \in {"Ascii", "MalformedUtf8"}
      BY <1>6 DEF Decided, CharLenDecided
    <2>2. c = s
      BY <1>1, <2>1 DEF Admits, Terminal
    <2>3. FromState(q, s) = (IF s = "Ascii" THEN Len(bytes) ELSE -1)
      BY <1>6 DEF FromState
    <2>4. Truth(q, bytes) = (IF IsPerlValid(bytes) THEN Chars(bytes) ELSE -1)
      BY <1>6 DEF Truth
    <2>5. CASE s = "Ascii"
      BY <1>1, <1>2, <2>2, <2>3, <2>4, <2>5
    <2>6. CASE s = "MalformedUtf8"
      BY <1>1, <2>2, <2>3, <2>4, <2>6
    <2>7. QED
      BY <2>1, <2>5, <2>6
  <1>7. CASE q \in {"eq", "hash"}
    <2>1. FromState(q, s) = TRUE /\ Truth(q, bytes) = TRUE
      BY <1>7 DEF FromState, Truth
    <2>2. QED
      BY <2>1
  <1>8. QED
    BY <1>3, <1>4, <1>5, <1>6, <1>7 DEF Question

\* What as_str takes from a state that decides it is sound, on either backing.
LEMMA StrDecidedSound ==
    ASSUME bytes \in Seq(Byte), NEW s \in ScanState, TrueOf(s, bytes), Decided("as_str", s)
    PROVE  StrSound(FromState("as_str", s))
  <1> DEFINE c == Classify(bytes)
  <1>1. c \in Admits(s) /\ (c = "Ascii" <=> IsAsciiOnly(bytes))
    BY Classes DEF TrueOf
  <1> HIDE DEF c
  <1>2. FromState("as_str", s) = IsRustValid(s)
    BY DEF FromState
  <1>3. CASE IsRustValid(s)
    <2>1. c \in ValidRange
      BY <1>1, <1>3 DEF IsRustValid, ValidRange, Admits, Terminal
    <2>2. QED
      BY <1>2, <1>3, <2>1 DEF StrSound, c
  <1>4. CASE ~IsRustValid(s)
    <2>1. s \in {"MalformedUtf8", "ExtendedUtf8", "PerlValidNonAscii"}
      BY <1>4 DEF Decided, AsStrDecided
    <2>2. c # "Ascii"
      BY <1>1, <2>1 DEF Admits, Terminal
    <2>3. ~IsAsciiOnly(bytes)
      BY <1>1, <2>2
    <2>4. QED
      BY <1>2, <1>4, <2>3 DEF StrSound
  <1>5. QED
    BY <1>3, <1>4

\* What a pass certifies is true of the bytes it read.
LEMMA CertificatesTrue ==
    ASSUME bytes \in Seq(Byte), NEW q \in Question, NEW s \in ScanState, TrueOf(s, bytes),
           NEW c \in Certificates(q, s)
    PROVE  c \in ScanState /\ TrueOf(c, bytes)
  <1> DEFINE k == Classify(bytes)
  <1>1. k \in Terminal /\ k \in Admits(s) /\ (k = "Ascii" <=> IsAsciiOnly(bytes))
    BY Classes DEF TrueOf
  <1>2. k \in ScanState /\ k \in Admits(k)
    BY TruthsOf DEF TrueOf
  <1> HIDE DEF k
  <1>3. CASE IsAsciiOnly(bytes) /\ c = "Ascii"
    BY <1>1, <1>2, <1>3 DEF TrueOf, k
  <1>4. CASE ~IsAsciiOnly(bytes) /\ c = "NonAscii"
    BY <1>1, <1>4 DEF TrueOf, k, Admits, ScanState, Terminal
  <1>5. CASE ~IsAsciiOnly(bytes) /\ s = "ValidUtf8" /\ c = "Utf8NonAscii"
    BY <1>1, <1>5 DEF TrueOf, k, Admits, ScanState, Terminal
  <1>6. CASE c = k
    BY <1>2, <1>6 DEF TrueOf, k
  <1>7. CASE q = "is_ascii"
    <2>1. c = AsciiCertificate(s)
      BY <1>7 DEF Certificates
    <2>2. QED
      BY <1>3, <1>4, <1>5, <2>1 DEF AsciiCertificate
  <1>8. CASE q = "eq"
    <2>1. c \in EqCertificates
      BY <1>8 DEF Certificates
    <2>2. c = k \/ c = IF IsAsciiOnly(bytes) THEN "Ascii" ELSE "NonAscii"
      BY <2>1 DEF EqCertificates, k
    <2>3. QED
      BY <1>3, <1>4, <1>6, <2>2
  <1>9. CASE q \notin {"is_ascii", "eq"}
    <2>1. c \in {k}
      BY <1>9 DEF Certificates, k
    <2>2. QED
      BY <1>6, <2>1
  <1>10. QED
    BY <1>7, <1>8, <1>9

-----------------------------------------------------------------------------
(* The invariant.                                                          *)

\* The caches of a newborn buffer are true, and nobody is busy with it.
LEMMA BornTrue ==
    ASSUME NEW k \in {"heap", "adopted"}, NEW b \in Contents, NEW s \in BirthStates(k, b),
           NEW n \in BirthCounts(k, b)
    PROVE  s \in ScanState /\ TrueOf(s, b) /\ n \in {0, Chars(b)} /\ n \in Nat
  <1>1. b \in Seq(Byte)
    BY ContentsAre
  <1>2. Classify(b) \in ScanState /\ TrueOf(Classify(b), b)
    BY <1>1, TruthsOf
  <1>3. n \in {0, Chars(b)} /\ Chars(b) \in Nat
    BY <1>1, CharsType DEF BirthCounts
  <1>4. s \in ScanState /\ TrueOf(s, b)
    BY <1>2 DEF BirthStates, ScanState, Terminal
  <1>5. QED
    BY <1>3, <1>4

\* A state narrows itself.
LEMMA NarrowsSelf == \A s : Narrows(s, s)
  BY DEF Narrows

\* The invariant holds at first.
LEMMA InitTrue == Init => IInv
  <1>1. SUFFICES ASSUME Init PROVE IInv
    OBVIOUS
  <1>2. PICK k \in {"heap", "adopted"}, b \in Contents, r \in Reader :
        \E s \in BirthStates(k, b), n \in BirthCounts(k, b) :
        /\ backing = k /\ bytes = b /\ scan = s /\ count = n
        /\ past = {s}
        /\ holds = {r}
        /\ env = [q \in Reader |-> IF q = r /\ k = "adopted" THEN s ELSE "Unknown"]
        /\ views = {}
        /\ task = [q \in Reader |-> Idle]
    BY <1>1 DEF Init
  <1>3. PICK s \in BirthStates(k, b), n \in BirthCounts(k, b) :
        /\ backing = k /\ bytes = b /\ scan = s /\ count = n
        /\ past = {s}
        /\ holds = {r}
        /\ env = [q \in Reader |-> IF q = r /\ k = "adopted" THEN s ELSE "Unknown"]
        /\ views = {}
        /\ task = [q \in Reader |-> Idle]
    BY <1>2
  <1>4. s \in ScanState /\ TrueOf(s, b) /\ n \in {0, Chars(b)} /\ n \in Nat
    BY BornTrue
  <1>5. b \in Seq(Byte)
    BY ContentsAre
  <1>6. TrueOf("Unknown", b) /\ "Unknown" \in ScanState
    BY <1>5, TruthsOf
  <1>7. Types
    BY <1>3, <1>4, <1>6 DEF Types
  <1>8. Slots
    BY <1>3, <1>4, NarrowsSelf DEF Slots
  <1>9. Envelopes
    BY <1>3, <1>4, <1>6 DEF Envelopes, ViewsTrue
  <1>10. Steps
    <2>1. \A q \in Reader : task[q].pc = "idle"
      BY <1>3 DEF Idle
    <2>2. QED
      BY <2>1 DEF Steps, Good, TaskPc
  <1>11. QED
    BY <1>7, <1>8, <1>9, <1>10 DEF IInv

\* A freed buffer's successor is as true as a first one.
LEMMA RebirthKeeps ==
    ASSUME IInv, NEW r \in Reader, Rebirth(r)
    PROVE  IInv'
  <1>1. PICK k \in {"heap", "adopted"}, b \in Contents :
        \E s \in BirthStates(k, b), n \in BirthCounts(k, b) : Born(k, b, s, n, r)
    BY DEF Rebirth
  <1>2. PICK s \in BirthStates(k, b), n \in BirthCounts(k, b) : Born(k, b, s, n, r)
    BY <1>1
  <1>3. /\ backing' = k /\ bytes' = b /\ scan' = s /\ count' = n
        /\ past' = {s}
        /\ holds' = {r}
        /\ env' = [q \in Reader |-> IF q = r /\ k = "adopted" THEN s ELSE "Unknown"]
        /\ views' = {}
        /\ task' = task
        /\ holds = {}
    BY <1>2 DEF Born, Rebirth
  <1>4. s \in ScanState /\ TrueOf(s, b) /\ n \in {0, Chars(b)} /\ n \in Nat
    BY BornTrue
  <1>5. b \in Seq(Byte)
    BY ContentsAre
  <1>6. TrueOf("Unknown", b) /\ "Unknown" \in ScanState
    BY <1>5, TruthsOf
  <1>7. Types'
    BY <1>3, <1>4, <1>6 DEF Types, IInv
  <1>8. Slots'
    BY <1>3, <1>4, NarrowsSelf DEF Slots
  <1>9. Envelopes'
    BY <1>3, <1>4, <1>6 DEF Envelopes, ViewsTrue
  <1>10. Steps'
    <2>1. \A q \in Reader : task[q].pc = "idle"
      BY <1>3 DEF IInv, Steps
    <2>2. QED
      BY <1>3, <2>1 DEF Steps, Good, TaskPc
  <1>11. QED
    BY <1>7, <1>8, <1>9, <1>10 DEF IInv

\* Only one thread's task changes, to one that carries nothing false.
LEMMA TaskStep ==
    ASSUME IInv, NEW r \in Reader, r \in holds, NEW t, Good(t), SetTask(r, t),
           UNCHANGED <<backing, bytes, scan, count, past, holds, env, views>>
    PROVE  IInv'
  <1>1. /\ backing' = backing /\ bytes' = bytes /\ scan' = scan /\ count' = count /\ past' = past
        /\ holds' = holds /\ env' = env /\ views' = views
    OBVIOUS
  <1>2. task' = [task EXCEPT ![r] = t] /\ task = [q \in Reader |-> task[q]]
    BY DEF SetTask, IInv, Types
  <1>3. task'[r] = t /\ \A q \in Reader \ {r} : task'[q] = task[q]
    BY <1>2
  <1>4. task' = [q \in Reader |-> task'[q]]
    BY <1>2
  <1>5. Types'
    BY <1>1, <1>4 DEF IInv, Types
  <1>6. Slots' /\ Envelopes'
    BY <1>1 DEF IInv, Slots, Envelopes, ViewsTrue
  <1>7. ASSUME NEW q \in Reader PROVE Good(task[q])' /\ (task'[q].pc # "idle" => q \in holds')
    <2>1. CASE q = r
      BY <1>1, <1>3, <2>1 DEF Good, StrSound
    <2>2. CASE q # r
      <3>1. task'[q] = task[q]
        BY <1>3, <2>2
      <3>2. Good(task[q]) /\ (task[q].pc # "idle" => q \in holds)
        BY DEF IInv, Steps
      <3>3. QED
        BY <1>1, <3>1, <3>2 DEF Good, StrSound
    <2>3. QED
      BY <2>1, <2>2
  <1>8. Steps'
    BY <1>7 DEF Steps
  <1>9. QED
    BY <1>5, <1>6, <1>8 DEF IInv

\* A busy thread holds the buffer, and what it carries is true.
LEMMA Busy ==
    ASSUME IInv, NEW r \in Reader, task[r].pc # "idle"
    PROVE  r \in holds /\ Good(task[r])
  BY DEF IInv, Steps

\* Asking: the answer taken at once is right, and a pass certifies the truth.
LEMMA AskKeeps ==
    ASSUME IInv, NEW r \in Reader, NEW q \in Question, Ask(r, q)
    PROVE  IInv'
  <1>1. r \in holds /\ UNCHANGED <<backing, bytes, scan, count, past, holds, env, views>>
    BY DEF Ask
  <1>2. PICK s \in past :
        LET met == Meet(env[r], s)
        IN  IF Decided(q, met) THEN SetTask(r, [pc |-> "answered", q |-> q, answer |-> FromState(q, met)])
            ELSE IF q = "char_len" THEN SetTask(r, [pc |-> "count"])
            ELSE \E c \in Certificates(q, met) : SetTask(r, Walked(q, c))
    BY DEF Ask
  <1> DEFINE met == Meet(env[r], s)
  <1>3. bytes \in Seq(Byte) /\ backing \in {"heap", "adopted"}
    BY ContentsAre DEF IInv, Types
  <1>4. met \in ScanState /\ TrueOf(met, bytes)
    <2>1. env[r] \in ScanState /\ s \in ScanState /\ TrueOf(env[r], bytes) /\ TrueOf(s, bytes)
      BY DEF IInv, Types, Slots, Envelopes
    <2>2. QED
      BY <2>1, MeetTrue
  <1>5. IF Decided(q, met) THEN SetTask(r, [pc |-> "answered", q |-> q, answer |-> FromState(q, met)])
        ELSE IF q = "char_len" THEN SetTask(r, [pc |-> "count"])
        ELSE \E c \in Certificates(q, met) : SetTask(r, Walked(q, c))
    BY <1>2
  <1> HIDE DEF met
  <1>6. CASE Decided(q, met)
    <2> DEFINE t == [pc |-> "answered", q |-> q, answer |-> FromState(q, met)]
    <2>1. SetTask(r, t)
      BY <1>5, <1>6
    <2>2. ~(backing = "adopted" /\ q = "as_str") => FromState(q, met) = Truth(q, bytes)
      BY <1>3, <1>4, <1>6, DecidedRight
    <2>3. q = "as_str" => StrSound(FromState(q, met))
      BY <1>3, <1>4, <1>6, StrDecidedSound
    <2>4. t.pc = "answered" /\ t.q = q /\ t.answer = FromState(q, met)
      OBVIOUS
    <2> HIDE DEF t
    <2>5. Good(t)
      BY <2>2, <2>3, <2>4 DEF Good, TaskPc
    <2>6. QED
      BY <1>1, <2>1, <2>5, TaskStep
  <1>7. CASE ~Decided(q, met) /\ q = "char_len"
    <2> DEFINE t == [pc |-> "count"]
    <2>1. SetTask(r, t)
      BY <1>5, <1>7
    <2>2. t.pc = "count"
      OBVIOUS
    <2> HIDE DEF t
    <2>3. Good(t)
      BY <2>2 DEF Good, TaskPc
    <2>4. QED
      BY <1>1, <2>1, <2>3, TaskStep
  <1>8. CASE ~Decided(q, met) /\ q # "char_len"
    <2>1. PICK c \in Certificates(q, met) : SetTask(r, Walked(q, c))
      BY <1>5, <1>8
    <2>2. c \in ScanState /\ TrueOf(c, bytes)
      BY <1>3, <1>4, CertificatesTrue
    <2>3. Good(Walked(q, c))
      BY <2>2 DEF Good, TaskPc, Walked
    <2>4. QED
      BY <1>1, <2>1, <2>3, TaskStep
  <1>9. QED
    BY <1>6, <1>7, <1>8

\* A count that is there answers char_len.
LEMMA LoadCountKeeps ==
    ASSUME IInv, NEW r \in Reader, LoadCount(r)
    PROVE  IInv'
  <1>1. r \in holds /\ UNCHANGED <<backing, bytes, scan, count, past, holds, env, views>>
    BY Busy DEF LoadCount
  <1>2. PICK n \in {0, count} :
        SetTask(r, IF n > 0 THEN [pc |-> "answered", q |-> "char_len", answer |-> n]
                   ELSE Walked("char_len", Classify(bytes)))
    BY DEF LoadCount
  <1>3. bytes \in Seq(Byte) /\ n \in {0, Chars(bytes)}
    BY ContentsAre DEF IInv, Types, Slots
  <1>4. CASE n > 0
    <2> DEFINE t == [pc |-> "answered", q |-> "char_len", answer |-> n]
    <2>1. SetTask(r, t)
      BY <1>2, <1>4
    <2>2. n = Chars(bytes) /\ IsPerlValid(bytes)
      BY <1>3, <1>4, CharsType
    <2>3. Truth("char_len", bytes) = n
      BY <2>2 DEF Truth
    <2>4. t.pc = "answered" /\ t.q = "char_len" /\ t.answer = n
      OBVIOUS
    <2> HIDE DEF t
    <2>5. Good(t)
      BY <2>3, <2>4 DEF Good, TaskPc
    <2>6. QED
      BY <1>1, <2>1, <2>5, TaskStep
  <1>5. CASE ~(n > 0)
    <2>1. SetTask(r, Walked("char_len", Classify(bytes)))
      BY <1>2, <1>5
    <2>2. Classify(bytes) \in ScanState /\ TrueOf(Classify(bytes), bytes)
      BY <1>3, TruthsOf
    <2>3. Good(Walked("char_len", Classify(bytes)))
      BY <2>2 DEF Good, TaskPc, Walked
    <2>4. QED
      BY <1>1, <2>1, <2>3, TaskStep
  <1>6. QED
    BY <1>4, <1>5

\* The loop starts from a state the slot held.
LEMMA LoadScanKeeps ==
    ASSUME IInv, NEW r \in Reader, LoadScan(r)
    PROVE  IInv'
  <1>1. r \in holds /\ Good(task[r]) /\ task[r].pc = "load"
    BY Busy DEF LoadScan
  <1>2. UNCHANGED <<backing, bytes, scan, count, past, holds, env, views>>
    BY DEF LoadScan
  <1>3. PICK s \in past :
        SetTask(r, [pc |-> "narrow", cert |-> task[r].cert, counts |-> task[r].counts, current |-> s])
    BY DEF LoadScan
  <1> DEFINE t == [pc |-> "narrow", cert |-> task[r].cert, counts |-> task[r].counts, current |-> s]
  <1>4. /\ t.pc = "narrow" /\ t.cert = task[r].cert
        /\ t \in [pc : {"narrow"}, cert : ScanState, counts : BOOLEAN, current : past]
    BY <1>1 DEF Good
  <1> HIDE DEF t
  <1>5. Good(t)
    BY <1>1, <1>4 DEF Good, TaskPc
  <1>6. SetTask(r, t)
    BY <1>3 DEF t
  <1>7. QED
    BY <1>1, <1>2, <1>5, <1>6, TaskStep

\* What a thread in the loop merges is true and narrows both sides.
LEMMA MergedTrue ==
    ASSUME IInv, NEW r \in Reader, task[r].pc = "narrow"
    PROVE  /\ r \in holds
           /\ task[r].cert \in ScanState /\ TrueOf(task[r].cert, bytes)
           /\ task[r].current \in past
           /\ Merged(r) \in ScanState /\ TrueOf(Merged(r), bytes)
           /\ Narrows(Merged(r), task[r].current) /\ Narrows(Merged(r), task[r].cert)
  <1>1. r \in holds /\ Good(task[r])
    BY Busy
  <1>2. task[r].cert \in ScanState /\ TrueOf(task[r].cert, bytes) /\ task[r].current \in past
    BY <1>1 DEF Good
  <1>3. task[r].current \in ScanState /\ TrueOf(task[r].current, bytes)
    BY <1>2 DEF IInv, Types, Slots
  <1>4. QED
    BY <1>1, <1>2, <1>3, MeetTrue DEF Merged

\* Narrowing is transitive.
LEMMA NarrowsOn ==
    ASSUME NEW s, NEW t, NEW u, Narrows(s, t), Narrows(t, u)
    PROVE  Narrows(s, u)
  BY DEF Narrows

\* A merge that changes nothing shows that the slot narrows the certificate.
LEMMA NarrowNothingKeeps ==
    ASSUME IInv, NEW r \in Reader, NarrowNothing(r)
    PROVE  IInv'
  <1>1. /\ task[r].pc = "narrow" /\ Merged(r) = task[r].current /\ AfterNarrow(r)
        /\ UNCHANGED <<backing, bytes, scan, count, past, holds, env, views>>
    BY DEF NarrowNothing
  <1>2. /\ r \in holds /\ task[r].cert \in ScanState /\ TrueOf(task[r].cert, bytes)
        /\ task[r].current \in past /\ Narrows(Merged(r), task[r].cert)
    BY <1>1, MergedTrue
  <1>3. Narrows(scan, task[r].cert)
    BY <1>1, <1>2, NarrowsOn DEF IInv, Slots
  <1> DEFINE t == [pc |-> IF task[r].counts THEN "store" ELSE "recorded", cert |-> task[r].cert]
  <1>4. t.pc \in {"store", "recorded"} /\ t.cert = task[r].cert
    OBVIOUS
  <1>5. SetTask(r, t)
    BY <1>1 DEF AfterNarrow
  <1> HIDE DEF t
  <1>6. Good(t)
    BY <1>2, <1>3, <1>4 DEF Good, TaskPc
  <1>7. QED
    BY <1>1, <1>2, <1>5, <1>6, TaskStep

\* A failed compare-exchange returns a state the slot held.
LEMMA NarrowRetryKeeps ==
    ASSUME IInv, NEW r \in Reader, NarrowRetry(r)
    PROVE  IInv'
  <1>1. /\ task[r].pc = "narrow" /\ SetTask(r, [task[r] EXCEPT !.current = scan])
        /\ UNCHANGED <<backing, bytes, scan, count, past, holds, env, views>>
    BY DEF NarrowRetry
  <1>2. r \in holds /\ Good(task[r])
    BY <1>1, Busy
  <1>3. scan \in past
    BY DEF IInv, Types
  <1> DEFINE t == [task[r] EXCEPT !.current = scan]
  <1>4. /\ task[r].cert \in ScanState /\ TrueOf(task[r].cert, bytes)
        /\ task[r] \in [pc : {"narrow"}, cert : ScanState, counts : BOOLEAN, current : past]
    BY <1>1, <1>2 DEF Good
  <1>5. /\ t.pc = "narrow" /\ t.cert = task[r].cert
        /\ t \in [pc : {"narrow"}, cert : ScanState, counts : BOOLEAN, current : past]
    BY <1>3, <1>4
  <1>6. SetTask(r, t)
    BY <1>1
  <1> HIDE DEF t
  <1>7. Good(t)
    BY <1>4, <1>5 DEF Good, TaskPc
  <1>8. QED
    BY <1>1, <1>2, <1>6, <1>7, TaskStep

\* The compare-exchange installs a state that narrows all the slot held.
LEMMA NarrowSwapKeeps ==
    ASSUME IInv, NEW r \in Reader, NarrowSwap(r)
    PROVE  IInv' /\ Narrows(scan', scan)
  <1>1. /\ task[r].pc = "narrow" /\ scan = task[r].current /\ scan' = Merged(r)
        /\ past' = past \cup {scan'} /\ AfterNarrow(r)
        /\ backing' = backing /\ bytes' = bytes /\ count' = count /\ holds' = holds
        /\ env' = env /\ views' = views
    BY DEF NarrowSwap
  <1>2. /\ r \in holds /\ task[r].cert \in ScanState /\ TrueOf(task[r].cert, bytes)
        /\ scan' \in ScanState /\ TrueOf(scan', bytes)
        /\ Narrows(scan', scan) /\ Narrows(scan', task[r].cert)
    BY <1>1, MergedTrue
  <1> DEFINE t == [pc |-> IF task[r].counts THEN "store" ELSE "recorded", cert |-> task[r].cert]
  <1>3. t.pc \in {"store", "recorded"} /\ t.cert = task[r].cert
    OBVIOUS
  <1>4. SetTask(r, t)
    BY <1>1 DEF AfterNarrow
  <1> HIDE DEF t
  <1>5. task' = [task EXCEPT ![r] = t] /\ task = [q \in Reader |-> task[q]]
    BY <1>4 DEF SetTask, IInv, Types
  <1>6. task'[r] = t /\ (\A q \in Reader \ {r} : task'[q] = task[q]) /\ task' = [q \in Reader |-> task'[q]]
    BY <1>5
  <1>7. Types'
    BY <1>1, <1>2, <1>6 DEF IInv, Types
  <1>8. Slots'
    <2>1. ASSUME NEW s \in past' PROVE TrueOf(s, bytes) /\ Narrows(scan', s)
      <3>1. CASE s = scan'
        BY <1>2, <3>1, NarrowsSelf
      <3>2. CASE s \in past
        <4>1. TrueOf(s, bytes) /\ Narrows(scan, s)
          BY <3>2 DEF IInv, Slots
        <4>2. QED
          BY <1>2, <4>1, NarrowsOn
      <3>3. QED
        BY <1>1, <3>1, <3>2
    <2>2. QED
      BY <1>1, <2>1 DEF IInv, Slots
  <1>9. Envelopes'
    BY <1>1 DEF IInv, Envelopes, ViewsTrue
  <1>10. ASSUME NEW q \in Reader PROVE Good(task[q])' /\ (task'[q].pc # "idle" => q \in holds')
    <2>1. CASE q = r
      BY <1>1, <1>2, <1>3, <1>6, <2>1 DEF Good, TaskPc
    <2>2. CASE q # r
      <3>1. task'[q] = task[q]
        BY <1>6, <2>2
      <3>2. Good(task[q]) /\ (task[q].pc # "idle" => q \in holds)
        BY DEF IInv, Steps
      <3>3. task[q].pc \in {"store", "recorded"} => Narrows(scan', task[q].cert)
        <4>1. task[q].pc \in {"store", "recorded"} => Narrows(scan, task[q].cert)
          BY <3>2 DEF Good
        <4>2. QED
          BY <1>2, <4>1, NarrowsOn
      <3>4. task[q].pc = "narrow" =>
              task[q] \in [pc : {"narrow"}, cert : ScanState, counts : BOOLEAN, current : past']
        <4>1. task[q].pc = "narrow" =>
                task[q] \in [pc : {"narrow"}, cert : ScanState, counts : BOOLEAN, current : past]
          BY <3>2 DEF Good
        <4>2. past \subseteq past'
          BY <1>1
        <4>3. QED
          BY <4>1, <4>2
      <3>5. QED
        BY <1>1, <3>1, <3>2, <3>3, <3>4 DEF Good, StrSound
    <2>3. QED
      BY <2>1, <2>2
  <1>11. Steps'
    BY <1>10 DEF Steps
  <1>12. QED
    BY <1>2, <1>7, <1>8, <1>9, <1>11 DEF IInv

\* The count that is stored is the count of the bytes, as was any before it.
LEMMA StoreCountKeeps ==
    ASSUME IInv, NEW r \in Reader, StoreCount(r)
    PROVE  IInv' /\ (count # 0 => count' = count)
  <1>1. /\ task[r].pc = "store" /\ count' = Chars(bytes)
        /\ SetTask(r, [pc |-> "recorded", cert |-> task[r].cert])
        /\ backing' = backing /\ bytes' = bytes /\ scan' = scan /\ past' = past /\ holds' = holds
        /\ env' = env /\ views' = views
    BY DEF StoreCount
  <1>2. r \in holds /\ Good(task[r])
    BY <1>1, Busy
  <1> DEFINE t == [pc |-> "recorded", cert |-> task[r].cert]
  <1>3. t.pc = "recorded" /\ t.cert = task[r].cert
    OBVIOUS
  <1>4. SetTask(r, t)
    BY <1>1
  <1> HIDE DEF t
  <1>5. task' = [task EXCEPT ![r] = t] /\ task = [q \in Reader |-> task[q]]
    BY <1>4 DEF SetTask, IInv, Types
  <1>6. task'[r] = t /\ (\A q \in Reader \ {r} : task'[q] = task[q]) /\ task' = [q \in Reader |-> task'[q]]
    BY <1>5
  <1>7. bytes \in Seq(Byte) /\ Chars(bytes) \in Nat /\ count \in {0, Chars(bytes)}
    BY ContentsAre, CharsType DEF IInv, Types, Slots
  <1>8. Types'
    BY <1>1, <1>6, <1>7 DEF IInv, Types
  <1>9. Slots' /\ Envelopes'
    BY <1>1 DEF IInv, Slots, Envelopes, ViewsTrue
  <1>10. ASSUME NEW q \in Reader PROVE Good(task[q])' /\ (task'[q].pc # "idle" => q \in holds')
    <2>1. CASE q = r
      BY <1>1, <1>2, <1>3, <1>6, <2>1 DEF Good, TaskPc
    <2>2. CASE q # r
      <3>1. task'[q] = task[q]
        BY <1>6, <2>2
      <3>2. Good(task[q]) /\ (task[q].pc # "idle" => q \in holds)
        BY DEF IInv, Steps
      <3>3. QED
        BY <1>1, <3>1, <3>2 DEF Good, StrSound
    <2>3. QED
      BY <2>1, <2>2
  <1>11. Steps'
    BY <1>10 DEF Steps
  <1>12. QED
    BY <1>1, <1>7, <1>8, <1>9, <1>11 DEF IInv

\* A thread that is done carries nothing.
LEMMA ReturnKeeps ==
    ASSUME IInv, NEW r \in Reader, Return(r)
    PROVE  IInv'
  <1>1. /\ task[r].pc \in {"answered", "recorded"} /\ SetTask(r, Idle)
        /\ UNCHANGED <<backing, bytes, scan, count, past, holds, env, views>>
    BY DEF Return
  <1>2. r \in holds
    BY <1>1, Busy
  <1>3. Idle.pc = "idle"
    BY DEF Idle
  <1>4. Good(Idle)
    BY <1>3 DEF Good, TaskPc
  <1>5. QED
    BY <1>1, <1>2, <1>4, TaskStep

\* The handles change hands: a true envelope byte is copied, or dropped.
LEMMA HandleStep ==
    ASSUME IInv, NEW r \in Reader, NEW s \in ScanState, TrueOf(s, bytes),
           backing = "heap" => s = "Unknown",
           env' = [env EXCEPT ![r] = s],
           holds' \subseteq Reader, \A q \in Reader : task[q].pc # "idle" => q \in holds',
           UNCHANGED <<backing, bytes, scan, count, past, views, task>>
    PROVE  IInv'
  <1>1. /\ backing' = backing /\ bytes' = bytes /\ scan' = scan /\ count' = count /\ past' = past
        /\ views' = views /\ task' = task
    OBVIOUS
  <1>2. env' \in [Reader -> ScanState] /\ \A q \in Reader : env'[q] = IF q = r THEN s ELSE env[q]
    BY DEF IInv, Types
  <1>3. Types'
    BY <1>1, <1>2 DEF IInv, Types
  <1>4. Slots'
    BY <1>1 DEF IInv, Slots
  <1>5. Envelopes'
    BY <1>1, <1>2 DEF IInv, Envelopes, ViewsTrue
  <1>6. Steps'
    <2>1. ASSUME NEW q \in Reader PROVE Good(task[q])'
      <3>1. Good(task[q])
        BY DEF IInv, Steps
      <3>2. QED
        BY <1>1, <3>1 DEF Good, StrSound
    <2>2. QED
      BY <1>1, <2>1 DEF Steps
  <1>7. QED
    BY <1>3, <1>4, <1>5, <1>6 DEF IInv

\* A clone knows what its original did.
LEMMA CloneKeeps ==
    ASSUME IInv, NEW r \in Reader, NEW q \in Reader, Clone(r, q)
    PROVE  IInv'
  <1>1. /\ holds' = holds \cup {q} /\ env' = [env EXCEPT ![q] = env[r]]
        /\ UNCHANGED <<backing, bytes, scan, count, past, views, task>>
    BY DEF Clone
  <1>2. env[r] \in ScanState /\ TrueOf(env[r], bytes) /\ (backing = "heap" => env[r] = "Unknown")
    BY DEF IInv, Types, Envelopes
  <1>3. holds' \subseteq Reader /\ \A p \in Reader : task[p].pc # "idle" => p \in holds'
    BY <1>1 DEF IInv, Types, Steps
  <1>4. QED
    BY <1>1, <1>2, <1>3, HandleStep

\* Only an idle thread drops its handle.
LEMMA ReleaseKeeps ==
    ASSUME IInv, NEW r \in Reader, Release(r)
    PROVE  IInv'
  <1>1. /\ holds' = holds \ {r} /\ env' = [env EXCEPT ![r] = "Unknown"]
        /\ UNCHANGED <<backing, bytes, scan, count, past, views, task>>
        /\ task[r].pc = "idle"
    BY DEF Release, Idle
  <1>2. "Unknown" \in ScanState /\ TrueOf("Unknown", bytes)
    BY ContentsAre, TruthsOf DEF IInv, Types
  <1>3. holds' \subseteq Reader /\ \A p \in Reader : task[p].pc # "idle" => p \in holds'
    BY <1>1 DEF IInv, Types, Steps
  <1>4. QED
    BY <1>1, <1>2, <1>3, HandleStep

\* The views change: each is an old one or a true one.
LEMMA ViewStep ==
    ASSUME IInv,
           \A v \in views' : v \in views \/ (v.bytes \in Contents /\ v.scan \in ScanState /\ TrueOf(v.scan, v.bytes)),
           UNCHANGED <<backing, bytes, scan, count, past, holds, env, task>>
    PROVE  IInv'
  <1>1. /\ backing' = backing /\ bytes' = bytes /\ scan' = scan /\ count' = count /\ past' = past
        /\ holds' = holds /\ env' = env /\ task' = task
    OBVIOUS
  <1>2. \A v \in views' : v.bytes \in Contents /\ v.scan \in ScanState /\ TrueOf(v.scan, v.bytes)
    BY DEF IInv, Types, Envelopes, ViewsTrue
  <1>3. Types' /\ Slots'
    BY <1>1, <1>2 DEF IInv, Types, Slots
  <1>4. Envelopes'
    BY <1>1, <1>2 DEF IInv, Envelopes, ViewsTrue
  <1>5. Steps'
    <2>1. ASSUME NEW q \in Reader PROVE Good(task[q])'
      <3>1. Good(task[q])
        BY DEF IInv, Steps
      <3>2. QED
        BY <1>1, <3>1 DEF Good, StrSound
    <2>2. QED
      BY <1>1, <2>1 DEF IInv, Steps
  <1>6. QED
    BY <1>3, <1>4, <1>5 DEF IInv

\* A slice of a buffer's content, or of a view's, is one a view can have.
LEMMA SliceIn ==
    ASSUME NEW b \in Contents, NEW s \in ScanState, TrueOf(s, b),
           NEW offset \in 0 .. Len(b) - 1, NEW len \in 1 .. Len(b) - offset, NEW below \in BOOLEAN
    PROVE  /\ Slice(b, offset, len) \in Contents
           /\ ViewBirthState(s, b, offset, len, below) \in ScanState
           /\ TrueOf(ViewBirthState(s, b, offset, len, below), Slice(b, offset, len))
  <1>1. b \in Seq(Byte) /\ Len(b) \in 1 .. MaxBytes /\ MaxBytes \in Nat
    BY ContentsAre
  <1>2. offset \in Nat /\ len \in Nat \ {0} /\ offset + len <= Len(b)
    BY <1>1
  <1>3. Slice(b, offset, len) \in Seq(Byte) /\ Len(Slice(b, offset, len)) = len
    BY <1>1, <1>2, SlicedBytes
  <1>4. len \in 1 .. MaxBytes
    BY <1>1, <1>2
  <1>5. Slice(b, offset, len) \in Contents
    BY <1>3, <1>4, ContentsAre
  <1>6. QED
    BY <1>1, <1>2, <1>5, SliceSound

\* A view of the buffer is born with a true state.
LEMMA MakeViewKeeps ==
    ASSUME IInv, NEW r \in Reader, MakeView(r)
    PROVE  IInv'
  <1>1. bytes \in Contents
    BY DEF IInv, Types
  <1>2. PICK offset \in 0 .. Len(bytes) - 1 : \E len \in 1 .. Len(bytes) - offset, below \in BOOLEAN :
       \E s \in IF backing = "heap" THEN past ELSE {env[r]} :
          views' = views \cup {[bytes |-> Slice(bytes, offset, len),
                                scan |-> ViewBirthState(s, bytes, offset, len, below)]}
    BY DEF MakeView
  <1>3. PICK len \in 1 .. Len(bytes) - offset, below \in BOOLEAN :
       \E s \in IF backing = "heap" THEN past ELSE {env[r]} :
          views' = views \cup {[bytes |-> Slice(bytes, offset, len),
                                scan |-> ViewBirthState(s, bytes, offset, len, below)]}
    BY <1>2
  <1>4. PICK s \in IF backing = "heap" THEN past ELSE {env[r]} :
          views' = views \cup {[bytes |-> Slice(bytes, offset, len),
                                scan |-> ViewBirthState(s, bytes, offset, len, below)]}
    BY <1>3
  <1>5. s \in ScanState /\ TrueOf(s, bytes)
    BY DEF IInv, Types, Slots, Envelopes
  <1>6. /\ Slice(bytes, offset, len) \in Contents
        /\ ViewBirthState(s, bytes, offset, len, below) \in ScanState
        /\ TrueOf(ViewBirthState(s, bytes, offset, len, below), Slice(bytes, offset, len))
    BY <1>1, <1>5, SliceIn
  <1>7. UNCHANGED <<backing, bytes, scan, count, past, holds, env, task>>
    BY DEF MakeView
  <1> DEFINE x == Slice(bytes, offset, len)
             y == ViewBirthState(s, bytes, offset, len, below)
             w == [bytes |-> x, scan |-> y]
  <1>8. \A v \in views' : v \in views \/ (v.bytes \in Contents /\ v.scan \in ScanState /\ TrueOf(v.scan, v.bytes))
    <2>1. w.bytes = x /\ w.scan = y
      OBVIOUS
    <2>2. views' = views \cup {w}
      BY <1>4
    <2>3. x \in Contents /\ y \in ScanState /\ TrueOf(y, x)
      BY <1>6
    <2> HIDE DEF x, y, w
    <2>4. QED
      BY <2>1, <2>2, <2>3
  <1>9. QED
    BY <1>7, <1>8, ViewStep

\* A slice of a view is born with a true state of its own.
LEMMA ResliceKeeps ==
    ASSUME IInv, NEW v \in views, Reslice(v)
    PROVE  IInv'
  <1>1. v.bytes \in Contents /\ v.scan \in ScanState /\ TrueOf(v.scan, v.bytes)
    BY DEF IInv, Types, Envelopes, ViewsTrue
  <1>2. PICK offset \in 0 .. Len(v.bytes) - 1 : \E len \in 1 .. Len(v.bytes) - offset, below \in BOOLEAN :
          views' = (views \ {v}) \cup {[bytes |-> Slice(v.bytes, offset, len),
                                        scan |-> ViewBirthState(v.scan, v.bytes, offset, len, below)]}
    BY DEF Reslice
  <1>3. PICK len \in 1 .. Len(v.bytes) - offset, below \in BOOLEAN :
          views' = (views \ {v}) \cup {[bytes |-> Slice(v.bytes, offset, len),
                                        scan |-> ViewBirthState(v.scan, v.bytes, offset, len, below)]}
    BY <1>2
  <1>4. /\ Slice(v.bytes, offset, len) \in Contents
        /\ ViewBirthState(v.scan, v.bytes, offset, len, below) \in ScanState
        /\ TrueOf(ViewBirthState(v.scan, v.bytes, offset, len, below), Slice(v.bytes, offset, len))
    BY <1>1, SliceIn
  <1>5. UNCHANGED <<backing, bytes, scan, count, past, holds, env, task>>
    BY DEF Reslice
  <1> DEFINE x == Slice(v.bytes, offset, len)
             y == ViewBirthState(v.scan, v.bytes, offset, len, below)
             w == [bytes |-> x, scan |-> y]
  <1>6. \A u \in views' : u \in views \/ (u.bytes \in Contents /\ u.scan \in ScanState /\ TrueOf(u.scan, u.bytes))
    <2>1. w.bytes = x /\ w.scan = y
      OBVIOUS
    <2>2. views' = (views \ {v}) \cup {w}
      BY <1>3
    <2>3. x \in Contents /\ y \in ScanState /\ TrueOf(y, x)
      BY <1>4
    <2> HIDE DEF x, y, w
    <2>4. QED
      BY <2>1, <2>2, <2>3
  <1>7. QED
    BY <1>5, <1>6, ViewStep

\* Dropping a view leaves the others as they are.
LEMMA DropViewKeeps ==
    ASSUME IInv, NEW v \in views, DropView(v)
    PROVE  IInv'
  <1>1. UNCHANGED <<backing, bytes, scan, count, past, holds, env, task>>
    BY DEF DropView
  <1>2. \A u \in views' : u \in views \/ (u.bytes \in Contents /\ u.scan \in ScanState /\ TrueOf(u.scan, u.bytes))
    BY DEF DropView
  <1>3. QED
    BY <1>1, <1>2, ViewStep

\* A rewrite through the only handle, with true caches for the new bytes: there
\* is nobody whose task, envelope or view could tell the old ones.
LEMMA RewriteKeeps ==
    ASSUME IInv, NEW r \in Reader, IsUnique(r),
           NEW b \in Contents, NEW s \in ScanState, NEW n, TrueOf(s, b), n \in {0, Chars(b)},
           Rewrite(b, s, n)
    PROVE  IInv'
  <1>1. /\ bytes' = b /\ scan' = s /\ count' = n /\ past' = {s}
        /\ backing' = backing /\ holds' = holds /\ env' = env /\ views' = views /\ task' = task
    BY DEF Rewrite
  <1>2. backing = "heap" /\ views = {} /\ \A q \in Reader : task[q].pc = "idle"
    <2>1. task[r].pc = "idle" /\ holds = {r}
      BY DEF IsUnique, Idle
    <2>2. QED
      BY <2>1 DEF IsUnique, IInv, Steps
  <1>3. b \in Seq(Byte) /\ Chars(b) \in Nat /\ TrueOf("Unknown", b)
    BY ContentsAre, CharsType, TruthsOf
  <1>4. Types'
    BY <1>1, <1>3 DEF IInv, Types
  <1>5. Slots'
    BY <1>1, NarrowsSelf DEF Slots
  <1>6. Envelopes'
    BY <1>1, <1>2, <1>3 DEF IInv, Envelopes, ViewsTrue
  <1>7. Steps'
    BY <1>1, <1>2 DEF Steps, Good, TaskPc
  <1>8. QED
    BY <1>4, <1>5, <1>6, <1>7 DEF IInv

\* The joined count is the count of the joined bytes, or none.
LEMMA JoinedCountTrue ==
    ASSUME IInv, NEW d \in Seq(Byte), NEW state, NEW m \in {0, Chars(d)}
    PROVE  JoinedCount(state, m) \in {0, Chars(bytes \o d)}
  <1>1. bytes \in Seq(Byte) /\ count \in {0, Chars(bytes)} /\ Chars(bytes) \in Nat /\ Chars(d) \in Nat
    BY ContentsAre, CharsType DEF IInv, Types, Slots
  <1>2. CASE count > 0 /\ m > 0
    <2>1. count = Chars(bytes) /\ m = Chars(d) /\ IsPerlValid(bytes) /\ IsPerlValid(d)
      BY <1>1, <1>2, CharsType
    <2>2. Chars(bytes \o d) = count + m
      BY <1>1, <2>1, CharsAdd
    <2>3. QED
      BY <2>2 DEF JoinedCount
  <1>3. CASE ~(count > 0 /\ m > 0)
    BY <1>3 DEF JoinedCount
  <1>4. QED
    BY <1>2, <1>3

\* Joined contents, within the bound, are a content other than the old one.
LEMMA JoinedIn ==
    ASSUME NEW b \in Contents, NEW d \in Contents, Len(b) + Len(d) <= MaxBytes
    PROVE  b \o d \in Contents /\ b \o d # b
  <1>1. b \in Seq(Byte) /\ d \in Seq(Byte) /\ Len(b) \in 1 .. MaxBytes /\ Len(d) \in 1 .. MaxBytes /\ MaxBytes \in Nat
    BY ContentsAre
  <1>2. b \o d \in Seq(Byte) /\ Len(b \o d) = Len(b) + Len(d)
    BY <1>1
  <1>3. Len(b \o d) \in 1 .. MaxBytes /\ Len(b \o d) # Len(b)
    BY <1>1, <1>2
  <1>4. QED
    BY <1>2, <1>3, ContentsAre

\* push_str leaves the caches true of the joined bytes, which are new.
LEMMA PushStrKeeps ==
    ASSUME IInv, NEW r \in Reader, PushStr(r)
    PROVE  IInv' /\ bytes' # bytes
  <1>1. PICK added \in Contents :
        /\ Classify(added) \in ValidRange
        /\ Len(bytes) + Len(added) <= MaxBytes
        /\ LET kind == Classify(added)
               state == AppendTransition(scan, kind)
           IN  Rewrite(bytes \o added, state,
                       JoinedCount(state, IF kind = "Utf8NonLatin1" THEN 0 ELSE Chars(added)))
    BY DEF PushStr
  <1> DEFINE kind == Classify(added)
             state == AppendTransition(scan, kind)
             m == IF kind = "Utf8NonLatin1" THEN 0 ELSE Chars(added)
  <1>2. Rewrite(bytes \o added, state, JoinedCount(state, m))
    BY <1>1
  <1>3. bytes \in Contents /\ bytes \in Seq(Byte) /\ added \in Seq(Byte) /\ scan \in ScanState /\ TrueOf(scan, bytes)
    BY ContentsAre DEF IInv, Types, Slots
  <1>4. kind \in AppendKind
    BY <1>1 DEF AppendKind
  <1>5. m \in {0, Chars(added)}
    OBVIOUS
  <1> HIDE DEF m, kind
  <1>6. state \in ScanState /\ TrueOf(state, bytes \o added)
    BY <1>3, <1>4, AppendSound DEF kind
  <1> HIDE DEF state
  <1>7. JoinedCount(state, m) \in {0, Chars(bytes \o added)}
    BY <1>3, <1>5, JoinedCountTrue
  <1>8. bytes \o added \in Contents /\ bytes \o added # bytes
    BY <1>1, <1>3, JoinedIn
  <1>9. IsUnique(r)
    BY DEF PushStr
  <1>10. bytes' = bytes \o added
    BY <1>2 DEF Rewrite
  <1> DEFINE n == JoinedCount(state, m)
             b == bytes \o added
  <1>11. Rewrite(b, state, n) /\ b \in Contents /\ TrueOf(state, b) /\ n \in {0, Chars(b)}
    BY <1>2, <1>6, <1>7, <1>8
  <1> HIDE DEF n, b
  <1>12. IInv'
    BY <1>6, <1>9, <1>11, RewriteKeeps
  <1>13. QED
    BY <1>8, <1>10, <1>12

\* push_bytes does too.
LEMMA PushBytesKeeps ==
    ASSUME IInv, NEW r \in Reader, PushBytes(r)
    PROVE  IInv' /\ bytes' # bytes
  <1>1. PICK added \in Contents :
        /\ Len(bytes) + Len(added) <= MaxBytes
        /\ LET state == AppendTransition(scan, KindOfBytes(added))
           IN  Rewrite(bytes \o added, state,
                       JoinedCount(state, IF IsAsciiOnly(added) THEN Len(added) ELSE 0))
    BY DEF PushBytes
  <1> DEFINE kind == KindOfBytes(added)
             state == AppendTransition(scan, kind)
             m == IF IsAsciiOnly(added) THEN Len(added) ELSE 0
  <1>2. Rewrite(bytes \o added, state, JoinedCount(state, m))
    BY <1>1
  <1>3. bytes \in Contents /\ bytes \in Seq(Byte) /\ added \in Seq(Byte) /\ scan \in ScanState /\ TrueOf(scan, bytes)
    BY ContentsAre DEF IInv, Types, Slots
  <1>4. kind \in AppendKind /\ (kind = "Unknown" \/ kind = Classify(added))
    BY <1>3, Classes DEF KindOfBytes, AppendKind, ValidRange
  <1>5. m \in {0, Chars(added)}
    BY <1>3, CharsType
  <1> HIDE DEF m, kind
  <1>6. state \in ScanState /\ TrueOf(state, bytes \o added)
    BY <1>3, <1>4, AppendSound
  <1> HIDE DEF state
  <1>7. JoinedCount(state, m) \in {0, Chars(bytes \o added)}
    BY <1>3, <1>5, JoinedCountTrue
  <1>8. bytes \o added \in Contents /\ bytes \o added # bytes
    BY <1>1, <1>3, JoinedIn
  <1>9. IsUnique(r)
    BY DEF PushBytes
  <1>10. bytes' = bytes \o added
    BY <1>2 DEF Rewrite
  <1> DEFINE n == JoinedCount(state, m)
             b == bytes \o added
  <1>11. Rewrite(b, state, n) /\ b \in Contents /\ TrueOf(state, b) /\ n \in {0, Chars(b)}
    BY <1>2, <1>6, <1>7, <1>8
  <1> HIDE DEF n, b
  <1>12. IInv'
    BY <1>6, <1>9, <1>11, RewriteKeeps
  <1>13. QED
    BY <1>8, <1>10, <1>12

\* downgrade_in_place resets both caches.
LEMMA DowngradeTrue ==
    ASSUME IInv, NEW r \in Reader, Downgrade(r)
    PROVE  IInv' /\ bytes' # bytes
  <1>1. PICK b \in Contractions(bytes) : Rewrite(b, "Unknown", 0)
    BY DEF Downgrade
  <1>2. bytes \in Seq(Byte) /\ Len(bytes) \in 1 .. MaxBytes /\ MaxBytes \in Nat
    BY ContentsAre DEF IInv, Types
  <1>3. IsPerlValid(bytes) /\ ~IsAsciiOnly(bytes) /\ IsUnique(r)
    BY DEF Downgrade, Contractible
  <1>4. b \in Seq(Byte) /\ Len(b) > 0 /\ Len(b) < Len(bytes)
    BY <1>2, <1>3, ContractionType
  <1>5. b \in Contents
    <2>1. Len(b) \in 1 .. MaxBytes
      <3>1. Len(b) \in Nat
        BY <1>4
      <3>2. QED
        BY <1>2, <1>4, <3>1
    <2>2. QED
      BY <1>4, <2>1, ContentsAre
  <1>6. TrueOf("Unknown", b) /\ "Unknown" \in ScanState
    BY <1>4, TruthsOf
  <1>7. IInv'
    BY <1>1, <1>3, <1>5, <1>6, RewriteKeeps
  <1>8. bytes' = b
    BY <1>1 DEF Rewrite
  <1>9. QED
    BY <1>2, <1>4, <1>7, <1>8

\* upgrade_in_place writes the class and the count its expansion has.
LEMMA UpgradeKeeps ==
    ASSUME IInv, NEW r \in Reader, Upgrade(r)
    PROVE  IInv' /\ bytes' # bytes
  <1> DEFINE b == Expansion(bytes)
             n == Len(bytes)
  <1>1. Rewrite(b, "Utf8Latin1", n) /\ ~IsAsciiOnly(bytes) /\ Len(b) <= MaxBytes /\ IsUnique(r)
    BY DEF Upgrade
  <1>2. bytes \in Seq(Byte) /\ n \in 1 .. MaxBytes /\ MaxBytes \in Nat
    BY ContentsAre DEF IInv, Types
  <1>3. b \in Seq(Byte) /\ Len(b) > n /\ Classify(b) = "Utf8Latin1" /\ Chars(b) = n
    BY <1>1, <1>2, ExpansionSound
  <1>4. bytes' = b /\ b # bytes
    BY <1>1, <1>2, <1>3 DEF Rewrite
  <1> HIDE DEF b, n
  <1>5. b \in Contents
    <2>1. Len(b) \in Nat
      BY <1>3
    <2>2. Len(b) \in 1 .. MaxBytes
      BY <1>1, <1>2, <1>3, <2>1
    <2>3. QED
      BY <1>3, <2>2, ContentsAre
  <1>6. TrueOf("Utf8Latin1", b) /\ "Utf8Latin1" \in ScanState
    BY <1>3, TruthsOf
  <1>7. IInv'
    BY <1>1, <1>3, <1>5, <1>6, RewriteKeeps
  <1>8. QED
    BY <1>4, <1>7

\* No step touches any of it.
LEMMA StutterKeeps ==
    ASSUME IInv, UNCHANGED vars
    PROVE  IInv'
  <1>1. /\ backing' = backing /\ bytes' = bytes /\ scan' = scan /\ count' = count /\ past' = past
        /\ holds' = holds /\ env' = env /\ views' = views /\ task' = task
    BY DEF vars
  <1>2. Types' /\ Slots' /\ Envelopes'
    BY <1>1 DEF IInv, Types, Slots, Envelopes, ViewsTrue
  <1>3. ASSUME NEW q \in Reader PROVE Good(task[q])'
    <2>1. Good(task[q])
      BY DEF IInv, Steps
    <2>2. QED
      BY <1>1, <2>1 DEF Good, StrSound
  <1>4. Steps'
    BY <1>1, <1>3 DEF IInv, Steps
  <1>5. QED
    BY <1>2, <1>4 DEF IInv

\* Every step keeps the invariant.
LEMMA StepTrue == IInv /\ [Next]_vars => IInv'
  <1>1. SUFFICES ASSUME IInv, [Next]_vars PROVE IInv'
    OBVIOUS
  <1>2. CASE UNCHANGED vars
    BY <1>1, <1>2, StutterKeeps
  <1>3. ASSUME NEW r \in Reader, Rebirth(r) \/ Release(r) \/ MakeView(r) PROVE IInv'
    BY <1>1, <1>3, RebirthKeeps, ReleaseKeeps, MakeViewKeeps
  <1>4. ASSUME NEW r \in Reader, NEW q \in Reader, Clone(r, q) PROVE IInv'
    BY <1>1, <1>4, CloneKeeps
  <1>5. ASSUME NEW r \in Reader, NEW q \in Question, Ask(r, q) PROVE IInv'
    BY <1>1, <1>5, AskKeeps
  <1>6. ASSUME NEW r \in Reader,
               LoadCount(r) \/ LoadScan(r) \/ NarrowNothing(r) \/ NarrowSwap(r) \/ NarrowRetry(r)
        PROVE  IInv'
    BY <1>1, <1>6, LoadCountKeeps, LoadScanKeeps, NarrowNothingKeeps, NarrowSwapKeeps, NarrowRetryKeeps
  <1>7. ASSUME NEW r \in Reader, StoreCount(r) \/ Return(r) PROVE IInv'
    BY <1>1, <1>7, StoreCountKeeps, ReturnKeeps
  <1>8. ASSUME NEW r \in Reader, PushStr(r) \/ PushBytes(r) \/ Downgrade(r) \/ Upgrade(r) PROVE IInv'
    BY <1>1, <1>8, PushStrKeeps, PushBytesKeeps, DowngradeTrue, UpgradeKeeps
  <1>9. ASSUME NEW v \in views, Reslice(v) \/ DropView(v) PROVE IInv'
    BY <1>1, <1>9, ResliceKeeps, DropViewKeeps
  <1>10. QED
    BY <1>1, <1>2, <1>3, <1>4, <1>5, <1>6, <1>7, <1>8, <1>9 DEF Next

-----------------------------------------------------------------------------
(* The theorems.                                                           *)

\* The invariant holds of every behaviour: the slot and all it held, the
\* count, the envelopes and what each thread carries are true of the bytes.
THEOREM CachesTrue == Spec => []IInv
  <1>1. Init => IInv
    BY InitTrue
  <1>2. IInv /\ [Next]_vars => IInv'
    BY StepTrue
  <1>3. QED
    BY <1>1, <1>2, PTL DEF Spec

\* Every variable keeps its type.
THEOREM SlotTypes == Spec => []TypeOK
  <1>1. IInv => TypeOK
    <2>1. SUFFICES ASSUME IInv PROVE TypeOK
      OBVIOUS
    <2>2. \A r \in Reader : task[r].pc \in TaskPc
      BY <2>1 DEF IInv, Steps, Good
    <2>3. scan \in ScanState
      BY <2>1 DEF IInv, Types
    <2>4. QED
      BY <2>1, <2>2, <2>3 DEF IInv, Types, TypeOK
  <1>2. QED
    BY <1>1, CachesTrue, PTL

\* The slot admits the class of the bytes and a filled count is theirs: the
\* unchecked conversion of as_str (core/src/string.rs) is sound.
THEOREM SlotsStayTrue == Spec => []SlotsTrue
  <1>1. IInv => SlotsTrue
    BY DEF IInv, Types, Slots, SlotsTrue
  <1>2. QED
    BY <1>1, CachesTrue, PTL

\* A view's envelope byte is true of the view's own bytes, through every slice
\* of a slice.
THEOREM ViewsStayTrue == Spec => []ViewsTrue
  <1>1. IInv => ViewsTrue
    BY DEF IInv, Envelopes
  <1>2. QED
    BY <1>1, CachesTrue, PTL

\* Every answer taken from the caches is right for the bytes, whatever the
\* other threads do to the slot meanwhile.
THEOREM AnswersAreRight == Spec => []AnswersRight
  <1>1. IInv => AnswersRight
    BY DEF IInv, Steps, Good, AnswersRight
  <1>2. QED
    BY <1>1, CachesTrue, PTL

\* as_str through a view of an adopted object gives out valid strings only and
\* never withholds plain ASCII, whatever was asked before.
THEOREM ViewStringsAreSound == Spec => []ViewStrSound
  <1>1. IInv => ViewStrSound
    BY DEF IInv, Steps, Good, StrSound, ViewStrSound
  <1>2. QED
    BY <1>1, CachesTrue, PTL

\* All of that together, through every sequence of appends and rewrites.
THEOREM AllStaysTrue == Spec => []StaysTrue
  <1>1. SlotsTrue /\ ViewsTrue /\ AnswersRight => StaysTrue
    BY DEF StaysTrue
  <1>2. QED
    BY <1>1, SlotsStayTrue, ViewsStayTrue, AnswersAreRight, PTL

\* Once a reader's narrowing is over, the slot says at least what its pass
\* certified, however many readers raced it.
THEOREM CertificatesStay == Spec => []NothingForfeited
  <1>1. IInv => NothingForfeited
    BY DEF IInv, Steps, Good, NothingForfeited
  <1>2. QED
    BY <1>1, CachesTrue, PTL

\* No two states a reader merges contradict each other: the debug assertion of
\* the meet cannot fire.
THEOREM MeetsAreConsistent == Spec => []NoContradiction
  <1>1. IInv => NoContradiction
    <2>1. SUFFICES ASSUME IInv, NEW r \in Reader
                   PROVE  /\ task[r].pc = "narrow" =>
                               ~Contradiction(Derived(Facts(task[r].current) \cup Facts(task[r].cert)))
                          /\ \A s \in past : ~Contradiction(Derived(Facts(env[r]) \cup Facts(s)))
      BY DEF NoContradiction
    <2>2. bytes \in Seq(Byte)
      BY <2>1, ContentsAre DEF IInv, Types
    <2>3. \A s \in past : s \in ScanState /\ TrueOf(s, bytes)
      BY <2>1 DEF IInv, Types, Slots
    <2>4. ASSUME task[r].pc = "narrow"
          PROVE  ~Contradiction(Derived(Facts(task[r].current) \cup Facts(task[r].cert)))
      <3>1. task[r].cert \in ScanState /\ TrueOf(task[r].cert, bytes) /\ task[r].current \in past
        BY <2>1, <2>4, MergedTrue
      <3>2. QED
        BY <2>2, <2>3, <3>1, NoContradictionOf
    <2>5. env[r] \in ScanState /\ TrueOf(env[r], bytes)
      BY <2>1 DEF IInv, Types, Envelopes
    <2>6. ASSUME NEW s \in past PROVE ~Contradiction(Derived(Facts(env[r]) \cup Facts(s)))
      BY <2>2, <2>3, <2>5, NoContradictionOf
    <2>7. QED
      BY <2>4, <2>6
  <1>2. QED
    BY <1>1, CachesTrue, PTL

\* While anyone holds the buffer and its bytes stand, the slot only gains facts
\* and a filled count stays: a rewrite always makes other bytes.
THEOREM SlotOnlyNarrows == Spec => OnlyNarrows
  <1> DEFINE Keeps == (holds # {} /\ bytes' = bytes) =>
                        Narrows(scan', scan) /\ (count # 0 => count' = count)
  <1>1. IInv /\ [Next]_vars => [Keeps]_vars
    <2>1. SUFFICES ASSUME IInv, Next, holds # {}, bytes' = bytes
                   PROVE  Narrows(scan', scan) /\ (count # 0 => count' = count)
      BY DEF vars
    <2>2. CASE scan' = scan /\ count' = count
      BY <2>2, NarrowsSelf
    <2>3. ASSUME NEW r \in Reader, Rebirth(r) PROVE FALSE
      BY <2>1, <2>3 DEF Rebirth
    <2>4. ASSUME NEW r \in Reader, NarrowSwap(r) PROVE Narrows(scan', scan) /\ count' = count
      BY <2>1, <2>4, NarrowSwapKeeps DEF NarrowSwap
    <2>5. ASSUME NEW r \in Reader, StoreCount(r) PROVE scan' = scan /\ (count # 0 => count' = count)
      BY <2>1, <2>5, StoreCountKeeps DEF StoreCount
    <2>6. ASSUME NEW r \in Reader, PushStr(r) \/ PushBytes(r) \/ Downgrade(r) \/ Upgrade(r) PROVE FALSE
      BY <2>1, <2>6, PushStrKeeps, PushBytesKeeps, DowngradeTrue, UpgradeKeeps
    <2>7. ASSUME NEW r \in Reader, Release(r) \/ MakeView(r) \/ (\E q \in Reader : Clone(r, q))
          PROVE  scan' = scan /\ count' = count
      BY <2>7 DEF Release, MakeView, Clone
    <2>8. ASSUME NEW r \in Reader, (\E q \in Question : Ask(r, q)) \/ LoadCount(r) \/ LoadScan(r)
          PROVE  scan' = scan /\ count' = count
      BY <2>8 DEF Ask, LoadCount, LoadScan
    <2>9. ASSUME NEW r \in Reader, NarrowNothing(r) \/ NarrowRetry(r) \/ Return(r)
          PROVE  scan' = scan /\ count' = count
      BY <2>9 DEF NarrowNothing, NarrowRetry, Return
    <2>10. ASSUME NEW v \in views, Reslice(v) \/ DropView(v)
           PROVE  scan' = scan /\ count' = count
      BY <2>10 DEF Reslice, DropView
    <2>11. QED
      BY <2>1, <2>2, <2>3, <2>4, <2>5, <2>6, <2>7, <2>8, <2>9, <2>10, NarrowsSelf DEF Next
  <1>2. QED
    BY <1>1, CachesTrue, PTL DEF Spec, OnlyNarrows

=============================================================================
