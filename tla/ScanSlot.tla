------------------------------ MODULE ScanSlot ------------------------------
(***************************************************************************)
(* One shared buffer and its two lazily filled caches, the scan state and  *)
(* the character count: the header of a Heap32/Heap allocation, or an      *)
(* Adopted object read through whole-object views.  Threads holding a      *)
(* handle answer questions from the caches, scanning the bytes where the   *)
(* caches do not decide, and record what they learnt by narrow_scan's      *)
(* compare-exchange loop while other threads do the same.  A thread that   *)
(* is the only holder may rewrite the bytes in place.                      *)
(***************************************************************************)
EXTENDS ScanLattice

CONSTANTS
    Reader,     \* the threads
    MaxBytes,   \* bound on the length of the buffer
    MaxViews    \* bound on the sub-views alive at once

ASSUME ScanSlotAssumption ==
    /\ IsFiniteSet(Reader) /\ Reader # {}
    /\ MaxBytes \in Nat \ {0}
    /\ MaxViews \in Nat

VARIABLES
    backing,    \* "heap": a tier allocation; "adopted": an Adopted object
    bytes,      \* the content, immutable while more than one handle exists
    scan,       \* the scan slot
    count,      \* the character-count slot; 0 is the unfilled sentinel
    past,       \* the states the slot held since the last exclusive store: a
                \* relaxed load returns any of them
    holds,      \* the threads that hold a handle on the whole buffer
    env,        \* the scan byte of each thread's envelope ("Unknown" on a heap
                \* handle, which has none)
    views,      \* the sub-views alive: their bytes and their envelope state
    task        \* what each thread is doing

vars == <<backing, bytes, scan, count, past, holds, env, views, task>>

Question == {"as_str", "is_ascii", "is_perl_utf8_valid", "char_len", "eq", "hash"}

Contents == UNION {[1 .. n -> Byte] : n \in 1 .. MaxBytes}

Idle == [pc |-> "idle"]

-----------------------------------------------------------------------------
(* The questions: the truth they ask for, when the cached state settles    *)
(* them, and what the pass that settles the others certifies.              *)

\* as_str and hash answer whether the bytes are Rust-valid (a hash picks its
\* digest by the class); char_len is the count, -1 standing for None.
Truth(q, b) ==
    CASE q = "as_str" -> Classify(b) \in ValidRange
      [] q = "is_ascii" -> IsAsciiOnly(b)
      [] q = "is_perl_utf8_valid" -> IsPerlValid(b)
      [] q = "char_len" -> IF IsPerlValid(b) THEN Chars(b) ELSE -1
      [] OTHER -> TRUE

\* Fault: Perl-decodable counts as not a string, whatever is known of ASCII.
AsStrDecidedEarly(s) ==
    \/ IsRustValid(s)
    \/ s \in {"MalformedUtf8", "ExtendedUtf8"}
    \/ backing = "adopted" /\ IsPerlDecodable(s)

\* The states from which each question is answered without a pass.
AsStrDecided(s) ==
    \/ IsRustValid(s)
    \/ s \in {"MalformedUtf8", "ExtendedUtf8"}
    \/ backing = "adopted" /\ s = "PerlValidNonAscii"

IsAsciiDecided(s) ==
    IF backing = "adopted" THEN s = "Ascii" \/ IsKnownNonAscii(s)
    ELSE s \in Terminal \cup {"Utf8NonAscii", "NonAscii"}

PerlValidDecided(s) == IsPerlDecodable(s) \/ s = "MalformedUtf8"
CharLenDecided(s) == s \in {"Ascii", "MalformedUtf8"}
HashDecided(s) == s \in Terminal

Decided(q, s) ==
    CASE q = "as_str" -> AsStrDecided(s)
      [] q = "is_ascii" -> IsAsciiDecided(s)
      [] q = "is_perl_utf8_valid" -> PerlValidDecided(s)
      [] q = "char_len" -> CharLenDecided(s)
      [] q = "hash" -> HashDecided(s)
      [] OTHER -> FALSE

\* What a question is answered with from a state that decides it.
FromState(q, s) ==
    CASE q = "as_str" -> IsRustValid(s)
      [] q = "is_ascii" -> s = "Ascii"
      [] q = "is_perl_utf8_valid" -> IsPerlDecodable(s)
      [] q = "char_len" -> IF s = "Ascii" THEN Len(bytes) ELSE -1
      [] OTHER -> TRUE

\* The ASCII probe stops at the first high bit.
AsciiCertificate(s) ==
    IF IsAsciiOnly(bytes) THEN "Ascii" ELSE IF s = "ValidUtf8" THEN "Utf8NonAscii" ELSE "NonAscii"

\* Fault: equality certifies the Latin-1 range of its plain side too.
EqCertifiesBoth == {IF IsAsciiOnly(bytes) THEN "Ascii" ELSE "Utf8Latin1"}

\* A completed equality walk proves the Latin-1 range of its flagged side and
\* only the high bit of its plain one.
EqCertificates ==
    (IF Contractible(bytes) THEN {Classify(bytes)} ELSE {})
        \cup {IF IsAsciiOnly(bytes) THEN "Ascii" ELSE "NonAscii"}

\* What the pass of a question certifies.
Certificates(q, s) ==
    CASE q = "is_ascii" -> {AsciiCertificate(s)}
      [] q = "eq" -> EqCertificates
      [] OTHER -> {Classify(bytes)}

\* The questions whose pass also counts the characters for the slot: a view
\* fills it from char_len alone.
Counts(q) ==
    q \in IF backing = "heap" THEN {"char_len", "as_str", "is_perl_utf8_valid", "hash"} ELSE {"char_len"}

-----------------------------------------------------------------------------
(* Birth, sharing and release of the buffer.                               *)

\* A heap buffer is born classified, or with the terminal state an append
\* transition gave and a count that may be missing.  An adopted object is
\* born with what its creator knows: nothing, the validity of a String, a
\* classification, or the slice-birth state of an oversized view.
BirthStates(k, b) ==
    IF k = "heap" THEN {Classify(b)}
    ELSE {s \in Terminal \cup {"Unknown", "ValidUtf8", "MaybeUtf8Latin1", "MaybeExtendedUtf8"} : TrueOf(s, b)}

BirthCounts(k, b) == IF k = "heap" THEN {0, Chars(b)} ELSE {0}

Born(k, b, s, n, r) ==
    /\ backing' = k /\ bytes' = b /\ scan' = s /\ count' = n
    /\ past' = {s}
    /\ holds' = {r}
    /\ env' = [q \in Reader |-> IF q = r /\ k = "adopted" THEN s ELSE "Unknown"]
    /\ views' = {}

Init ==
    \E k \in {"heap", "adopted"}, b \in Contents, r \in Reader :
    \E s \in BirthStates(k, b), n \in BirthCounts(k, b) :
        /\ backing = k /\ bytes = b /\ scan = s /\ count = n
        /\ past = {s}
        /\ holds = {r}
        /\ env = [q \in Reader |-> IF q = r /\ k = "adopted" THEN s ELSE "Unknown"]
        /\ views = {}
        /\ task = [q \in Reader |-> Idle]

\* Nobody holds the old buffer: it is freed, and another takes its place.
Rebirth(r) ==
    /\ holds = {} /\ views = {}
    /\ \E k \in {"heap", "adopted"}, b \in Contents :
       \E s \in BirthStates(k, b), n \in BirthCounts(k, b) : Born(k, b, s, n, r)
    /\ UNCHANGED task

Clone(r, q) ==
    /\ r \in holds /\ q \notin holds
    /\ task[r] = Idle
    /\ holds' = holds \cup {q}
    /\ env' = [env EXCEPT ![q] = env[r]]
    /\ UNCHANGED <<backing, bytes, scan, count, past, views, task>>

Release(r) ==
    /\ r \in holds /\ task[r] = Idle
    /\ holds' = holds \ {r}
    /\ env' = [env EXCEPT ![r] = "Unknown"]
    /\ UNCHANGED <<backing, bytes, scan, count, past, views, task>>

\* slice: a sub-view retains the buffer and is born with the table's state.
\* The slice of a view starts from its envelope, the slice of a heap handle
\* from the slot.  Short cuts take an envelope form, so a view is not empty.
MakeView(r) ==
    /\ r \in holds /\ task[r] = Idle
    /\ Cardinality(views) < MaxViews
    /\ \E offset \in 0 .. Len(bytes) - 1 : \E len \in 1 .. Len(bytes) - offset, below \in BOOLEAN :
       \E s \in IF backing = "heap" THEN past ELSE {env[r]} :
          views' = views \cup {[bytes |-> Slice(bytes, offset, len),
                                scan |-> ViewBirthState(s, bytes, offset, len, below)]}
    /\ UNCHANGED <<backing, bytes, scan, count, past, holds, env, task>>

\* The slice of a sub-view replaces it.
Reslice(v) ==
    /\ \E offset \in 0 .. Len(v.bytes) - 1 : \E len \in 1 .. Len(v.bytes) - offset, below \in BOOLEAN :
          views' = (views \ {v}) \cup {[bytes |-> Slice(v.bytes, offset, len),
                                        scan |-> ViewBirthState(v.scan, v.bytes, offset, len, below)]}
    /\ UNCHANGED <<backing, bytes, scan, count, past, holds, env, task>>

DropView(v) ==
    /\ views' = views \ {v}
    /\ UNCHANGED <<backing, bytes, scan, count, past, holds, env, task>>

-----------------------------------------------------------------------------
(* Answering a question through &self.                                     *)

SetTask(r, t) == task' = [task EXCEPT ![r] = t]

\* A finished pass that certified c, about to be recorded.
Walked(q, c) == [pc |-> "load", cert |-> c, counts |-> Counts(q) /\ Chars(bytes) > 0]

\* Load the slot, meet it with the envelope byte, and answer if that decides;
\* otherwise walk the bytes, which cannot change while a handle is held.
Ask(r, q) ==
    /\ r \in holds /\ task[r] = Idle
    /\ q \in {"eq", "hash"} => backing = "heap"    \* they narrow heap buffers only
    /\ \E s \in past :
        LET met == Meet(env[r], s)
        IN  IF Decided(q, met) THEN SetTask(r, [pc |-> "answered", q |-> q, answer |-> FromState(q, met)])
            ELSE IF q = "char_len" THEN SetTask(r, [pc |-> "count"])
            ELSE \E c \in Certificates(q, met) : SetTask(r, Walked(q, c))
    /\ UNCHANGED <<backing, bytes, scan, count, past, holds, env, views>>

\* char_len consults the count slot before it walks; a relaxed load may miss
\* a fill that already happened.
LoadCount(r) ==
    /\ task[r].pc = "count"
    /\ \E n \in {0, count} :
        SetTask(r, IF n > 0 THEN [pc |-> "answered", q |-> "char_len", answer |-> n]
                   ELSE Walked("char_len", Classify(bytes)))
    /\ UNCHANGED <<backing, bytes, scan, count, past, holds, env, views>>

\* narrow_scan starts from a load, which may return a state already replaced.
LoadScan(r) ==
    /\ task[r].pc = "load"
    /\ \E s \in past :
        SetTask(r, [pc |-> "narrow", cert |-> task[r].cert, counts |-> task[r].counts, current |-> s])
    /\ UNCHANGED <<backing, bytes, scan, count, past, holds, env, views>>

\* Fault: the last certificate replaces what the slot said.
MergedLast(r) == task[r].cert

Merged(r) == Meet(task[r].current, task[r].cert)

\* What follows the loop: the count is stored where the pass made one.
AfterNarrow(r) ==
    SetTask(r, [pc |-> IF task[r].counts THEN "store" ELSE "recorded", cert |-> task[r].cert])

\* The meet adds nothing to the state last seen: leave the slot alone.
NarrowNothing(r) ==
    /\ task[r].pc = "narrow"
    /\ Merged(r) = task[r].current
    /\ AfterNarrow(r)
    /\ UNCHANGED <<backing, bytes, scan, count, past, holds, env, views>>

\* Fault: a plain store, whatever the slot holds by now.
NarrowStore(r) ==
    /\ task[r].pc = "narrow"
    /\ Merged(r) # task[r].current
    /\ scan' = Merged(r)
    /\ past' = past \cup {scan'}
    /\ AfterNarrow(r)
    /\ UNCHANGED <<backing, bytes, count, holds, env, views>>

\* The compare-exchange finds the state last seen and installs the meet.
NarrowSwap(r) ==
    /\ task[r].pc = "narrow"
    /\ Merged(r) # task[r].current
    /\ scan = task[r].current
    /\ scan' = Merged(r)
    /\ past' = past \cup {scan'}
    /\ AfterNarrow(r)
    /\ UNCHANGED <<backing, bytes, count, holds, env, views>>

\* Fault: the loop retries against the state it first loaded.
NarrowRetryStale(r) ==
    /\ task[r].pc = "narrow"
    /\ Merged(r) # task[r].current
    /\ scan # task[r].current \/ backing = "heap"
    /\ UNCHANGED vars

\* The compare-exchange fails and returns the state it saw: always when that
\* is not the one expected, and spuriously for the weak form of the heap tiers.
NarrowRetry(r) ==
    /\ task[r].pc = "narrow"
    /\ Merged(r) # task[r].current
    /\ scan # task[r].current \/ backing = "heap"
    /\ SetTask(r, [task[r] EXCEPT !.current = scan])
    /\ UNCHANGED <<backing, bytes, scan, count, past, holds, env, views>>

\* Fault: the length in bytes is stored for the characters.
StoreLength(r) ==
    /\ task[r].pc = "store"
    /\ count' = Len(bytes)
    /\ SetTask(r, [pc |-> "recorded", cert |-> task[r].cert])
    /\ UNCHANGED <<backing, bytes, scan, past, holds, env, views>>

StoreCount(r) ==
    /\ task[r].pc = "store"
    /\ count' = Chars(bytes)
    /\ SetTask(r, [pc |-> "recorded", cert |-> task[r].cert])
    /\ UNCHANGED <<backing, bytes, scan, past, holds, env, views>>

Return(r) ==
    /\ task[r].pc \in {"answered", "recorded"}
    /\ SetTask(r, Idle)
    /\ UNCHANGED <<backing, bytes, scan, count, past, holds, env, views>>

-----------------------------------------------------------------------------
(* Rewriting in place: a heap buffer, through its only handle.             *)

IsUnique(r) == backing = "heap" /\ holds = {r} /\ views = {} /\ task[r] = Idle

Rewrite(b, s, n) ==
    /\ bytes' = b /\ scan' = s /\ count' = n
    /\ past' = {s}
    /\ UNCHANGED <<backing, holds, env, views, task>>

\* Fault: a missing count is written as minus one.
JoinedCountNone(state, added) == IF count > 0 /\ added > 0 THEN count + added ELSE -1

\* The count of a joined content, where both sides know theirs.
JoinedCount(state, added) == IF count > 0 /\ added > 0 /\ IsPerlDecodable(state) THEN count + added ELSE 0

\* push_str: the addition is Rust-valid and classified on the way in; the
\* classification bails without a count once it meets U+0100 or above.
PushStr(r) ==
    /\ IsUnique(r)
    /\ \E added \in Contents :
        /\ Classify(added) \in ValidRange
        /\ Len(bytes) + Len(added) <= MaxBytes
        /\ LET kind == Classify(added)
               state == AppendTransition(scan, kind)
           IN  Rewrite(bytes \o added, state,
                       JoinedCount(state, IF kind = "Utf8NonLatin1" THEN 0 ELSE Chars(added)))

\* push_bytes: nothing is known of an addition that is not plain ASCII.
PushBytes(r) ==
    /\ IsUnique(r)
    /\ \E added \in Contents :
        /\ Len(bytes) + Len(added) <= MaxBytes
        /\ LET state == AppendTransition(scan, KindOfBytes(added))
           IN  Rewrite(bytes \o added, state,
                       JoinedCount(state, IF IsAsciiOnly(added) THEN Len(added) ELSE 0))

\* Fault: the caches survive the contraction.
DowngradeKeeps(r) ==
    /\ IsUnique(r)
    /\ ~IsAsciiOnly(bytes) /\ Contractible(bytes)
    /\ \E b \in Contractions(bytes) : Rewrite(b, scan, count)

\* downgrade_in_place: the contraction's class is unknown, and both caches
\* are reset.
Downgrade(r) ==
    /\ IsUnique(r)
    /\ ~IsAsciiOnly(bytes) /\ Contractible(bytes)
    /\ \E b \in Contractions(bytes) : Rewrite(b, "Unknown", 0)

\* upgrade_in_place: the expansion is Latin-1 range by construction, one
\* character per old byte.
Upgrade(r) ==
    /\ IsUnique(r)
    /\ ~IsAsciiOnly(bytes) /\ Len(Expansion(bytes)) <= MaxBytes
    /\ Rewrite(Expansion(bytes), "Utf8Latin1", Len(bytes))

-----------------------------------------------------------------------------
NarrowFail(r) == NarrowNothing(r) \/ NarrowRetry(r)
Pass(r) == LoadCount(r) \/ LoadScan(r) \/ NarrowFail(r) \/ StoreCount(r)

Next ==
    \/ \E r \in Reader :
        \/ Rebirth(r) \/ Release(r) \/ MakeView(r)
        \/ \E q \in Reader : Clone(r, q)
        \/ \E q \in Question : Ask(r, q)
        \/ LoadCount(r) \/ LoadScan(r) \/ NarrowNothing(r) \/ NarrowSwap(r) \/ NarrowRetry(r)
        \/ StoreCount(r) \/ Return(r)
        \/ PushStr(r) \/ PushBytes(r) \/ Downgrade(r) \/ Upgrade(r)
    \/ \E v \in views : Reslice(v) \/ DropView(v)

\* A thread that asked runs on, and a weak compare-exchange that could keep
\* succeeding does not fail spuriously for ever.
Fairness == \A r \in Reader : WF_vars(Pass(r)) /\ SF_vars(NarrowSwap(r))

Spec == Init /\ [][Next]_vars /\ Fairness

-----------------------------------------------------------------------------
(* Properties.                                                             *)

TaskPc == {"idle", "count", "load", "narrow", "store", "recorded", "answered"}

\* Every variable has its type.
TypeOK ==
    /\ backing \in {"heap", "adopted"}
    /\ bytes \in Contents
    /\ scan \in ScanState /\ past \subseteq ScanState /\ scan \in past
    /\ count \in Nat
    /\ holds \subseteq Reader
    /\ env \in [Reader -> ScanState]
    /\ \A v \in views : v.bytes \in Contents /\ v.scan \in ScanState
    /\ \A r \in Reader : task[r].pc \in TaskPc

\* What the slots say is true of the bytes, whatever the readers raced and
\* however the bytes were rewritten: the state admits their class, a filled
\* count is their count.  as_str rests its unchecked conversion on it.
SlotsTrue ==
    /\ TrueOf(scan, bytes)
    /\ count \in {0, Chars(bytes)}

\* A view's envelope byte, which no reader ever corrects, is true of the
\* view's own bytes through every slice of a slice.
ViewsTrue == \A v \in views : TrueOf(v.scan, v.bytes)

\* Every answer a reader takes from the caches is right for the bytes, though
\* other threads narrow the slot under it.  as_str through a whole-object view is
\* ViewStrSound's matter.
AnswersRight ==
    \A r \in Reader :
        task[r].pc = "answered" /\ ~(backing = "adopted" /\ task[r].q = "as_str")
            => task[r].answer = Truth(task[r].q, bytes)

\* Through every sequence of appends, rewrites, slices and re-slices, what the
\* slots say stays true of the bytes, and so do the answers taken from them.
StaysTrue == SlotsTrue /\ ViewsTrue /\ AnswersRight

\* Whatever was asked before, and of whichever view, as_str through a
\* whole-object adopted view gives out as a string valid UTF-8 only and never
\* withholds plain ASCII.
ViewStrSound ==
    \A r \in Reader :
        task[r].pc = "answered" /\ backing = "adopted" /\ task[r].q = "as_str"
            => IF task[r].answer THEN Classify(bytes) \in ValidRange ELSE ~IsAsciiOnly(bytes)

\* as_str through a whole-object adopted view answers the fact question its
\* documentation states: a string exactly when the bytes are valid UTF-8.
ViewStrRight ==
    \A r \in Reader :
        task[r].pc = "answered" /\ backing = "adopted" /\ task[r].q = "as_str"
            => task[r].answer = Truth("as_str", bytes)

\* Nothing a reader paid for is forfeited: once its narrowing is over, the
\* slot says at least what its pass certified, though a racing reader stored
\* a coarser truth meanwhile.
NothingForfeited ==
    \A r \in Reader : task[r].pc \in {"store", "recorded"} => Narrows(scan, task[r].cert)

\* The meets readers compute never union two facts that contradict each
\* other: narrow_scan's debug assertion cannot fire.
NoContradiction ==
    \A r \in Reader :
        /\ task[r].pc = "narrow" => ~Contradiction(Derived(Facts(task[r].current) \cup Facts(task[r].cert)))
        /\ \A s \in past : ~Contradiction(Derived(Facts(env[r]) \cup Facts(s)))

\* While anyone holds the buffer and its bytes stand, the slot only gains
\* facts and a filled count stays.
OnlyNarrows ==
    [][(holds # {} /\ bytes' = bytes) => Narrows(scan', scan) /\ (count # 0 => count' = count)]_vars

\* Every pass ends with its knowledge recorded: the meet loop terminates against any
\* interference, because each real failure means the slot narrowed.
PassesRecorded == \A r \in Reader : task[r].pc = "load" ~> task[r].pc = "recorded"

=============================================================================
