-------------------------------- MODULE Scalar --------------------------------
(***************************************************************************)
(* One promoted scalar and the threads that share it                       *)
(* (src/core/src/scalar.rs).                                               *)
(*                                                                         *)
(* The cell sits behind a read-write lock.  Readers run together and fill  *)
(* the caches of a Full cell while they hold the read lock: a numeric face *)
(* by storing the value and then its validity, the string face through a   *)
(* OnceLock.  A writer is alone, so what it does under the write lock is   *)
(* one step here.  Numifying a text that is no number warns, and installs  *)
(* the number beside the text (a dual) so that the next one is silent.     *)
(***************************************************************************)
EXTENDS Numerals

CONSTANTS Thread,
          Texts,      \* the strings that occur
          Numbers,    \* the numbers that occur
          Precision   \* digits %g keeps

ASSUME ScalarAssumption == \A n \in Numbers : n.kind \in {"integer", "float"}

Undefined == [kind |-> "undef"]
Text(s) == [kind |-> "text", text |-> s]
Dual(s, n) == [kind |-> "dual", text |-> s, number |-> n]

Fresh == {Undefined} \union Numbers \union {Text(s) : s \in Texts}

Face == {"int", "float", "string"}
Zero == [f \in Face |-> IF f = "int" THEN Integer(0) ELSE IF f = "float" THEN Finite(FALSE, 0, 0) ELSE Text(<<>>)]

AsFloat(n) ==
  IF n.kind = "float" THEN n ELSE Finite(n.value < 0, Magnitude(n.value), 0)

\* A payload as an integer, a float or a string: one case for each kind.
Coerced(f, p) ==
  CASE p.kind = "undef" -> Zero[f]
    [] p.kind = "text" /\ f = "int" -> Integer(ParseInt(p.text))
    [] p.kind = "text" /\ f = "float" -> FloatSpan(p.text).number
    [] p.kind \in {"text", "dual"} /\ f = "string" -> Text(p.text)
    [] p.kind = "dual" /\ f = "int" -> Integer(ToInt(p.number))
    [] p.kind = "dual" /\ f = "float" -> AsFloat(p.number)
    [] OTHER -> IF f = "int" THEN Integer(ToInt(p))
                ELSE IF f = "float" THEN AsFloat(p)
                ELSE Text(Formatted(p, Precision))

\* Only a bare string can warn.
Warns(p) == p.kind = "text" /\ Classify(p.text).warns

VARIABLES payload,    \* the authoritative payload
          full,       \* upgraded to a FullScalar
          scalarReadonly,   \* its dynamic readonly flag
          cached,     \* the cached faces of a Full cell
          valid,      \* which of them may be read
          pc,         \* what a reader is about to do; "idle" holds no guard
          face,       \* the face it asked for
          answer,     \* what it got
          copy,       \* a payload some thread copied out
          warned,     \* warnings since the cell was last assigned
          spoiled     \* numifying failed to allocate since the last assignment

cell == <<payload, full, scalarReadonly, cached, valid>>
readers == <<pc, face, answer>>
scalar_vars == <<cell, readers, copy, warned, spoiled>>

ScalarTypeOK ==
  /\ {payload.kind, copy.kind} \subseteq {"undef", "integer", "float", "text", "dual"}
  /\ <<full, scalarReadonly, spoiled>> \in BOOLEAN \X BOOLEAN \X BOOLEAN
  /\ scalarReadonly => full
  /\ valid \in [Face -> BOOLEAN]
  /\ \A f \in Face : cached[f].kind = Zero[f].kind
  /\ pc \in [Thread -> {"idle", "probe", "load", "store", "publish", "done"}]
  /\ face \in [Thread -> Face]

ScalarInit ==
  /\ payload \in Fresh /\ copy = Undefined
  /\ full = FALSE /\ scalarReadonly = FALSE
  /\ cached = Zero /\ valid = [f \in Face |-> FALSE]
  /\ pc = [t \in Thread |-> "idle"]
  /\ face = [t \in Thread |-> "int"] /\ answer = [t \in Thread |-> Undefined]
  /\ warned = 0 /\ spoiled = FALSE

-----------------------------------------------------------------------------
(* Readers, under the read lock. *)

Read(t, f) ==
  /\ pc[t] = "idle"
  /\ pc' = [pc EXCEPT ![t] = "probe"] /\ face' = [face EXCEPT ![t] = f]
  /\ UNCHANGED <<cell, answer, copy, warned, spoiled>>

\* The cell's own form, and then the validity of the cached face.
Probe(t) ==
  /\ pc[t] = "probe"
  /\ IF full /\ valid[face[t]]
       THEN pc' = [pc EXCEPT ![t] = "load"] /\ answer' = answer
       ELSE /\ answer' = [answer EXCEPT ![t] = Coerced(face[t], payload)]
            /\ pc' = [pc EXCEPT ![t] = IF full THEN "store" ELSE "done"]
  /\ UNCHANGED <<cell, face, copy, warned, spoiled>>

Load(t) ==
  /\ pc[t] = "load"
  /\ answer' = [answer EXCEPT ![t] = cached[face[t]]]
  /\ pc' = [pc EXCEPT ![t] = "done"]
  /\ UNCHANGED <<cell, face, copy, warned, spoiled>>

\* A numeric face is stored, its validity after it; the first string stays.
StoreFace(t) ==
  /\ pc[t] = "store"
  /\ IF face[t] = "string"
       THEN /\ cached' = [cached EXCEPT !["string"] =
                            IF valid["string"] THEN @ ELSE answer[t]]
            /\ valid' = [valid EXCEPT !["string"] = TRUE]
            /\ pc' = [pc EXCEPT ![t] = "done"]
       ELSE /\ cached' = [cached EXCEPT ![face[t]] = answer[t]]
            /\ pc' = [pc EXCEPT ![t] = "publish"] /\ valid' = valid
  /\ UNCHANGED <<payload, full, scalarReadonly, face, answer, copy, warned, spoiled>>

Publish(t) ==
  /\ pc[t] = "publish"
  /\ valid' = [valid EXCEPT ![face[t]] = TRUE]
  /\ pc' = [pc EXCEPT ![t] = "done"]
  /\ UNCHANGED <<payload, full, scalarReadonly, cached, face, answer, copy, warned, spoiled>>

\* The guard is dropped.
Release(t) ==
  /\ pc[t] = "done"
  /\ pc' = [pc EXCEPT ![t] = "idle"]
  /\ face' = [face EXCEPT ![t] = "int"] /\ answer' = [answer EXCEPT ![t] = Undefined]
  /\ UNCHANGED <<cell, copy, warned, spoiled>>

\* A copy of the payload, taken under a read lock of its own.
CopyOut ==
  /\ copy' = payload
  /\ UNCHANGED <<cell, readers, warned, spoiled>>

-----------------------------------------------------------------------------
(* Writers, alone under the write lock. *)

Alone == \A t \in Thread : pc[t] = "idle"

\* Fault: assignment forgets the caches.
AssignOnly(p) ==
  /\ Alone /\ ~scalarReadonly
  /\ payload' = p /\ warned' = 0 /\ spoiled' = FALSE
  /\ UNCHANGED <<full, scalarReadonly, cached, valid, readers, copy>>

\* Fault: a readonly cell takes the value.
AssignAnyway(p) ==
  /\ Alone
  /\ payload' = p /\ warned' = 0 /\ spoiled' = FALSE
  /\ valid' = [f \in Face |-> FALSE] /\ cached' = [cached EXCEPT !["string"] = Zero["string"]]
  /\ UNCHANGED <<full, scalarReadonly, readers, copy>>

\* The payload and everything derived from it go; a readonly cell refuses.
Assign(p) ==
  /\ Alone /\ ~scalarReadonly
  /\ payload' = p /\ warned' = 0 /\ spoiled' = FALSE
  /\ valid' = [f \in Face |-> FALSE] /\ cached' = [cached EXCEPT !["string"] = Zero["string"]]
  /\ UNCHANGED <<full, scalarReadonly, readers, copy>>

\* Plain to Full in place, for magic, for a blessing or for the flag.
Upgrade ==
  /\ Alone /\ ~full
  /\ full' = TRUE
  /\ UNCHANGED <<payload, scalarReadonly, cached, valid, readers, copy, warned, spoiled>>

\* Clearing the flag of a Plain cell leaves it Plain.
SetScalarReadonly(on) ==
  /\ Alone /\ (on \/ full)
  /\ full' = TRUE /\ scalarReadonly' = on
  /\ UNCHANGED <<payload, cached, valid, readers, copy, warned, spoiled>>

\* Fault: the warning without the number that keeps the next one silent.
NumifyAgain ==
  /\ Alone /\ Warns(payload)
  /\ warned' = warned + 1
  /\ UNCHANGED <<cell, spoiled, readers, copy>>

\* A numification that warns: the text becomes a dual of itself and its
\* number, readonly or not.  The payload is taken out first, and is lost when
\* the warning's snippet cannot be allocated.  The caches stay.
Numify ==
  /\ Alone /\ Warns(payload)
  /\ \/ /\ payload' = Dual(payload.text, Classify(payload.text).number)
        /\ warned' = warned + 1 /\ spoiled' = spoiled
     \/ payload' = Undefined /\ spoiled' = TRUE /\ warned' = warned
  /\ UNCHANGED <<full, scalarReadonly, cached, valid, readers, copy>>

-----------------------------------------------------------------------------

ScalarNext ==
  \/ \E t \in Thread :
       \/ \E f \in Face : Read(t, f)
       \/ Probe(t) \/ Load(t) \/ StoreFace(t) \/ Publish(t) \/ Release(t)
  \/ CopyOut \/ Upgrade \/ Numify
  \/ \E p \in Fresh \union {copy} : Assign(p)
  \/ \E on \in BOOLEAN : SetScalarReadonly(on)

ScalarSpec == ScalarInit /\ [][ScalarNext]_scalar_vars

-----------------------------------------------------------------------------
(* Properties. *)

\* A reader is told what the payload is worth now, from a cache or not, however
\* the readers that fill the cache interleave and whatever was assigned or
\* numified before.  The one exception is a cell whose numification ran out of
\* memory: its payload is gone and its caches are not.
\* (scalar.rs Scalar::to_int, to_float, stringify, assign)
AnswersRight ==
  \A t \in Thread :
    pc[t] = "done" => answer[t] = Coerced(face[t], payload) \/ spoiled

\* A text warns at most once in a cell, however often it is numified and
\* copied back and forth.  (scalar.rs numify_noting_warning)
WarnsOnce == warned <= 1

\* Nothing that happens to a readonly cell changes a face of it, numifying it
\* included, unless memory ran out.  (scalar.rs Scalar::assign)
ReadonlyKept ==
  [][scalarReadonly /\ scalarReadonly' =>
       spoiled' \/ \A f \in Face : Coerced(f, payload') = Coerced(f, payload)]_scalar_vars
=============================================================================
