------------------------------ MODULE RefCount ------------------------------
(***************************************************************************)
(* The reference-count protocol of core/src/cow_buffer.rs and the string   *)
(* handles of core/src/string.rs that follow it: tier buffers and Adopted  *)
(* structs shared by envelopes on several threads, written in place only   *)
(* through a sole reference, copied out otherwise, and freed by whoever    *)
(* drops the last one, an Adopted releasing what its holder retains on the *)
(* way down.                                                               *)
(*                                                                         *)
(* A reference is kept in a slot: a handle (an envelope's pointer), an     *)
(* object (the Parent or HeapBuf a span child retains) or a thread (a      *)
(* reference in flight, retained or allocated and not yet installed).      *)
(*                                                                         *)
(* The memory orders are modelled by what each thread knows to have        *)
(* happened before: a Release decrement publishes the thread's knowledge   *)
(* in the count's release sequence, and an Acquire load or fence takes it. *)
(***************************************************************************)
EXTENDS Integers, FiniteSets

CONSTANTS
    Thread,
    Handle,     \* the envelopes, empty or holding a reference
    Object,     \* the allocations, free or in use
    None,       \* no object, no handle
    Kind,       \* the kinds of value created: "buffer" (a tier allocation) and
                \* "adopted" (a foreign object taken whole)
    Ceiling     \* the largest value a count can hold (u32::MAX)

ASSUME RefCountAssumption ==
    /\ IsFiniteSet(Thread) /\ IsFiniteSet(Handle) /\ IsFiniteSet(Object)
    /\ Thread \cap Handle = {} /\ Thread \cap Object = {} /\ Handle \cap Object = {}
    /\ None \notin Thread \cup Handle \cup Object
    /\ Kind \subseteq {"buffer", "adopted"}
    /\ Ceiling \in Nat \ {0}

Slot == Handle \cup Object \cup Thread

\* A read or a write of an object's memory by a thread.
Access == Object \X Thread \X {"r", "w"}

VARIABLES
    refers,     \* the object each slot holds a reference on
    owner,      \* the thread each handle belongs to, None when it is empty
    writable,   \* whether a handle is a Heap form, which may write in place,
                \* and not a view
    status,     \* "free", "live", or "dying" from count zero to deallocation
    kind,       \* "buffer" (any tier) or "adopted"
    count,      \* the reference count
    base,       \* the object whose bytes an object's `base` points into
    pc, arg,    \* what each thread is in the middle of, and on which handle
    top, caller,\* the release recursion: the object a thread is dropping, and
                \* for each dying object the one whose drop released it
    known,      \* the accesses that happened before each thread's present: a
                \* pair (object, thread, kind) when all of them did
    published,  \* what the release sequence of each count carries
    halted      \* the process aborted

refVars == <<refers, owner, writable, status, kind, count, base, pc, arg, top, caller>>
hbVars == <<known, published>>
vars == <<refVars, hbVars, halted>>

-----------------------------------------------------------------------------
(* Happens-before bookkeeping.                                             *)

\* Thread t performs the accesses in done: nobody else has seen them yet, and
\* knowledge published earlier does not cover them.
Touched(k, t, done) == [u \in Thread |-> IF u = t THEN k[u] ELSE k[u] \ done]
Unpublished(p, done) == [o \in Object |-> p[o] \ done]

Perform(t, done) ==
    /\ known' = Touched(known, t, done)
    /\ published' = Unpublished(published, done)

Reads(t, objects) == {<<o, t, "r">> : o \in objects}
AllOf(o) == {a \in Access : a[1] = o}

\* t initializes a fresh allocation, having read what goes into it.
Initialize(t, o, read) == Perform(t, {<<o, t, "w">>} \cup Reads(t, read))

-----------------------------------------------------------------------------
(* The operations of the count.                                            *)

Idle(t) == pc[t] = "idle" /\ top[t] = None /\ ~halted

\* Thread t may start an operation on its handle h.
Holds(t, h) == Idle(t) /\ owner[h] = t

Empty(h) == owner[h] = None

\* fetch_add on a 32-bit word: it wraps.
Incremented(n) == (n + 1) % (Ceiling + 1)

\* Fault: a release that runs twice.
DecrementedTwice(n) == n - 2

\* fetch_sub.
Decremented(n) == IF n = 0 THEN Ceiling ELSE n - 1

\* The check on the value fetch_add returned, which Adopted::retain omits.
Overflows(o) == kind[o] = "buffer" /\ count[o] = Ceiling

\* retain: t adds a reference on o, and keeps it in slot s.
Retain(t, o, s) ==
    /\ refers' = [refers EXCEPT ![s] = o]
    /\ count' = [count EXCEPT ![o] = Incremented(@)]
    /\ UNCHANGED <<status, kind, base, top, caller, halted>>

\* retain at the ceiling: the count has wrapped before the abort runs.
RetainOverflows(t, o) ==
    /\ Overflows(o)
    /\ count' = [count EXCEPT ![o] = Incremented(@)]
    /\ pc' = [pc EXCEPT ![t] = "overflow"]
    /\ Perform(t, Reads(t, {o}))
    /\ UNCHANGED <<refers, owner, writable, status, kind, base, arg, top, caller, halted>>

\* Fault: the decrement is relaxed, and publishes nothing.
ReleaseRelaxed(t, o, frame) ==
    LET last == count[o] = 1
    IN  /\ count' = [count EXCEPT ![o] = Decremented(@)]
        /\ known' = IF last THEN [known EXCEPT ![t] = @ \cup published[o]] ELSE known
        /\ status' = IF last THEN [status EXCEPT ![o] = "dying"] ELSE status
        /\ caller' = IF last THEN [caller EXCEPT ![o] = frame] ELSE caller
        /\ top' = IF last THEN [top EXCEPT ![t] = o] ELSE top
        /\ UNCHANGED published

\* Fault: the object is dropped at the last reference but one.
ReleaseEarly(t, o, frame) ==
    /\ count' = [count EXCEPT ![o] = Decremented(@)]
    /\ status' = IF count[o] <= 2 THEN [status EXCEPT ![o] = "dying"] ELSE status
    /\ caller' = IF count[o] <= 2 THEN [caller EXCEPT ![o] = frame] ELSE caller
    /\ top' = IF count[o] <= 2 THEN [top EXCEPT ![t] = o] ELSE top
    /\ UNCHANGED hbVars

\* release: fetch_sub with Release ordering publishes what t knows; a count
\* that falls from one takes the release sequence by the Acquire fence, and t
\* drops the object.  frame is the object whose drop this release is part of.
Release(t, o, frame) ==
    LET publishing == [published EXCEPT ![o] = @ \cup known[t]]
        last == count[o] = 1
    IN  /\ count' = [count EXCEPT ![o] = Decremented(@)]
        /\ published' = publishing
        /\ known' = IF last THEN [known EXCEPT ![t] = @ \cup publishing[o]] ELSE known
        /\ status' = IF last THEN [status EXCEPT ![o] = "dying"] ELSE status
        /\ caller' = IF last THEN [caller EXCEPT ![o] = frame] ELSE caller
        /\ top' = IF last THEN [top EXCEPT ![t] = o] ELSE top

\* A fresh object with one reference, held by slot s.
Fresh(o, k, b) ==
    /\ status[o] = "free"
    /\ status' = [status EXCEPT ![o] = "live"]
    /\ kind' = [kind EXCEPT ![o] = k]
    /\ count' = [count EXCEPT ![o] = 1]
    /\ base' = [base EXCEPT ![o] = b]
    /\ UNCHANGED <<top, caller, halted>>

Goto(t, l) == pc' = [pc EXCEPT ![t] = l]

Done(t) == Goto(t, "idle") /\ arg' = [arg EXCEPT ![t] = None]

-----------------------------------------------------------------------------
(* The operations on handles.                                              *)

Init ==
    /\ refers = [s \in Slot |-> None]
    /\ owner = [h \in Handle |-> None]
    /\ writable = [h \in Handle |-> FALSE]
    /\ status = [o \in Object |-> "free"]
    /\ kind = [o \in Object |-> "buffer"]
    /\ count = [o \in Object |-> 0]
    /\ base = [o \in Object |-> o]
    /\ pc = [t \in Thread |-> "idle"]
    /\ arg = [t \in Thread |-> None]
    /\ top = [t \in Thread |-> None]
    /\ caller = [o \in Object |-> None]
    /\ known = [t \in Thread |-> Access]
    /\ published = [o \in Object |-> {}]
    /\ halted = FALSE

\* A new value on the heap, or a Vec, String or Arc adopted whole.
Allocate(t, h, o, k) ==
    /\ Idle(t) /\ Empty(h)
    /\ Fresh(o, k, o)
    /\ refers' = [refers EXCEPT ![h] = o]
    /\ owner' = [owner EXCEPT ![h] = t]
    /\ writable' = [writable EXCEPT ![h] = (k = "buffer")]
    /\ Initialize(t, o, {})
    /\ UNCHANGED <<pc, arg>>

\* Clone retains and copies the envelope; the compact slice forms retain and
\* build a view.
Share(t, h, g, w) ==
    /\ Holds(t, h) /\ Empty(g)
    /\ ~Overflows(refers[h])
    /\ Retain(t, refers[h], g)
    /\ owner' = [owner EXCEPT ![g] = t]
    /\ writable' = [writable EXCEPT ![g] = w]
    /\ Perform(t, Reads(t, {refers[h]}))
    /\ UNCHANGED <<pc, arg>>

Clone(t, h, g) == Share(t, h, g, writable[h])
MakeView(t, h, g) == Share(t, h, g, FALSE)

ShareOverflows(t, h) ==
    /\ Holds(t, h)
    /\ RetainOverflows(t, refers[h])

Abort(t) ==
    /\ pc[t] = "overflow" /\ ~halted
    /\ halted' = TRUE
    /\ UNCHANGED <<refVars, hbVars>>

\* Fault: the child is minted on a backing that was not retained.
SpanWithoutRetain(t, h) ==
    /\ Holds(t, h)
    /\ refers' = [refers EXCEPT ![t] = refers[h]]
    /\ Goto(t, "span")
    /\ Perform(t, Reads(t, {refers[h]}))
    /\ UNCHANGED <<owner, writable, status, kind, count, base, arg, top, caller, halted>>

\* An oversized view: adopt_span_of and adopt_heap_buf retain the backing
\* first and mint the child second.
SpanRetain(t, h) ==
    /\ Holds(t, h)
    /\ ~Overflows(refers[h])
    /\ Retain(t, refers[h], t)
    /\ Goto(t, "span")
    /\ Perform(t, Reads(t, {refers[h]}))
    /\ UNCHANGED <<owner, writable, arg>>

SpanMint(t, g, c) ==
    /\ pc[t] = "span" /\ ~halted /\ Empty(g)
    /\ Fresh(c, "adopted", base[refers[t]])
    /\ refers' = [refers EXCEPT ![c] = refers[t], ![g] = c, ![t] = None]
    /\ owner' = [owner EXCEPT ![g] = t]
    /\ writable' = [writable EXCEPT ![g] = FALSE]
    /\ Goto(t, "idle")
    /\ Initialize(t, c, {refers[t]})
    /\ UNCHANGED arg

\* Fault: the mint fails and the retain stays.
SpanFailKeeps(t) ==
    /\ pc[t] = "span" /\ ~halted
    /\ refers' = [refers EXCEPT ![t] = None]
    /\ Goto(t, "idle")
    /\ UNCHANGED <<owner, writable, status, kind, count, base, arg, top, caller, hbVars, halted>>

\* The mint cannot allocate: the retain is undone and the slice fails.
SpanFail(t) ==
    /\ pc[t] = "span" /\ ~halted
    /\ Release(t, refers[t], None)
    /\ refers' = [refers EXCEPT ![t] = None]
    /\ Goto(t, "idle")
    /\ UNCHANGED <<owner, writable, kind, base, arg, halted>>

\* Any read through a handle: the object's fields and the bytes behind it.
Read(t, h) ==
    /\ Holds(t, h)
    /\ Perform(t, Reads(t, {refers[h], base[refers[h]]}))
    /\ UNCHANGED <<refVars, halted>>

\* Fault: one other handle is overlooked.
TestAlmostUnique(t, h) ==
    /\ Holds(t, h) /\ writable[h]
    /\ arg' = [arg EXCEPT ![t] = h]
    /\ Goto(t, IF count[refers[h]] <= 2 THEN "write" ELSE "copy")
    /\ known' = [known EXCEPT ![t] = @ \cup published[refers[h]]]
    /\ UNCHANGED <<refers, owner, writable, status, kind, count, base, top, caller, published, halted>>

\* is_unique, an Acquire load: a count of one licenses writing in place, and
\* any other count a copy.
TestUnique(t, h) ==
    /\ Holds(t, h) /\ writable[h]
    /\ arg' = [arg EXCEPT ![t] = h]
    /\ Goto(t, IF count[refers[h]] = 1 THEN "write" ELSE "copy")
    /\ known' = [u \in Thread |->
                    IF u = t THEN known[t] \cup published[refers[h]]
                    ELSE known[u] \ Reads(t, {refers[h]})]
    /\ published' = Unpublished(published, Reads(t, {refers[h]}))
    /\ UNCHANGED <<refers, owner, writable, status, kind, count, base, top, caller, halted>>

\* A view is a read-only carrier: an append or unshare copies out.
LeaveView(t, h) ==
    /\ Holds(t, h) /\ ~writable[h]
    /\ arg' = [arg EXCEPT ![t] = h]
    /\ Goto(t, "copy")
    /\ UNCHANGED <<refers, owner, writable, status, kind, count, base, top, caller, hbVars, halted>>

WriteInPlace(t) ==
    /\ pc[t] = "write" /\ ~halted
    /\ Done(t)
    /\ Perform(t, {<<refers[arg[t]], t, "w">>})
    /\ UNCHANGED <<refers, owner, writable, status, kind, count, base, top, caller, halted>>

\* The replacement is built while the value still owns itself.
CopyOut(t, n) ==
    /\ pc[t] = "copy" /\ ~halted
    /\ Fresh(n, "buffer", n)
    /\ refers' = [refers EXCEPT ![t] = n]
    /\ Goto(t, "install")
    /\ Initialize(t, n, {refers[arg[t]], base[refers[arg[t]]]})
    /\ UNCHANGED <<owner, writable, arg>>

\* The copy cannot be allocated: the operation fails and the value stands.
CopyFail(t) ==
    /\ pc[t] = "copy" /\ ~halted
    /\ Done(t)
    /\ UNCHANGED <<refers, owner, writable, status, kind, count, base, top, caller, hbVars, halted>>

\* *self = replacement: the old reference is released.
Install(t) ==
    /\ pc[t] = "install" /\ ~halted
    /\ Release(t, refers[arg[t]], None)
    /\ refers' = [refers EXCEPT ![arg[t]] = refers[t], ![t] = None]
    /\ writable' = [writable EXCEPT ![arg[t]] = TRUE]
    /\ Done(t)
    /\ UNCHANGED <<owner, kind, base, halted>>

Drop(t, h) ==
    /\ Holds(t, h)
    /\ Release(t, refers[h], None)
    /\ refers' = [refers EXCEPT ![h] = None]
    /\ owner' = [owner EXCEPT ![h] = None]
    /\ writable' = [writable EXCEPT ![h] = FALSE]
    /\ UNCHANGED <<kind, base, pc, arg, halted>>

\* Fault: the retaining arm of Drop is treated as an owning one.
DropHolderForgets(t) ==
    /\ top[t] # None /\ ~halted
    /\ refers[top[t]] # None
    /\ refers' = [refers EXCEPT ![top[t]] = None]
    /\ UNCHANGED <<owner, writable, status, kind, count, base, pc, arg, top, caller, hbVars, halted>>

\* drop_in_place of a dying Adopted: its holder's reference is released, and
\* when that was the last one the parent is dropped within this drop.
DropHolder(t) ==
    /\ top[t] # None /\ ~halted
    /\ refers[top[t]] # None
    /\ Release(t, refers[top[t]], top[t])
    /\ refers' = [refers EXCEPT ![top[t]] = None]
    /\ UNCHANGED <<owner, writable, kind, base, pc, arg, halted>>

\* Fault: the drop that called this one is abandoned.
DeallocateAbandons(t) ==
    /\ top[t] # None /\ ~halted
    /\ refers[top[t]] = None
    /\ status' = [status EXCEPT ![top[t]] = "free"]
    /\ top' = [top EXCEPT ![t] = None]
    /\ UNCHANGED <<refers, owner, writable, kind, count, base, pc, arg, caller, hbVars, halted>>

\* Fault: the holder is dropped and the memory is not returned.
DeallocateSkipped(t) ==
    /\ top[t] # None /\ ~halted
    /\ refers[top[t]] = None
    /\ top' = [top EXCEPT ![t] = caller[top[t]]]
    /\ UNCHANGED <<refers, owner, writable, status, kind, count, base, pc, arg, caller, hbVars, halted>>

\* The object holds nothing more: its memory is returned, and what was known
\* of it is forgotten.
Deallocate(t) ==
    /\ top[t] # None /\ ~halted
    /\ refers[top[t]] = None
    /\ status' = [status EXCEPT ![top[t]] = "free"]
    /\ kind' = [kind EXCEPT ![top[t]] = "buffer"]
    /\ base' = [base EXCEPT ![top[t]] = top[t]]
    /\ caller' = [caller EXCEPT ![top[t]] = None]
    /\ top' = [top EXCEPT ![t] = caller[top[t]]]
    /\ known' = [u \in Thread |-> known[u] \cup AllOf(top[t])]
    /\ published' = [o \in Object |-> IF o = top[t] THEN {} ELSE published[o] \ AllOf(top[t])]
    /\ UNCHANGED <<refers, owner, writable, count, pc, arg, halted>>

\* A handle moves to another thread through a channel, a join or a lock, all
\* of which order the receiver after the sender.
Send(t, h, u) ==
    /\ Holds(t, h) /\ u # t
    /\ owner' = [owner EXCEPT ![h] = u]
    /\ known' = [known EXCEPT ![u] = @ \cup known[t]]
    /\ UNCHANGED <<refers, writable, status, kind, count, base, pc, arg, top, caller, published, halted>>

-----------------------------------------------------------------------------
Step(t) ==
    \/ \E h \in Handle :
        \/ \E o \in Object, k \in Kind : Allocate(t, h, o, k)
        \/ \E g \in Handle : Clone(t, h, g) \/ MakeView(t, h, g)
        \/ ShareOverflows(t, h) \/ SpanRetain(t, h)
        \/ \E c \in Object : SpanMint(t, h, c)
        \/ Read(t, h) \/ TestUnique(t, h) \/ LeaveView(t, h) \/ Drop(t, h)
        \/ \E u \in Thread : Send(t, h, u)
    \/ \E n \in Object : CopyOut(t, n)
    \/ Abort(t) \/ SpanFail(t) \/ WriteInPlace(t) \/ CopyFail(t) \/ Install(t)
    \/ DropHolder(t) \/ Deallocate(t)

Next == \E t \in Thread : Step(t)

\* A thread in the middle of a drop runs on.
Fairness == \A t \in Thread : WF_vars(DropHolder(t) \/ Deallocate(t))

Spec == Init /\ [][Next]_vars /\ Fairness

-----------------------------------------------------------------------------
(* Properties.                                                             *)

\* Every variable has its type.
TypeOK ==
    /\ refers \in [Slot -> Object \cup {None}]
    /\ owner \in [Handle -> Thread \cup {None}]
    /\ writable \in [Handle -> BOOLEAN]
    /\ status \in [Object -> {"free", "live", "dying"}]
    /\ kind \in [Object -> {"buffer", "adopted"}]
    /\ count \in [Object -> 0 .. Ceiling]
    /\ base \in [Object -> Object]
    /\ pc \in [Thread -> {"idle", "overflow", "span", "write", "copy", "install"}]
    /\ arg \in [Thread -> Handle \cup {None}]
    /\ top \in [Thread -> Object \cup {None}]
    /\ caller \in [Object -> Object \cup {None}]
    /\ known \in [Thread -> SUBSET Access]
    /\ published \in [Object -> SUBSET Access]
    /\ halted \in BOOLEAN

\* The slots that hold a reference on o.
Referrers(o) == {s \in Slot : refers[s] = o}

\* "The refcount counts live owners": it is the number of references, in
\* handles, holders and flight, at every step of every operation, failed
\* allocations and nested drops included.
CountExact == \A o \in Object : count[o] = Cardinality(Referrers(o))

\* Whatever can be followed is allocated: the object of every reference, and
\* the bytes behind it, however long the chain of holders between.
NoUseAfterFree ==
    \A s \in Slot : refers[s] # None =>
        /\ status[refers[s]] = "live"
        /\ status[base[refers[s]]] = "live"

\* "Data bytes are never written unless the refcount is exactly 1": from the
\* uniqueness test to the write, no other handle, view, span child or
\* reference in flight exists on the buffer, whatever the other threads do.
SoleWriter ==
    \A t \in Thread : pc[t] = "write" =>
        /\ Referrers(refers[arg[t]]) = {arg[t]}
        /\ owner[arg[t]] = t
        /\ \A o \in Object : status[o] = "live" /\ base[o] = refers[arg[t]] => o = refers[arg[t]]

\* A thread that may read an object's memory has every other thread's writes
\* to it behind it; one about to write or free it has every access.
RaceFree ==
    /\ \A h \in Handle : ~Empty(h) =>
        \A o \in {refers[h], base[refers[h]]}, u \in Thread : <<o, u, "w">> \in known[owner[h]]
    /\ \A t \in Thread :
        /\ pc[t] = "write" => AllOf(refers[arg[t]]) \subseteq known[t]
        /\ top[t] # None => AllOf(top[t]) \subseteq known[t]

\* Nothing leaks: an object without references is being dropped by a thread
\* whose stack of drops leads to it.
NoLeak ==
    \A o \in Object :
        status[o] # "free" /\ Referrers(o) = {} /\ ~halted =>
            /\ status[o] = "dying"
            /\ \/ \E t \in Thread : top[t] = o
               \/ \E p \in Object : status[p] = "dying" /\ caller[p] = o

\* A dropped object's memory comes back, through chains of any depth.
Reclaimed == \A o \in Object : status[o] = "dying" ~> (status[o] = "free" \/ halted)

=============================================================================
