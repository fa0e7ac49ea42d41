------------------------------- MODULE Barrier -------------------------------
(***************************************************************************)
(* The asymmetric barrier of core/src/barrier.rs and the handshake built   *)
(* on it: an owner who brackets its accesses with plain stores, and a      *)
(* foreigner who converts the cell.  Stores wait in per-thread buffers, as *)
(* on x86, and `light` only keeps the compiler from moving them; a system  *)
(* call may refuse at any time.                                            *)
(***************************************************************************)
EXTENDS Naturals, SequencesExt

CONSTANTS
    Owner, Foreigner,
    Bystander,      \* threads that call `heavy` for cells of their own
    Platform,       \* subset of {"linux", "windows", "other"}
    MaxOps,         \* bound: the owner's operations
    MaxRounds       \* bound: conversions

Caller == {Foreigner} \cup Bystander
Party == {Owner} \cup Caller

\* The roles fall to different threads.
ASSUME BarrierAssumption == Owner # Foreigner /\ Owner \notin Bystander /\ Foreigner \notin Bystander

VARIABLES
    mem,        \* inside, converting and the cell, as memory has them
    buffer,     \* per thread: stores on their way to memory
    pc,         \* per thread
    seen,       \* what the owner has loaded of the cell
    backend,    \* "unknown" before the first use
    registered, \* the address space is registered with membarrier
    page,       \* protection of the page: "unmapped", "none", "rw"
    dirty,      \* a core holds a dirty translation of the page
    lock,       \* who runs a page barrier, or nobody
    left        \* operations and rounds left

page_vars == <<page, dirty, lock>>
kernel == <<backend, registered, page_vars>>
barrier_vars == <<mem, buffer, pc, seen, kernel, left>>

Nobody == {}

Var == {"inside", "converting", "cell"}

BarrierInit ==
    /\ mem = [v \in Var |-> IF v = "cell" THEN 0 ELSE FALSE]
    /\ buffer = [t \in Party |-> <<>>] /\ pc = [t \in Party |-> "idle"] /\ seen = 0
    /\ backend = "unknown" /\ registered = FALSE
    /\ page = "unmapped" /\ dirty = FALSE /\ lock = Nobody
    /\ left = [ops |-> MaxOps, rounds |-> MaxRounds]

Writer(v) == IF v = "converting" THEN Foreigner ELSE Owner

\* The value of v once the stores in s have drained over an old one.
Drained(s, v, old) ==
    LET at == {i \in DOMAIN s : s[i].var = v}
    IN  IF at = {} THEN old ELSE s[Max(at)].val

\* The value of v once its writer's stores have drained, which is what the
\* writer itself loads.
Latest(v) == Drained(buffer[Writer(v)], v, mem[v])
Load(t, v) == IF t = Writer(v) THEN Latest(v) ELSE mem[v]

Store(t, v, x) == buffer' = [buffer EXCEPT ![t] = Append(@, [var |-> v, val |-> x])] /\ UNCHANGED mem
Goto(t, l) == pc' = [pc EXCEPT ![t] = l]

\* The oldest store of a thread reaches memory.
Flush(t) ==
    /\ buffer[t] # <<>>
    /\ mem' = [mem EXCEPT ![Head(buffer[t]).var] = Head(buffer[t]).val]
    /\ buffer' = [buffer EXCEPT ![t] = Tail(@)]
    /\ UNCHANGED <<pc, seen, kernel, left>>

\* Every thread executes a full fence.
FenceAll == mem' = [v \in Var |-> Latest(v)] /\ buffer' = [t \in Party |-> <<>>]

-----------------------------------------------------------------------------
(* Detection, on the first use.                                            *)

\* The page is mapped, locked in memory and hidden, or given back.
MapPage(ok) ==
    /\ page' = IF ok THEN "none" ELSE "unmapped"
    /\ backend' = IF ok THEN "mprotect" ELSE "unavailable"

Detect ==
    /\ backend = "unknown"
    /\ \/ /\ "linux" \in Platform
          /\ backend' = "membarrier"
          \* A forked child finds the backend chosen and may have to register.
          /\ registered' \in BOOLEAN /\ UNCHANGED page
       \/ "linux" \in Platform /\ (\E ok \in BOOLEAN : MapPage(ok)) /\ UNCHANGED registered
       \/ "windows" \in Platform /\ backend' = "flush" /\ UNCHANGED <<registered, page>>
       \/ "other" \in Platform /\ backend' = "unavailable" /\ UNCHANGED <<registered, page>>
    /\ UNCHANGED <<mem, buffer, pc, seen, dirty, lock, left>>

IsAvailable == backend \notin {"unknown", "unavailable"}

-----------------------------------------------------------------------------
(* The owner.                                                              *)

OwnerAt(l) == pc[Owner] = l

Announce ==
    /\ OwnerAt("idle") /\ IsAvailable /\ left.ops > 0
    /\ Store(Owner, "inside", TRUE) /\ Goto(Owner, "look")
    /\ left' = [left EXCEPT !.ops = @ - 1]
    /\ UNCHANGED <<seen, kernel>>

\* Fault: the owner waits inside.
WaitInside ==
    /\ OwnerAt("look") /\ Load(Owner, "converting")
    /\ Goto(Owner, "wait")
    /\ UNCHANGED <<mem, buffer, seen, kernel, left>>

\* The owner finds a converter, and withdraws.
Withdraw ==
    /\ OwnerAt("look") /\ Load(Owner, "converting")
    /\ Store(Owner, "inside", FALSE) /\ Goto(Owner, "wait")
    /\ UNCHANGED <<seen, kernel, left>>

Resume ==
    /\ OwnerAt("wait") /\ ~Load(Owner, "converting")
    /\ Goto(Owner, "idle")
    /\ UNCHANGED <<mem, buffer, seen, kernel, left>>

Enter ==
    /\ OwnerAt("look") /\ ~Load(Owner, "converting")
    /\ seen' = Load(Owner, "cell") /\ Goto(Owner, "write")
    /\ UNCHANGED <<mem, buffer, kernel, left>>

Write ==
    /\ OwnerAt("write")
    /\ Store(Owner, "cell", seen + 1) /\ Goto(Owner, "exit")
    /\ UNCHANGED <<seen, kernel, left>>

Exit ==
    /\ OwnerAt("exit")
    /\ Store(Owner, "inside", FALSE) /\ Goto(Owner, "idle")
    /\ UNCHANGED <<seen, kernel, left>>

-----------------------------------------------------------------------------
(* heavy.                                                                  *)

\* heavy returns: a conversion goes on after a success only.
Returned(c, ok) == IF c \in Bystander THEN "done" ELSE IF ok THEN "await" ELSE "abandon"

Call(c) == pc[c] = "heavy"

Unavailable(c) ==
    /\ Call(c) /\ backend = "unavailable"
    /\ Goto(c, Returned(c, FALSE))
    /\ UNCHANGED <<mem, buffer, seen, kernel, left>>

\* Any system call may be refused.
Refused(c) ==
    /\ (Call(c) /\ backend = "membarrier") \/ pc[c] \in {"register", "retry", "open", "close"}
    /\ Goto(c, Returned(c, FALSE))
    /\ lock' = IF lock = {c} THEN Nobody ELSE lock
    /\ UNCHANGED <<mem, buffer, seen, backend, registered, page, dirty, left>>

\* FlushProcessWriteBuffers, or the expedited membarrier of a registered space.
Expedited(c) ==
    /\ \/ Call(c) /\ (backend = "flush" \/ (backend = "membarrier" /\ registered))
       \/ pc[c] = "retry" /\ registered
    /\ FenceAll /\ Goto(c, Returned(c, TRUE))
    /\ UNCHANGED <<seen, kernel, left>>

\* EPERM: the address space is not registered.
NotRegistered(c) ==
    /\ Call(c) /\ backend = "membarrier" /\ ~registered
    /\ Goto(c, "register")
    /\ UNCHANGED <<mem, buffer, seen, kernel, left>>

\* Fault: registration is taken for the barrier.
RegisterOnly(c) ==
    /\ pc[c] = "register"
    /\ registered' = TRUE /\ Goto(c, Returned(c, TRUE))
    /\ UNCHANGED <<mem, buffer, seen, backend, page_vars, left>>

Register(c) ==
    /\ pc[c] = "register"
    /\ registered' = TRUE /\ Goto(c, "retry")
    /\ UNCHANGED <<mem, buffer, seen, backend, page_vars, left>>

LockPage(c) ==
    /\ Call(c) /\ backend = "mprotect" /\ lock = Nobody
    /\ lock' = {c} /\ Goto(c, "open")
    /\ UNCHANGED <<mem, buffer, seen, backend, registered, page, dirty, left>>

OpenPage(c) ==
    /\ pc[c] = "open"
    /\ page' = "rw" /\ Goto(c, "dirty")
    /\ UNCHANGED <<mem, buffer, seen, backend, registered, dirty, lock, left>>

\* A locked increment: the caller's own stores drain with it.
DirtyPage(c) ==
    /\ pc[c] = "dirty"
    /\ dirty' = TRUE /\ Goto(c, "close")
    /\ mem' = [v \in Var |-> IF Writer(v) = c THEN Latest(v) ELSE mem[v]]
    /\ buffer' = [buffer EXCEPT ![c] = <<>>]
    /\ UNCHANGED <<seen, backend, registered, page, lock, left>>

\* Revoking a dirty translation interrupts every core that may hold it.
ClosePage(c) ==
    /\ pc[c] = "close"
    /\ IF dirty THEN FenceAll ELSE UNCHANGED <<mem, buffer>>
    /\ page' = "none" /\ dirty' = FALSE /\ lock' = Nobody
    /\ Goto(c, Returned(c, TRUE))
    /\ UNCHANGED <<seen, backend, registered, left>>

-----------------------------------------------------------------------------
(* The foreigner, and the bystanders.                                      *)

ForeignerAt(l) == pc[Foreigner] = l

\* A sequentially consistent store drains the buffer before it.
Convert ==
    /\ ForeignerAt("idle") /\ IsAvailable /\ left.rounds > 0
    /\ mem' = [mem EXCEPT !["converting"] = TRUE] /\ buffer' = [buffer EXCEPT ![Foreigner] = <<>>]
    /\ left' = [left EXCEPT !.rounds = @ - 1] /\ Goto(Foreigner, "heavy")
    /\ UNCHANGED <<seen, kernel>>

\* The owner is seen outside, and the cell is the foreigner's.
Hold ==
    /\ ForeignerAt("await") /\ ~Load(Foreigner, "inside")
    /\ Goto(Foreigner, "hold")
    /\ UNCHANGED <<mem, buffer, seen, kernel, left>>

GiveBack ==
    /\ pc[Foreigner] \in {"hold", "abandon"}
    /\ Store(Foreigner, "converting", FALSE) /\ Goto(Foreigner, "idle")
    /\ UNCHANGED <<seen, kernel, left>>

Begin(c) ==
    /\ c \in Bystander /\ pc[c] = "idle" /\ backend # "unknown"
    /\ Goto(c, "heavy")
    /\ UNCHANGED <<mem, buffer, seen, kernel, left>>

Own == Announce \/ Withdraw \/ Resume \/ Enter \/ Write \/ Exit
Heavy(c) ==
    \/ Unavailable(c) \/ Refused(c) \/ Expedited(c) \/ NotRegistered(c) \/ Register(c)
    \/ LockPage(c) \/ OpenPage(c) \/ DirtyPage(c) \/ ClosePage(c)
Handshake == Convert \/ Hold \/ GiveBack

BarrierNext ==
    \/ Detect \/ Own \/ Handshake
    \/ \E c \in Caller : Heavy(c) \/ Begin(c)
    \/ \E t \in Party : Flush(t)

\* Threads run, and stores reach memory.
BarrierFairness ==
    /\ WF_barrier_vars(Own) /\ WF_barrier_vars(Handshake)
    /\ \A c \in Caller : WF_barrier_vars(Heavy(c))
    /\ \A t \in Party : WF_barrier_vars(Flush(t))

BarrierSpec == BarrierInit /\ [][BarrierNext]_barrier_vars /\ BarrierFairness

-----------------------------------------------------------------------------
(* Properties.                                                             *)

\* The page is mapped while it is in use, and writable when it is written: no
\* other barrier has revoked it in between.
PageWritable ==
    \A c \in Caller :
        /\ pc[c] \in {"open", "dirty", "close"} => lock = {c} /\ page # "unmapped"
        /\ pc[c] = "dirty" => page = "rw"

\* While the foreigner holds the cell the owner is not between its look and its
\* exit, and none of its stores to the cell is still on the way.
OwnerIsOut ==
    ForeignerAt("hold") => pc[Owner] \notin {"write", "exit"} /\ mem["cell"] = Latest("cell")

\* Owner and foreigner exclude one another, and barriers one another's page.
Exclusion == OwnerIsOut /\ PageWritable

\* A conversion comes to its end, whatever the owner does.
Resolved == ForeignerAt("heavy") ~> ForeignerAt("idle")

=============================================================================
