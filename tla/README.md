# Perloxide: specifications and proofs

Perloxide is a Perl 5 runtime in Rust. This directory holds TLA+ models of its
value core and of its parser, the TLC runs that check them on small instances, and the TLAPS
proofs of what holds for every instance. Paths below are relative to the
repository (`src/` is its root); "design" is `src/docs/design.md`.

Run `tlc -workers 2 -config X.cfg M` for a run and `tlapm M.tla` for a proof
module. `PROJECT.json` lists runs, properties, the source lines behind every
definition, the known hazards, and the findings.

## 1. Inventory

The workspace has two crates, `core` (values, 13 000 lines without tests) and
`parser` (lexer, parser, pragmas, symbols, 13 000 lines), and a corpus of
recorded conformance data. `core` depends on nothing else in the workspace.

| Part | State | Operations | Hard part |
|---|---|---|---|
| Scan lattice (`string.rs` 170-500) | twelve states a string's bytes may be certified with | meet, append transition, slice birth, classify | every state must be true of the bytes: `as_str` converts without checking on the strength of it |
| Shared scan slot (`cow_buffer.rs` 561-633, `string.rs`) | an atomic state byte and a character count per large buffer or adopted object; an envelope byte per handle | `as_str`, `is_ascii`, `is_perl_utf8_valid`, `char_len`, `eq`, `hash` narrow through `&self`; append, upgrade and downgrade rewrite through `&mut` | readers on several threads race on the slot; rewrites derive the new state without reading the bytes |
| Reference counts (`cow_buffer.rs` 633-1220, 1385-1692) | a 32-bit count per tier buffer and per `Adopted`; the holder an `Adopted` retains | clone, drop, slice, oversized slice, uniqueness test, copy out | memory orders, failure between retain and mint, chains of holders, the ceiling |
| PString ladder (`string.rs`) | inline, Latin-1, packed, uuid, hex, four tiers, views, adopted, images | construct, append, slice, upgrade, downgrade, compare, hash | equal strings in different forms; transitions that fail half-way |
| PerlArray (`containers.rs` 36-545) | a buffer of slots with a gap, a live window and spare; a packed or boxed header; a readonly flag | set, ensure, delete, push, pop, shift, unshift, clear, drop | slots move by bit copies; growth fails after it has slid |
| Handles and hashes (`containers.rs` 546-1439) | locks around arrays and hashes, persistent arms, iteration cursors | the same, insert, delete, each | a cursor across mutation and rehash; upgrade between arms |
| Scalars (`scalar.rs`) | a payload, or a boxed full scalar with caches, magic and a blessing; constants that warn once | assign, numify, stringify, upgrade, readonly | caches against assignment, payload moved out before a fallible step |
| Release worklist (`heap.rs`) | per-thread drain flag and pending values | `release_value`, re-entrantly | nested deaths, order, a drain abandoned by a panic |
| Asymmetric barrier (`barrier.rs`) | the backend found at start | `light`, `heavy` | store-load ordering across two threads; registration that may be revoked |
| Values, numerics, warnings (`value.rs`, `numeric.rs`, `warnings.rs`) | none shared | conversions | number syntax and its warnings |
| Allocation backend (`alloc_backend.rs`) | external | allocate, release, size class | may fail; may grant more than asked |
| Lexer (`lexer.rs`, `source.rs`, `token.rs`, `keyword.rs`) | the current line, queued lines, a stack of bounded bodies, the line counter | next byte, next line, begin and end a here-document or a delimited body | bodies that are read ahead of the line that announces them, nested and interrupted |
| Parser (`parser.rs`, `ast.rs`, `pragma.rs`, `symbol.rs`) | one token of lookahead; lexical pragmas and package with the lexer's copies of them; a symbol table; a stack of expression frames | parse a program, a block, an expression | scopes end after the next token has been lexed; an explicit stack in place of recursion |
| Conformance corpus (`src/perl-conformance`) | data | none | none |

How they interact: a `Scalar`, an array slot or a hash bucket holds a `Value`;
a `Value` may hold a `PString`; a `PString` handle (the envelope) points to a
tier buffer or an `Adopted`, shares it by counting, and reads facts about its
bytes from the slot inside it, or from its own envelope. Writes in place are
licensed by the uniqueness test. A dying container hands its values to the
worklist, and those drop the strings. The parser uses the core for literals
only.

What makes each correct:
- lattice and slot: every certificate is true of the bytes, none is lost to a
  race, every answer is right, every pass ends;
- counts: a count is the number of references, nothing freed is reachable,
  a writer is alone, accesses are ordered, nothing leaks;
- array: it is the list a Perl array promises, and each value is dropped once;
- hash: an iteration yields every key present throughout exactly once;
- scalar: a cache never outlives its payload, a failed operation changes
  nothing, a constant warns once;
- worklist: every value handed over is dropped once, in bounded stack;
- barrier: not both of owner and foreigner enter;
- lexer: every byte is delivered once, in order within its body, under the
  right line number;
- parser: pragmas, package and the lexer's copies are those of the source's
  nesting on every path; a call finds the subs declared; an expression has the
  tree its binding table gives it.

## 2. Modules

| Module | Models | Composition |
|---|---|---|
| `Encoding` | byte strings over five classes of byte, their classification, character count, upgrade and downgrade | |
| `ScanLattice` | the states, the meet, append transitions, slice birth | EXTENDS `Encoding` |
| `ScanSlot` | readers and owners of one shared buffer, step by step | EXTENDS `ScanLattice` |
| `MCScanSlot` | an instance for TLC: short contents shared, or longer ones alone | EXTENDS `ScanSlot` |
| `ScanSlotProofs` | the algebra of meet, append, slice and expansion; the slot under races and rewrites | EXTENDS `ScanSlot` |
| `RefCount` | handles, objects, threads, counts, holders, memory orders | |
| `MCRefCount` | instances, a bound and symmetry for TLC | EXTENDS `RefCount` |
| `RefCountProofs` | the safety of the protocol; its memory orders are strong enough | EXTENDS `RefCount` |
| `ReleaseWorklist` | the graph of heap nodes, its teardown, native stacks | |
| `ReleaseWorklistProofs` | stacks stay short, worklists are drained, counts are exact | EXTENDS `ReleaseWorklist` |
| `Barrier` | the asymmetric barrier, the owner and the foreigner over it | |
| `BarrierProofs` | owner and foreigner exclude one another | EXTENDS `Barrier` |
| `MCReclamation` | the worklist and the barrier in one run | EXTENDS both |
| `PerlList` | what an array promises: a sequence with holes | abstract |
| `PerlArray` | the array engine | implements `PerlList` |
| `PerlArrayProofs` | it does, and its geometry stays sound | EXTENDS `PerlArray` |
| `HashIteration` | what iterating a hash promises | abstract |
| `HashEach` | the three hash engines and their cursors | implements `HashIteration` |
| `Numerals` | what a text is worth as a number, how a number is written | operators |
| `Numification` | every text up to a length, read and written back | EXTENDS `Numerals` |
| `Scalar` | a scalar, its caches, the threads that share it | EXTENDS `Numerals` |
| `MCScalar` | instances for TLC | EXTENDS `Scalar` |
| `ValuesProofs` | the hash engines iterate; a scalar's caches are true | EXTENDS `HashEach`, `Scalar` |
| `MCValues` | arrays, hashes, scalars and texts in one run | EXTENDS `PerlArray`, `HashEach`, `Scalar`; INSTANCE of `Numification` |
| `SourceLines` | delivery of lines, here-documents, delimited bodies | |
| `SourceLinesProofs` | every byte is delivered once, in order, under a steady number | EXTENDS `SourceLines` |
| `MCSourceLines` | instances for TLC | EXTENDS `SourceLines` |
| `SymbolTable` | declaring and looking up subs | operators |
| `ParserScope` | lexical state of the parser and of its lexer | EXTENDS `SymbolTable` |
| `MCParserScope` | instances for TLC | EXTENDS `ParserScope` |
| `ParserScopeProofs` | scoping for programs of any depth | EXTENDS `ParserScope` |
| `ExprTree` | expression trees, the binding table, contexts | operators |
| `ExprGrammar` | the trees the table licenses, without a parser | reference |
| `ExprParser` | the iterative expression parser | checked against `ExprGrammar` |
| `MCFrontEnd` | scopes, lines and expressions in one run | EXTENDS `ParserScope`, `SourceLines`; INSTANCE of `ExprParser` |

`MCReclamation`, `MCValues` and `MCFrontEnd` put modules that share no state
beside one another: the initial state picks a part, a behaviour moves that
part, and the others rest where they began. They save start-up and nothing
else; each property there is that of one module, or
conjoins what several state. A property is stated in the module whose state it
is about, so that the run and the theorem name the same definition; where two of
these modules would use one name, it says whose it is (`HashInit`, `ScalarInit`,
`ScopeInit`).

Operators whose comment starts with "Fault:" are not part of any
specification: each is a plausible bug in the operator after it, and shows
that a property would notice.

### Encoding, ScanLattice, ScanSlot

A byte is one of `a` (ASCII), `c` (continuation), `l`, `h`, `x` (leads of
two-byte sequences whose character is Latin-1, beyond Latin-1, or beyond what
Rust accepts). Longer sequences add no state of the lattice that these do not
reach, and every rule of the code that looks at bytes looks at the class only:
`cut_is_clean` at continuation bytes, the contraction at Latin-1 leads, the
probes at the high bit.

`ScanLattice` keeps the assertion sets, the derivations and the canonical
order of `scan::meet` as the code has them. `Admits(s)` says which classes a
state is true of, from the documentation of each state; `TrueOf(s, b)` is the
link to content.

In `ScanSlot`, `scan` and `count` are the slot's two words, `past` the values
a relaxed load may still return, `env` the envelope byte of each handle on an
adopted object, `views` the sub-views and their envelope bytes, `task` where
each reader is in a question. A question is `Ask` (load, meet with the
envelope byte, answer or walk), then `LoadCount` for `char_len`, then the
narrowing loop `LoadScan`, `NarrowNothing`, `NarrowSwap`, `NarrowRetry`, and
`StoreCount`. The walk over the bytes is one step with `Ask`, because nothing
can write while a handle is held. The compare-exchange of heap tiers is weak
and may fail spuriously; that of `Adopted` is not. Appends, upgrade and
downgrade require the only handle, as `append_heap_in_place` does.

### RefCount

An `Object` is a tier buffer or an `Adopted`; a reference sits in a `Handle`,
in an object (a span child's holder), or in flight in a thread. `count` is the
atomic word, with its width as `Ceiling`. Each operation is cut where another
thread may interleave: `SpanRetain` then `SpanMint` or `SpanFail`;
`TestUnique` then `WriteInPlace` or `CopyOut`, `CopyFail`, `Install`; a last
release then `DropHolder`, `Deallocate` for each link of the holder chain,
with `top` and `caller` as the native stack of nested drops; a retain past the
ceiling, then `Abort`.

Memory orders are modelled by happens-before sets: `known[t]` is the set of
pairs (object, thread, kind of access) all of whose accesses happened before
thread `t`'s present. An access by `t` removes its pair from the others'
knowledge. A Release decrement adds `t`'s knowledge to the count's release
sequence `published`, and the Acquire fence of the last release and the
Acquire load of `is_unique` take it back. A relaxed retain does neither. This
is weaker than sequential consistency exactly where the code relies on the
orders it names. Handles move to another thread only through something that
orders the two (`Send`).

### PerlList, PerlArray

`array` holds the buffer's slots and the geometry; `live` is the set of values
that have come in and were neither dropped nor handed back. `*slot = x` is
`Assigned`, which drops what the slot held; `slot.take()` is `Taken`;
`ptr::copy` is `Copied`, which leaves the old bits behind. `grow` is a set of
outcomes, since the allocator may refuse and may grant more: a refusal comes
after the slide, and what the caller does with the geometry then is modelled
where it happens, `WithParts` or, for `ensure_element`, the early return.
`PerlList` knows nothing of this: it is a sequence of values, undefs and holes
with the results Perl reports, and a failed operation changes nothing.

### HashIteration, HashEach

`HashIteration` is a pass over a set of keys: it yields no key twice, only keys
that exist, and does not end before it has yielded every key that was there
since it began. `HashEach` has the three engines of `containers.rs`: buckets
(`slots` with empty ones, `cursor` a bucket index), ordered entries (`slots`
dense, `cursor` an entry index) and the persistent map (`map`, and `walk`, what
the parked iterator over its snapshot has left). `visited` and `stable` record
the pass and decide nothing. Each call holds the hash's write lock throughout,
so it is one step. Where a key lands in the table, and the order in which the
persistent map is walked, are left open, since both hash with random keys.
`Passed` names the engines whose caller may delete a key that the pass yielded
before its last step; Perl documents only the deletion of the last one.

Deleting on the bucket engine erases in place: hashbrown's `remove` moves
nothing. `entry_or_undef` on an existing key is taken at the code's word, that
nothing moves; see the hazard at `containers.rs:1112`.

### ReleaseWorklist

A node is a scalar cell, an array or a hash; a handle or an element that refers
to it is a strong edge. `edges` and `held` say where the edges are, `strong` is
the count of `HeapArc`, and a node whose count reaches zero is "dying" until
its Drop has returned. `frames` is the thread's native stack, made explicit,
because its depth is what the worklist exists for: `DropFrame` is a node's Drop
with the elements it has taken out and not yet released, a "clear" frame is the
same for a live node, and `DrainFrame` is the loop in `release_value`. Clearing
an array of the default engine (`PerlArrays`) hands nothing to the list: it
assigns `None` slot by slot, so its "erase" frame drops each element inline and
waits under that Drop; the immutable engine and the hashes release theirs.
`ReleaseValue` puts an edge on `pending` and starts the loop if none runs;
`Drain` takes the latest one with the list unlocked, so that the Drop it starts
may add to the list; `DrainEnd` clears the flag. An assignment over an element
(`Overwrite`) and a handle that goes out of scope (`DropHandle`) drop inline, as
the code does. `TearDown` is the end of the thread-local: from there
`try_with` fails and `ReleaseUnlisted` is plain, recursive drop glue. Weak
handles, and a panic inside a Drop, are left out.

### Barrier

Stores wait in a buffer per thread, as on x86, and reach memory in `Flush`;
a thread sees its own stores. `light` is no step, since it only restrains the
compiler. `heavy` is cut where the kernel can answer: `Expedited` fences all
threads; without registration membarrier answers EPERM (`NotRegistered`), and
`Register` is followed by a second attempt; the page barrier takes its lock,
opens, dirties and closes the page, and closing fences every thread only if
the page is dirty. `Refused` lets any of these calls fail. `Detect` picks the
backend at the first use, and leaves open whether the address space is still
registered, as it is not in a forked child. The protocol over it is the one of
`tests/barrier_tests.rs`: the owner announces itself with a plain store, looks
for a converter, works on the cell and leaves; the foreigner announces the
conversion, calls `heavy`, waits until the owner is outside and holds the cell,
or gives up if the barrier was refused. Bystanders call `heavy` for cells of
their own, which contends for the page.

### Numerals, Numification

A text is a sequence of marks: a mark is a character, or one of the words the
code compares as a whole (`inf`, `inity`, `nan`, ` but true`). `Classify`,
`ParseInt` and `FloatSpan` are the walks of `value.rs`, integers are `Width`
bits wide and overflow where the code's 64 do, `Formatted` is `%g` at
`Precision` digits and `numeric.rs`'s caches of digits carry what fits. A
finite float is an exact decimal: rounding is left out. `Numification` grows a
text one mark at a time and checks every reading against a grammar stated
separately (`Numeral`), and every number against its own rendering, with and
without the cached digits.

### Scalar

One cell and the threads that share it. `payload`, `full`, `scalarReadonly` and
the three caches are the cell. Readers run together under the read lock: `Probe`,
`Load`, `StoreFace` of the value, `Publish` of its validity, `Release`, so that two
readers fill one cache in any interleaving; the string face goes through a
`OnceLock`. A writer is alone, so `Assign`, `Upgrade`,
`SetScalarReadonly` and `Numify` are one step each. Numifying a text that is no number warns and
installs a dual, readonly or not. The payload is taken out before the warning's
snippet is allocated; `spoiled` records that this failed and the payload is
lost. `copy` is a value read out earlier, to be assigned back.

### SourceLines

A byte is a symbol, and its offset a pair of row and column. `unread`, `queue`,
`line`, `stack`, `number` and `utf8` are the fields of `Source`. A body's
lookahead reads and queues lines and then rewinds; nothing else can happen in
between, so it is one step, of `StartHeredoc` or `StartDelimitedBody`. The scan
for a closing delimiter is given by what it finds: `Walked` are the bytes it
passes, and a delimiter that is not escaped closes the body when as many were
closed before it as were opened (`Closers`), which is what the code's `depth`
counts.
`LoadLine` delivers the next line under the bound of the innermost body,
`EndBody` returns to the suspended line, `Comment` and `Pod` pass over symbols,
`#line` directives set the counter. `delivered`, `passed`, `last`, `shift` and
`steady` are history: which bytes the lexer got, which are markers, in what
order, what directives have moved numbers by, and whether a directive or a
here-document has come in the way.

### SymbolTable, ParserScope

The parser holds one token that is already lexed, so every action that consumes
a token lexes the next (`LexToken`) under the lexer's settings of that moment.
`pragmas` and `package` are the parser's own, `lexer` the copies the lexer
reads, which `sync_lexer` brings in step; `saved` is what each open call of
`parse_scoped_block` will restore and what its caller does after that.
`CloseBlock` consumes the brace before it restores, in that order. `Error`
unwinds every open block, as `?` does. The program is chosen token by token;
`scopes` and `declared` are history: what the nesting of the source puts in
force, and the subs declared where Perl looks for them.

### ExprTree, ExprGrammar, ExprParser

`ExprParser` is the loop of `parse_expr`: `stack` holds its frames and the
operators that wait in a recursive call for their right operand, each with the
minimum level to go back to. `Forward` reads a term, `Loop` an operator that
binds tightly enough, `Backward` pops. Contexts are stamped when an assignment
or a statement is complete. `ExprGrammar` knows nothing of stacks: it builds
all trees over a token sequence and keeps those in which no operator has an
operand that the binding table gives to another, with the context each place
calls for. One operator stands for each level and associativity: `->` for the
whole of `parse_arrow_rhs`, as a postfix operator with nothing behind it.
Brackets are anonymous arrays; subscripts, that after a parenthesized list
included, are left out.

## 3. Runs

| Run | Instance | Shows |
|---|---|---|
| `scan_race` | 2 readers, 2 bytes, no views | races on the slot: certificates true, kept and never contradictory, answers right, passes end |
| `scan_rewrite` | 2 readers of 2 bytes, or 1 of 3; 1 view | long rewrites: derived states and counts true of the bytes, views true through slices of slices; what `as_str` gives out through an adopted view is valid, plain ASCII never withheld |
| `refcount` | 2 threads, 2 objects; 2 handles, or 3 that share 1 object | the protocol's safety, data races included |
| `refcount_chain` | 1 thread, 2 handles, 3 objects, ceiling 2 | chains of holders come back whole; the overflow abort comes before any use of a wrapped buffer count |
| `reclamation` | nodes: 2 threads, 3 nodes of 1 element, one of them an array of the default engine, 2 and 1 handles; barrier: owner, foreigner, 1 bystander, all backends, 3 operations, 2 conversions | counts exact, stacks shallow, every dead node freed; exclusion under every backend, no conversion without end |
| `values` | arrays: 3 values, indices to 2, 7 slots, packed fields to 4; hashes: 4 keys, tables of 2 and 4 buckets, three engines; scalar: 2 threads, 2 texts, 1 number; texts of 5 marks, 6-bit integers | arrays are lists, passes yield each key that stays once, caches answer for the payload, numbers are read by the grammar and written back |
| `front_end` | blocks and symbols 2 together, 2 packages, 1 sub, 1 feature; 4 rows out of 11, 2 bodies; 6 tokens | pragmas and package are lexical, subs are found; bytes come once and in order, with steady numbers; trees are the binding table's |
| `stale_int` | the scalar with the text `3e1-` | violated: a cached integer survives numification (finding 2) |
| `scope_leak` | scopes as in `front_end` | violated: the token after a block is lexed under the block's features (finding 5) |
| `heredoc_lines` | 4 rows out of 6 without directives | violated: the line after a here-document is numbered one too low (finding 4) |
| `local_list` | `local`, `=`, parentheses, 6 tokens | violated: `local ($x) = @a` is a scalar assignment (finding 3) |
| `array_double_drop` | the arrays of `values` | violated: slides drop what they moved (finding 1) |

Bounds, and why they are enough:
- two readers of a slot or of a scalar: the slot is one word, each cache two,
  and a reader's interference with another is a change of those words; a third
  adds no value they can take;
- two bytes reach every terminal state and every race of certificates; three
  bytes hold a two-byte character with another byte or lead on either side, so
  an append can complete, break or extend a sequence and a cut can fall inside
  one. The questions race on the slot of the whole buffer, which views only
  read, so `scan_race`, which carries the liveness, has none; `scan_rewrite`
  has the views, and two readers beside them. The proofs lift these
  bounds, and that of two readers, for every property but `PassesRecorded`;
- two objects on two threads hold a buffer and a span child on it; three
  objects a chain of two holders; three handles two sharers and a view. With
  two handles `refcount` has every state; a third it uses while one object is
  alive. The proofs lift these bounds for all but `Reclaimed`. The ceiling
  is above the number of slots in `refcount`, and within reach in
  `refcount_chain`, which has one thread (see section 4 for two);
- three nodes make a chain longer than the stack the worklist allows, a shared
  child and a cycle; a thread with two handles can link them while the other
  drops what it shares. The proofs lift the bound for `ShallowStack` and
  `StrongExact`;
- two conversions and three operations let an owner's operation straddle two
  conversions, and a bystander's page barrier overlap the foreigner's. The proof
  lifts these bounds, and that of one bystander, for `Exclusion`;
- four keys have a key on each side of the cursor, one that is deleted and one
  that `swap_remove` moves; tables of two and four buckets rehash within a pass,
  to the same size and to a larger one. The proof lifts these bounds;
- indices to 2 and seven slots hold an unshift's slide of three elements with its gap, a slide
  back over a gap, and a reallocation after each; packed fields to 4 make the
  header go wide by each of its three fields. The proofs lift these bounds;
- five marks hold a sign, a digit, a point or an exponent with its own digit
  and one thing too many; six bits overflow within them;
- four rows hold a here-document that is announced inside another's body, both
  terminators and a line after. Texts of four rows are those whose first row
  begins something, and whose last begins nothing and ends in a newline; the
  shorter ones are any; two bodies open at once nest one kind in the
  other. Two blocks without a sub, or one with a sub declared, or two
  subs, restore through a block that changed the state. The
  proofs lift these bounds, and those of packages, subs and features. The tokens are a
  chosen set, operators of each associativity and both brackets, so this is not every
  expression of Perl. Six tokens of it hold every pair of operators with their operands, three prefix or
  postfix operators, and a bracket around a binary operator; those of six have
  one array at most, the shorter ones any.

What section 4 describes is kept out of the passing runs, so that they say
what holds besides. `Operation` names the array operations whose allocation
may fail: in the others a growth that needs it is not taken, since
`ensure_element` is known to lose the geometry then. `PerlArrayProofs` assumes
the same and nothing else. `Passed` names the hash
engines on which keys other than the current one are deleted: the ordered engine
is not among them. The texts of the
scalar in `values` are worth as much as their numbers. `front_end`
has no `local`, no byte order mark and no qualified declaration, and
`NumbersSteady` and `WordsInScope` name their exceptions.

`CHECK_DEADLOCK FALSE` is set where the system stops: after an abort
(`refcount_chain`), when a program, a text or an expression has ended or was
rejected (`values`, `front_end` and their single-module runs), when the
threads have torn down and the barrier's operations are used up
(`reclamation`). `refcount` uses the symmetry of threads, handles and objects,
`scan_rewrite` that of readers and `values` that of threads and of array
values; none of the three checks liveness. The bounds that
narrow a specification further than its constants do are state constraints of
runs that check safety alone (`Bounded` of `MCScanSlot` and of `MCRefCount`) or
conjuncts of an MC module's own initial condition and steps (`Longest`,
`FewArrays` and `MaxNested` of `MCFrontEnd`), never of the module that the
proofs are about.

Fairness. `ScanSlot`: weak fairness of a reader's own steps (a thread that has
started a call runs on) and strong fairness of its compare-exchange (a weak
compare-exchange does not fail spuriously for ever). `RefCount` and
`ReleaseWorklist`: weak fairness of the steps of a Drop that has begun. `Barrier`:
threads that have begun an operation run on, and stores reach memory. Nothing
obliges a reader to ask, an owner to act, a handle to be dropped, or a
conversion to start. The other modules are sequential or about safety, and
have none. In `MCReclamation` each condition is about the part that moves.

`NothingLost` counts with the engine's own drops: a value that a slide drops
too early counts as gone. `IsPerlList` is about the contents of the window,
which are bit copies, so it holds despite finding 1; `NothingDroppedTwice` is
the property that does not.

## 4. Findings

1. `PerlArray::grow` and `unshift_value` (`containers.rs:163`, `:478`) assign
   `None` to slots holding the bits of moved values, which drops a value the
   array still holds. Two calls reach it (`array_double_drop`).
2. `numify_noting_warning` (`scalar.rs:315`) replaces a text by a dual without
   invalidating the caches: an integer cached from `3e1-` is 3, the dual's is
   30 (`stale_int`).
3. In `local ($x) = @a` the parentheses are gone before the `local` frame is
   built, so the assignment is taken for a scalar one (`parser.rs:2212`;
   `local_list`).
4. Leaving a here-document sets the line counter to the line after the
   introducer, and the terminator is dropped without being counted, so the
   line after it has the terminator's number (`source.rs:795`;
   `heredoc_lines`).
5. The closing brace of a block is consumed, and with it the next token lexed,
   before the block's pragmas are restored (`parser.rs:1830`; `scope_leak`).

Also seen while modelling, without a run of its own. The first ones have an
operator in the modules that states what fails:
- `as_str` on a whole-object view of an adopted object answers `None` in the
  state `PerlValidNonAscii` (`string.rs:2852`), which does not decide whether
  the bytes are valid UTF-8; an `is_ascii` before the call makes the difference
  (`ScanSlot!ViewStrRight`). What holds, whatever was asked before, is
  `ViewStrSound`: it never gives out bytes that are not, nor withholds ASCII;
- a byte order mark's `use utf8` reaches the lexer only, and is lost at the
  first pragma or block (`parser.rs:273`, `:1390`, `:1812`;
  `ParserScope!MarkHeeded`), against `parser_tests.rs:14350`;
- a forward declaration after a definition replaces it
  (`ParserScope!StaysDefined`);
- leaving a body restores the line and not the effective encoding
  (`source.rs:386-393`; `SourceLines!Utf8InStep`), against design 4597-4598 and
  5664-5665;
- `Adopted::retain` (`cow_buffer.rs:1587`) has no check at the ceiling, where
  every tier has one; and the tiers' own check comes one step after the wrap, so
  with two threads another clone or drop can use the wrapped count before the
  abort. `Arc` keeps half the range in reserve for this;
- `PerlArray::ensure_element` (`containers.rs:363`) loses the geometry of a
  slide when the growth after it fails;
- deleting an earlier key during an ordered pass repeats or skips a key
  (`containers.rs:1165`), where design 1336-1339 says the cursor is adjusted
  exactly;
- `numify_noting_warning` leaves undef behind if its snippet cannot be
  allocated (`scalar.rs:308-313`); the properties of `Scalar` except that case
  by `spoiled`;
- a sub declared under a qualified name is never found, as the table's key is
  the name as written and a call splits it;
- `keyword.rs`'s comment on `is_strong` and `parser.rs:2369` differ; `++` does
  not chain only because its result is no lvalue; the elements of an array
  constructor reject the low-precedence words; the comment on `cut_is_clean`
  (`string.rs:5762`) says an empty cut is always clean, which the code does not
  make true of an empty view at a continuation byte (`slice` never makes one).

## 5. Proofs

`ScanSlotProofs`, first part: `MeetExact`, `AppendSound`, `SliceSound`, `ExpansionSound`.
The meet of two states admits exactly the contents both admit, unless there are
none. It goes through the facts true of a class (`Truths`): a state admits a
class when its assertion set is among them (`AdmitsByFacts`), derivation keeps
that (`DerivedSound`), and so does canonicalization (`CanonicalExact`). It is
why the order of racing meets is immaterial. The other three are the transitions
that rewrite a state without reading the bytes: the state an append gives admits
the concatenation, the one a slice is born with admits the cut, the one an
upgrade leaves admits the expansion, whatever the bytes and however long.

`ScanSlotProofs`, second part: for any number of readers and views and byte strings of any
length, every safety property of the two scan runs: `CachesTrue` (the
invariant), `SlotTypes`, `SlotsStayTrue`, `AnswersAreRight`,
`AllStaysTrue`, `ViewStringsAreSound`, `CertificatesStay`, `MeetsAreConsistent` and the action
property `SlotOnlyNarrows`. That the slot is true of the bytes is not inductive:
a relaxed load may return an older state, and a reader acts on what it loaded
some steps ago. `IInv` says of every state the slot has held since the last
rewrite that it is true of the bytes and that the present one narrows it
(`Slots`); of the envelopes that they are true, and those of heap tiers empty
(`Envelopes`); of a reader that its certificate and its answer are true, and
that the certificate is in the slot once its loop is over (`Steps`). What races
can do to the slot is a meet, and `MeetExact` carries it; a rewrite needs the only
handle, so no reader is under way, and the other three theorems carry it.

`RefCountProofs`: for every finite number of threads, handles and objects, on
condition that the slots number no more than the ceiling,
`TypesHold`, `CountsAreExact`, `NothingFreedIsReachable`, `WritersAreSole` and
`NothingLeaks`. The condition is the code's own claim that the ceiling is not
reached, and it is needed: `Adopted::retain` does not check. None of the five
properties is inductive. The invariant `IInv` that is has three parts:
- `RefTypes`: the types of the variables the argument uses;
- `Graph`: counts are exact; what is referred to is live; a live object with
  no reference does not exist, since the last release makes it dying; a free
  object holds nothing; the drop stacks contain each dying object once
  (`Stacks`, `Stacked`); an object's bytes are those of its holder's base, or
  its own (`BaseOfHolder`, `Grounded`);
- `Threads`: what a thread in the middle of an operation may rely on: it owns
  its argument, holds its reference in flight, and a thread about to write is
  the only referrer (`WriterAlone`).

`BaseOfHolder` and `Grounded` are what carries liveness from the end of a
holder chain to its start, without induction over the chain: a child's base is
its holder's, and the base of any is an object whose base is itself. There is
one lemma for each kind of change to the graph (`FreshKeepsGraph`,
`RetainKeepsGraph`, `MintKeepsGraph`, `ReleaseKeepsGraph`,
`DeallocateKeepsGraph`), one step lemma for each action, and `IInvStep`
assembles them. `TypeOK` needs the happens-before variables too, whose types
are kept by `HBStep`.

`RefCountProofs`, second part: `NoDataRace`, under the same condition. A free must know
every access to what it frees. Such an access was made through a reference to the
object or to a span child of it, possibly over several holders, and the thread
that made it may be gone. `HBInv` says where the knowledge of it is meanwhile:
in every set of objects that holds, with an object, those whose holders lead to
it, one keeps each access, be it in its release sequence, with the
agent of a reference to it, or with the thread that is dropping it (`Covered`).
For a singleton with no such children this is the claim that the last release
learns everything; for larger sets it survives the release of a holder. Beside
it, a reader knows the writes to what it can read, through a holder too
(`WritesKnown`), a writer every access (`WriterKnows`), a dropper every access of
each object on its stack (`DropsKnown`). There is one lemma for each kind of step:
knowledge or references grow (`Grow`), a reference is given up (`Fall`), an
object is freed (`Deallocate`).

`ReleaseWorklistProofs`: for any threads and nodes, with no bound on edges or
handles, `StackIsShallow`, `WorklistIsDrained` and `CountsAreExact`. The first
invariant gives the shape of every stack. A thread whose thread-local lives has
one of four: no frame; a Drop or clear; the drain loop on that; one Drop on the
loop; each perhaps with the erasing of a default-engine array beneath. Which of
them it is agrees with the `draining` flag, and without the loop
the list is empty (`Shape`). A thread whose thread-local is gone has no loop,
any number of other frames, and never lists again: this is where `ShallowStack` ends,
and its guard is the code's fallback, not a convenience. Exactness of the counts
is about the places a strong edge may be in: a handle, an element of a node, a
worklist, or an operation half done on a stack. `CInv` counts them by these
shelves, as one set of places whose cardinality is the count, and each step
moves, adds or removes one place; so no sum over sequences is needed.

`BarrierProofs`: for any number of bystanders, operations and conversions, on
every backend and with any system call refused, `FencesHold` (the invariant)
and `OwnerAndForeignerExclude`. `IInv` gives each thread its own variables
(`Stores`) and labels (`Labels`), the page to the holder of the lock, dirty
when it is closed (`Pages`: this is why the closing revokes and so fences), and what
memory shows (`Fences`). The owner's stores may still be under way after the
barrier. `Fenced` says that this does no harm: an owner that is inside after
the barrier was announced before it, so the foreigner sees it, and it takes its
announcement back after its last store to the cell, so that memory has the
store when the foreigner sees it outside.

`PerlArrayProofs`: for arrays of any size, with any values and any outcome the
allocator has, on the condition that `"ensure"` is not in `Operation`, that is,
that the growth of `ensure_element` does not fail:
`GeometryStaysSound` (the invariant), `GeometryTyped`, `SpareStaysVacant`,
`NothingIsLost` and `EngineIsPerlList`. The condition is needed: that failure
loses the geometry of a slide that has happened (section 4), and the window is
then not the list. `set`, `push` and `unshift` may fail wherever they grow. `IInv`
says that the window lies in the buffer, that the slots outside it are vacant, that
every live value is in it, and that a packed header fits its fields.
`EngineIsPerlList` is the refinement: with the window as the list, the initial
state is `PerlList`'s and every step of the engine is the step of the list with
the same result, or a stutter (`StepSound`). It has one lemma for each
piece of `grow` (slide to the gap, slide back, reallocate) and for
each way the window changes, and one for each operation on top of them.

`ValuesProofs`, hashes: for any finite set of keys and tables of any sizes,
`PassInvariant`, `HashTyped` and `EnginesIterate`, on the condition that
`"Ordered"` is not in `Passed`: during a pass the caller of the ordered engine
deletes no key that lies before the last one yielded. The condition is needed
(section 4); the bucket engine and the persistent one need none. `EnginesIterate`
is the refinement of `HashIteration`, each step of an engine a step of the
iteration or a stutter. The invariant says where a pass is: on an index, it has
yielded just the keys behind the cursor (`BehindCursor`), and the last of them
on the ordered engine is the current key (`LastYielded`), so that a
`swap_remove` of it moves a key from ahead of the cursor to ahead of it; a
parked iterator has left only what is not yielded yet, every key that was there
all along and is not yielded among it (`StillToCome`).

`ValuesProofs`, scalars: for any threads, texts, numbers and precision,
`ScalarTyped`, `WarnsAtMostOnce` and `OnlyNumifyingMisleads` without a
condition: a wrong answer needs a cell whose text was numified in place and is
not worth what its number is (`Faithful`), which is finding 2 and all of it.
`AnswersAreRight` and `ReadonlyIsKept` follow for texts that have none of these:
the condition is on the texts that warn, and that of the run, `3e`, warns and meets it; it is
false of `3e1-`. The invariant `SInv` says that a face that may be read is the
payload's (`CacheTrue`), that what a reader has loaded, stored or answered
is (`ReaderTrue`), and that a text that would warn has not (`Silence`). The
functions on texts are recursive, but the proofs need only that a coercion gives
a face of its type.

`SourceLinesProofs`: for programs of any rows, and any nesting of any number of
bodies, `SourceInvariant`, `EveryBytePlaced`, `BytesComeInOrder` and
`LinesAreNumbered`. The constants have the assumption of the module only: a row
is a sequence of symbols, and the sentinel is none of the values. The invariants
stand on one another:
- `SourceInv`: the lines to come are rows of the text in its order (`Stream`),
  behind the current line (`Past`); every line the lexer holds is in the text
  and cut as the bound of its body cuts it (`Held`); a body ends at or after the
  line that resumes behind it, and within the body around it unless that one has
  no line to come (`Body`). The exception is what a here-document makes that is
  announced on the last line of another body and read beyond its end;
- `PlaceInv`: each byte of the text is in one of five places, delivered, passed
  over, on the current line, on the line of one suspended body, or on a line to
  come that is read under the innermost bound that reaches it (`Placed`). Each
  action moves the bytes of one place to others, and there is a lemma for each
  (`HeredocPlaces`, `DelimitedPlaces`, ...). What `Pieces` lists are these places
  (`PiecesAre`), so `EachByteOnce` follows;
- `OrderInv`: what a body has given comes before what its line and the lines to
  come have, level by level of the stack. This gives the action property
  `InOrder`;
- `NumberInv`: while `steady` holds, the lines to come are the last rows of the
  text, and every line held and the counter differ from the rows by `shift`.
Lines are numbered from the counter and put back into the queue with a row only,
so nothing in the code relates the two but the rewind, and a here-document
breaks it (finding 4).

`ParserScopeProofs`: for programs of any depth over any packages, features,
subs and versions, `PragmasAreLexical`, `SubsAreFound` and `ScopeTyped`. The
invariant `Nested` says that what is current agrees with
the innermost scope, and that what each open block will restore, with what its
caller does to the package after it, agrees with the scope around it: only that
makes the end of a block inductive. `TableInv` says that the entries are the
subs declared, one for each. `Plain` is assumed: no byte order mark, and bare
names in declarations. Both are needed, see section 4.

Only model-checked: `Reclaimed`, `Freed`, `Resolved` and `PassesRecorded`,
which are liveness under fairness and out of the prover's reach; `Numification`
(`ReadsByGrammar`, `WritesBack`), whose readings are recursive functions over the
text, and would need induction over it; `ExprParser` (`ParsesAsGrammar`), whose
reference is recursive over trees, for the same reason. The parts of `Types` that
belong to arrays, hashes, scalars and scopes are proved; those of the lines and of
`ExprParser` are checked. `SourceInv` covers what the lines' `TypeOK` says of
`text`, `unread`, `queue`, `line`, `stack` and `number`; the other invariants
type what records history only as far as they use it.
`NothingDroppedTwice` is false (finding 1).

## 6. Not modelled

- The PString ladder's forms other than heap buffers, views and adopted
  objects: inline, Latin-1, packed, uuid, hex, immortal. Which form a string
  takes has no state beyond the string, and the forms are data conversions.
- `ConstScalar`, blessing, magic, taint twins, weak handles, a panic inside a
  Drop, the persistent array arm, the values of a hash.
- Payloads of a scalar that are booleans, unsigned integers or aliases: the
  models have undef, texts, signed integers, floats and duals.
- How characters become tokens: keywords, quote-like operators, numbers,
  interpolation. The models begin at tokens, lines or bytes.
- The syntax of statements, signatures and regex literals. `ParserScope` has
  the statements that change lexical state, and takes the rest for words;
  `ExprParser` has one operator for each binding level and associativity, and
  neither what follows `->` nor subscripts.
- The rounding of binary floats, hexadecimal literals, code points, formatting.
- `jemalloc` and the system allocator: an allocation may fail, and may exceed
  what was asked.
- `entry_or_undef` on an existing key is taken at the code's word, that
  hashbrown moves nothing; see the hazard at `containers.rs:1112`.
- The conformance corpus, which is data.

## 7. Plan

Left to do, in this order:
1. weak handles in `ReleaseWorklist` (upgrade against the last drop), and the
   flag a panic leaves behind;
2. `ConstScalar`'s once-only warning on several threads;
3. the lexer's expectation of a term or an operator, and the statements that
   reset it.
